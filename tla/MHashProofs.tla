------------------------------ MODULE MHashProofs ------------------------------
(***************************************************************************)
(* The hash table is a map, for any keys, hash function, list of primes    *)
(* and batch.  A table is looked at through its slots: what put_slot and   *)
(* mh_del do to a table in which every chain is whole, and what mh_find    *)
(* then finds; the resize keeps the shadow in step with the table, and its *)
(* counters leave every search a slot to end at.                           *)
(***************************************************************************)
EXTENDS MHash, TLAPS, FiniteSetTheorems

Content(t, k, n) == \E x \in Used(t) : t.p[x] = n /\ n.key = k

LEMMA TableFields ==
    ASSUME NEW t, IsTable(t)
    PROVE  /\ t.n_buckets \in Nat /\ t.n_buckets > 1
           /\ \E i \in DOMAIN Primes : t.n_buckets = Primes[i]
           /\ t.p \in [Slots(t.n_buckets) -> Node \union {Null}]
           /\ t.dirty \subseteq Slots(t.n_buckets)
           /\ t.n_dirty \in Int /\ t.size \in Int
<1>1. PICK i \in DOMAIN Primes : t \in Table(Primes[i])
  BY DEF IsTable
<1>2. Primes[i] \in Nat /\ Primes[i] > 1
  BY PrimesAssumption
<1> QED
  BY <1>1, <1>2 DEF Table

LEMMA TableOf ==
    ASSUME NEW t, IsTable(t),
           NEW p \in [Slots(t.n_buckets) -> Node \union {Null}],
           NEW dirty \in SUBSET Slots(t.n_buckets),
           NEW n_dirty \in Int, NEW size \in Int
    PROVE  IsTable([n_buckets |-> t.n_buckets, p |-> p, dirty |-> dirty,
                    n_dirty |-> n_dirty, size |-> size])
BY DEF IsTable, Table

LEMMA TableIsRecord ==
    ASSUME NEW t, IsTable(t)
    PROVE  t = [n_buckets |-> t.n_buckets, p |-> t.p, dirty |-> t.dirty,
                n_dirty |-> t.n_dirty, size |-> t.size]
BY DEF IsTable, Table

LEMMA ModInSlots ==
    ASSUME NEW n \in Nat, n > 1, NEW a \in Int
    PROVE  a % n \in Slots(n)
BY DEF Slots

LEMMA SpotInSlots ==
    ASSUME NEW t, IsTable(t), NEW k \in Keys, NEW j \in Nat
    PROVE  Spot(t, k, j) \in Slots(t.n_buckets)
<1> DEFINE n == t.n_buckets
           inc == 1 + (Hash[k] % (n - 1))
<1>1. n \in Nat /\ n > 1 /\ Hash[k] \in Nat
  BY TableFields, HashAssumption
<1>2. inc \in Int
  BY <1>1
<1>3. Hash[k] + j * inc \in Int
  <2> HIDE DEF inc
  <2> QED
    BY <1>1, <1>2
<1> HIDE DEF n
<1> QED
  BY <1>1, <1>3, ModInSlots DEF Spot, Probe, n

LEMMA UsedNode ==
    ASSUME NEW t, IsTable(t), NEW x \in Used(t)
    PROVE  /\ x \in Slots(t.n_buckets) /\ x # t.n_buckets
           /\ t.p[x] \in Node /\ t.p[x] # Null
           /\ t.p[x].key \in Keys
BY TableFields DEF Used, Node, Slots
-----------------------------------------------------------------------------
(***************************************************************************)
(* mh_find                                                                 *)
(***************************************************************************)
LEMMA FindPresent ==
    ASSUME NEW t, IsTable(t), Whole(t), NEW x \in Used(t)
    PROVE  Find(t, t.p[x].key) = x
<1> DEFINE k == t.p[x].key
<1>1. k \in Keys /\ t.p[x] # Null
  BY UsedNode
<1>2. PICK j \in Steps(t) :
          /\ Spot(t, k, j) = x
          /\ \A i \in 0 .. j - 1 : Spot(t, k, i) \in t.dirty /\ Spot(t, k, i) # x
  BY DEF Whole, Reached
<1>3. ASSUME NEW i \in Nat, Holds(t, k, Spot(t, k, i))
      PROVE  Spot(t, k, i) = x
  <2>1. Spot(t, k, i) \in Used(t)
    BY <1>1, <1>3, SpotInSlots DEF Used, Holds
  <2> QED
    BY <1>3, <2>1 DEF Whole, Holds
<1>4. FoundAt(t, k, j)
  <2>1. Holds(t, k, Spot(t, k, j))
    BY <1>1, <1>2 DEF Holds
  <2>2. ASSUME NEW i \in 0 .. j - 1
        PROVE  ~ EndsAt(t, k, i)
    BY <1>2, <1>3 DEF EndsAt
  <2> QED
    BY <2>1, <2>2 DEF FoundAt, SearchEnds, EndsAt
<1>5. ASSUME NEW i \in Steps(t), FoundAt(t, k, i)
      PROVE  Spot(t, k, i) = x
  BY <1>3, <1>5 DEF FoundAt, Steps
<1> QED
  BY <1>4, <1>5 DEF Find

LEMMA FindAbsent ==
    ASSUME NEW t, IsTable(t), NEW k \in Keys,
           \A x \in Used(t) : t.p[x].key # k
    PROVE  Find(t, k) = t.n_buckets
<1>1. ASSUME NEW j \in Steps(t), FoundAt(t, k, j)
      PROVE  FALSE
  <2>1. Spot(t, k, j) \in Slots(t.n_buckets)
    BY SpotInSlots DEF Steps
  <2> QED
    BY <1>1, <2>1 DEF FoundAt, Holds, Used
<1> QED
  BY <1>1 DEF Find

(***************************************************************************)
(* Either way: the slot found is the one with the key.                     *)
(***************************************************************************)
LEMMA FindSlot ==
    ASSUME NEW t, IsTable(t), Whole(t), NEW k \in Keys,
           Find(t, k) # t.n_buckets
    PROVE  /\ Find(t, k) \in Used(t)
           /\ t.p[Find(t, k)].key = k
<1>1. PICK x \in Used(t) : t.p[x].key = k
  BY FindAbsent
<1> QED
  BY <1>1, FindPresent
-----------------------------------------------------------------------------
(***************************************************************************)
(* put_slot                                                                *)
(***************************************************************************)
LEMMA FreeStepIs ==
    ASSUME NEW t, NEW k, NEW j \in Steps(t), FirstFree(t, k, j),
           t.n_buckets \in Nat
    PROVE  FreeStep(t, k) = j
<1>1. ASSUME NEW i \in Steps(t), FirstFree(t, k, i)
      PROVE  i = j
  BY <1>1 DEF FirstFree, Steps
<1> QED
  BY <1>1 DEF FreeStep

(***************************************************************************)
(* What is known of the two loops once they end: j is where the first one  *)
(* stops, c where the second does.                                         *)
(***************************************************************************)
Loops(t, k, j, c) ==
    /\ j \in Steps(t) /\ c \in Steps(t)
    /\ FreeStep(t, k) = j
    /\ FirstFree(t, k, j)
    /\ ChainEnds(Passed(t, k), k, j, c)
    /\ PutSlot(t, k) = IF Holds(t, k, Spot(t, k, c)) THEN Spot(t, k, c)
                                                     ELSE Spot(t, k, j)

LEMMA PassedFields ==
    ASSUME NEW t, IsTable(t), NEW k \in Keys, NEW j \in Steps(t)
    PROVE  LET m == Marked(t, k, j) IN
           /\ IsTable(m)
           /\ m.n_buckets = t.n_buckets /\ m.p = t.p
           /\ m.n_dirty = t.n_dirty /\ m.size = t.size
           /\ m.dirty = t.dirty \union {Spot(t, k, i) : i \in 0 .. j - 1}
<1> DEFINE D == t.dirty \union {Spot(t, k, i) : i \in 0 .. j - 1}
<1>1. D \subseteq Slots(t.n_buckets)
  <2>1. \A i \in 0 .. j - 1 : Spot(t, k, i) \in Slots(t.n_buckets)
    BY SpotInSlots DEF Steps
  <2> QED
    BY <2>1, TableFields
<1>2. Marked(t, k, j) = [n_buckets |-> t.n_buckets, p |-> t.p, dirty |-> D,
                         n_dirty |-> t.n_dirty, size |-> t.size]
  <2>1. t = [n_buckets |-> t.n_buckets, p |-> t.p, dirty |-> t.dirty,
             n_dirty |-> t.n_dirty, size |-> t.size]
    BY TableIsRecord
  <2> HIDE DEF D
  <2>2. [t EXCEPT !.dirty = D] =
            [n_buckets |-> t.n_buckets, p |-> t.p, dirty |-> D,
             n_dirty |-> t.n_dirty, size |-> t.size]
    BY <2>1
  <2>3. Marked(t, k, j) = [t EXCEPT !.dirty = D]
    BY DEF Marked, D
  <2> QED
    BY <2>2, <2>3
<1> HIDE DEF D
<1>3. IsTable(Marked(t, k, j))
  BY <1>1, <1>2, TableFields, TableOf
<1> QED
  BY <1>2, <1>3 DEF D

LEMMA LoopsEnd ==
    ASSUME NEW t, IsTable(t), NEW k \in Keys, PutEnds(t, k)
    PROVE  \E j, c \in Steps(t) : Loops(t, k, j, c)
<1>1. PICK j \in Steps(t) :
          /\ FirstFree(t, k, j)
          /\ \E i \in Steps(t) : ChainEnds(Marked(t, k, j), k, j, i)
  BY DEF PutEnds
<1>2. FreeStep(t, k) = j
  BY <1>1, FreeStepIs, TableFields
<1> DEFINE c == CHOOSE i \in Steps(t) : ChainEnds(Passed(t, k), k, j, i)
<1>3. c \in Steps(t) /\ ChainEnds(Passed(t, k), k, j, c)
  BY <1>1, <1>2 DEF Passed
<1>4. PutSlot(t, k) = IF Holds(t, k, Spot(t, k, c)) THEN Spot(t, k, c)
                                                    ELSE Spot(t, k, j)
  BY <1>2 DEF PutSlot
<1> HIDE DEF c
<1> QED
  BY <1>1, <1>2, <1>3, <1>4 DEF Loops

(***************************************************************************)
(* The slot put_slot returns is the one slot the key can be in.            *)
(***************************************************************************)
LEMMA OnlySlot ==
    ASSUME NEW t, IsTable(t), Whole(t), NEW k \in Keys,
           NEW j \in Steps(t), NEW c \in Steps(t), Loops(t, k, j, c),
           NEW y \in Used(t), t.p[y].key = k
    PROVE  PutSlot(t, k) = y
<1>1. PICK m \in Steps(t) :
          /\ Spot(t, k, m) = y
          /\ \A i \in 0 .. m - 1 : Spot(t, k, i) \in t.dirty /\ Spot(t, k, i) # y
  BY DEF Whole, Reached
<1>2. ASSUME NEW i \in Nat, Holds(t, k, Spot(t, k, i))
      PROVE  Spot(t, k, i) = y
  <2>1. Spot(t, k, i) \in Used(t)
    BY <1>2, SpotInSlots DEF Used, Holds
  <2> QED
    BY <1>2, <2>1 DEF Whole, Holds
<1>3. Holds(t, k, Spot(t, k, m))
  BY <1>1, UsedNode DEF Holds
<1>4. j <= m
  <2>1. CASE m < j
    <3>1. Taken(t, k, m)
      BY <2>1 DEF Loops, FirstFree, Steps
    <3> QED
      BY <1>3, <3>1 DEF Taken
  <2> QED
    BY <2>1, TableFields DEF Steps
<1> DEFINE T == Passed(t, k)
<1>5. /\ T.p = t.p /\ T.n_buckets = t.n_buckets
      /\ t.dirty \subseteq T.dirty
  BY PassedFields DEF Loops, Passed
<1>6. \A i : Holds(T, k, Spot(T, k, i)) <=> Holds(t, k, Spot(t, k, i))
  BY <1>5 DEF Holds, Spot
<1>7. \A i : Spot(T, k, i) = Spot(t, k, i)
  BY <1>5 DEF Spot
<1>8. c = m
  <2>1. EndsAt(T, k, m)
    BY <1>3, <1>6 DEF EndsAt
  <2>2. c <= m
    <3>1. CASE m < c
      <4>1. ~ EndsAt(T, k, m)
        BY <1>4, <3>1 DEF Loops, ChainEnds, Steps
      <4> QED
        BY <2>1, <4>1
    <3> QED
      BY <3>1, TableFields DEF Steps
  <2>3. CASE c < m
    <3>1. EndsAt(T, k, c)
      BY DEF Loops, ChainEnds
    <3>2. Spot(t, k, c) \in T.dirty /\ Spot(t, k, c) # y
      BY <1>1, <1>5, <2>3 DEF Steps
    <3>3. Holds(t, k, Spot(t, k, c))
      BY <1>6, <1>7, <3>1, <3>2 DEF EndsAt
    <3> QED
      BY <1>2, <3>2, <3>3 DEF Steps
  <2> QED
    BY <2>2, <2>3, TableFields DEF Steps
<1> QED
  BY <1>1, <1>3, <1>8 DEF Loops

LEMMA PutSlotInSlots ==
    ASSUME NEW t, IsTable(t), NEW k \in Keys, PutEnds(t, k)
    PROVE  PutSlot(t, k) \in Slots(t.n_buckets)
<1>1. PICK j, c \in Steps(t) : Loops(t, k, j, c)
  BY LoopsEnd
<1>2. Spot(t, k, j) \in Slots(t.n_buckets) /\ Spot(t, k, c) \in Slots(t.n_buckets)
  BY SpotInSlots DEF Steps
<1> QED
  BY <1>1, <1>2 DEF Loops

(***************************************************************************)
(* What a put does to the slots, whether it counts or not.                 *)
(***************************************************************************)
Placed(t, u, node) ==
    LET x == PutSlot(t, node.key) IN
    /\ u.n_buckets = t.n_buckets
    /\ x \in Slots(t.n_buckets)
    /\ u.p = [t.p EXCEPT ![x] = node]
    /\ u.dirty = Passed(t, node.key).dirty

LEMMA PlaceIs ==
    ASSUME NEW t, IsTable(t), NEW node \in Node, PutEnds(t, node.key)
    PROVE  /\ IsTable(Place(t, node))
           /\ Placed(t, Place(t, node), node)
           /\ Place(t, node).n_dirty = t.n_dirty
           /\ Place(t, node).size = t.size
<1> DEFINE k == node.key
           x == PutSlot(t, k)
           T == Passed(t, k)
           P == [t.p EXCEPT ![x] = node]
<1>1. k \in Keys
  BY DEF Node
<1>2. x \in Slots(t.n_buckets)
  BY <1>1, PutSlotInSlots
<1>3. /\ IsTable(T) /\ T.n_buckets = t.n_buckets /\ T.p = t.p
      /\ T.n_dirty = t.n_dirty /\ T.size = t.size
  <2>1. PICK j, c \in Steps(t) : Loops(t, k, j, c)
    BY <1>1, LoopsEnd
  <2> QED
    BY <1>1, <2>1, PassedFields DEF Loops, Passed
<1>4. T = [n_buckets |-> T.n_buckets, p |-> T.p, dirty |-> T.dirty,
           n_dirty |-> T.n_dirty, size |-> T.size]
  BY <1>3, TableIsRecord
<1>5. Place(t, node) = [T EXCEPT !.p = [T.p EXCEPT ![x] = node]]
  BY DEF Place
<1>6. P \in [Slots(t.n_buckets) -> Node \union {Null}]
  BY <1>2, TableFields
<1> HIDE DEF T, x
<1>7. Place(t, node) = [n_buckets |-> T.n_buckets, p |-> P, dirty |-> T.dirty,
                        n_dirty |-> T.n_dirty, size |-> T.size]
  BY <1>3, <1>4, <1>5
<1> HIDE DEF P
<1>8. IsTable(Place(t, node))
  BY <1>3, <1>6, <1>7, TableFields, TableOf
<1> QED
  BY <1>2, <1>3, <1>7, <1>8 DEF Placed, P, T, x

LEMMA PlacedUsed ==
    ASSUME NEW t, IsTable(t), NEW u, NEW node \in Node, Placed(t, u, node)
    PROVE  LET x == PutSlot(t, node.key) IN
           /\ x \in Used(u) /\ u.p[x] = node
           /\ \A y \in Used(u) : y # x => y \in Used(t) /\ u.p[y] = t.p[y]
           /\ \A y \in Used(t) : y # x => y \in Used(u) /\ u.p[y] = t.p[y]
<1>1. node # Null
  BY NoNodeAssumption
<1> QED
  BY <1>1, TableFields DEF Placed, Used

LEMMA PlacedWhole ==
    ASSUME NEW t, IsTable(t), Whole(t), NEW u, NEW node \in Node,
           PutEnds(t, node.key), Placed(t, u, node)
    PROVE  /\ Whole(u)
           /\ \A y \in Used(t) : t.p[y].key = node.key => y = PutSlot(t, node.key)
<1> DEFINE k == node.key
           x == PutSlot(t, k)
<1>1. k \in Keys
  BY DEF Node
<1>2. PICK j, c \in Steps(t) : Loops(t, k, j, c)
  BY <1>1, LoopsEnd
<1>3. \A y \in Used(t) : t.p[y].key = k => y = x
  BY <1>1, <1>2, OnlySlot
<1>4. \A l, i : Spot(u, l, i) = Spot(t, l, i)
  BY DEF Placed, Spot
<1>5. Steps(u) = Steps(t)
  BY DEF Placed, Steps
<1>6. /\ t.dirty \subseteq u.dirty
      /\ \A i \in 0 .. j - 1 : Spot(t, k, i) \in u.dirty
  BY <1>1, <1>2, PassedFields DEF Loops, Passed, Placed
<1>7. ASSUME NEW y \in Used(t), u.p[y].key = t.p[y].key
      PROVE  Reached(u, y)
  <2>1. PICK m \in Steps(t) :
            /\ Spot(t, t.p[y].key, m) = y
            /\ \A i \in 0 .. m - 1 :
                  Spot(t, t.p[y].key, i) \in t.dirty /\ Spot(t, t.p[y].key, i) # y
    BY DEF Whole, Reached
  <2> QED
    BY <1>4, <1>5, <1>6, <1>7, <2>1 DEF Reached
<1>8. u.p[x] = node
  BY PlacedUsed
<1>9. Reached(u, x)
  <2>1. CASE x \in Used(t) /\ t.p[x].key = k
    BY <1>7, <1>8, <2>1
  <2>2. CASE ~ (x \in Used(t) /\ t.p[x].key = k)
    <3>1. x = Spot(t, k, j)
      <4>1. CASE Holds(t, k, Spot(t, k, c))
        <5>1. x = Spot(t, k, c)
          BY <1>2, <4>1 DEF Loops
        <5>2. x \in Used(t)
          BY <4>1, <5>1, <1>1, SpotInSlots DEF Holds, Used, Steps
        <5> QED
          BY <2>2, <4>1, <5>1, <5>2 DEF Holds
      <4> QED
        BY <1>2, <4>1 DEF Loops
    <3>2. ASSUME NEW i \in 0 .. j - 1
          PROVE  Spot(t, k, i) # x
      <4>1. Taken(t, k, i)
        BY <1>2 DEF Loops, FirstFree
      <4>2. Spot(t, k, i) \in Used(t)
        BY <1>1, <4>1, SpotInSlots DEF Taken, Used, Steps
      <4>3. ~ Taken(t, k, j)
        BY <1>2 DEF Loops, FirstFree
      <4> QED
        BY <3>1, <4>1, <4>3 DEF Taken
    <3> QED
      BY <1>2, <1>4, <1>5, <1>6, <1>8, <3>1, <3>2 DEF Reached
  <2> QED
    BY <2>1, <2>2
<1>10. \A y \in Used(u) : Reached(u, y)
  BY <1>7, <1>9, PlacedUsed
<1>11. ASSUME NEW y \in Used(u), NEW z \in Used(u), u.p[y].key = u.p[z].key
       PROVE  y = z
  BY <1>3, <1>8, <1>11, PlacedUsed DEF Whole
<1> QED
  BY <1>3, <1>10, <1>11 DEF Whole

LEMMA PutIs ==
    ASSUME NEW t, IsTable(t), NEW node \in Node, PutEnds(t, node.key)
    PROVE  /\ IsTable(Put(t, node)) /\ Placed(t, Put(t, node), node)
           /\ t.p[PutSlot(t, node.key)] # Null =>
                 Put(t, node).n_dirty = t.n_dirty /\ Put(t, node).size = t.size
           /\ t.p[PutSlot(t, node.key)] = Null =>
                 /\ Put(t, node).n_dirty = t.n_dirty + Fresh(t, node.key)
                 /\ Put(t, node).size = t.size + 1
<1> DEFINE u == Place(t, node)
<1>1. /\ IsTable(u) /\ Placed(t, u, node)
      /\ u.n_dirty = t.n_dirty /\ u.size = t.size
  BY PlaceIs
<1>2. u = [n_buckets |-> u.n_buckets, p |-> u.p, dirty |-> u.dirty,
           n_dirty |-> u.n_dirty, size |-> u.size]
  BY <1>1, TableIsRecord
<1>3. /\ u.p \in [Slots(u.n_buckets) -> Node \union {Null}]
      /\ u.dirty \in SUBSET Slots(u.n_buckets)
      /\ u.n_dirty \in Int /\ u.size \in Int
  BY <1>1, TableFields
<1>4. Fresh(t, node.key) \in Int
  BY DEF Fresh
<1>5. CASE t.p[PutSlot(t, node.key)] # Null
  BY <1>1, <1>5 DEF Put
<1>6. CASE t.p[PutSlot(t, node.key)] = Null
  <2>1. Put(t, node) = [u EXCEPT !.size = u.size + 1,
                                 !.n_dirty = u.n_dirty + Fresh(t, node.key)]
    BY <1>6 DEF Put
  <2> HIDE DEF u
  <2>2. Put(t, node) = [n_buckets |-> u.n_buckets, p |-> u.p, dirty |-> u.dirty,
                        n_dirty |-> u.n_dirty + Fresh(t, node.key),
                        size |-> u.size + 1]
    BY <1>2, <2>1
  <2>3. u.n_dirty + Fresh(t, node.key) \in Int /\ u.size + 1 \in Int
    BY <1>3, <1>4
  <2>4. IsTable(Put(t, node))
    BY <1>1, <1>3, <2>2, <2>3, TableOf
  <2>5. /\ Put(t, node).n_buckets = u.n_buckets /\ Put(t, node).p = u.p
        /\ Put(t, node).dirty = u.dirty
        /\ Put(t, node).n_dirty = u.n_dirty + Fresh(t, node.key)
        /\ Put(t, node).size = u.size + 1
    BY <2>2
  <2> QED
    BY <1>1, <1>6, <2>4, <2>5 DEF Placed
<1> QED
  BY <1>5, <1>6

LEMMA MovedIs ==
    ASSUME NEW t, IsTable(t), NEW node \in Node, PutEnds(t, node.key)
    PROVE  /\ IsTable(Moved(t, node)) /\ Placed(t, Moved(t, node), node)
           /\ Moved(t, node).n_dirty = t.n_dirty + 1
           /\ Moved(t, node).size = t.size
<1> DEFINE u == Place(t, node)
<1>1. /\ IsTable(u) /\ Placed(t, u, node)
      /\ u.n_dirty = t.n_dirty /\ u.size = t.size
  BY PlaceIs
<1>2. u = [n_buckets |-> u.n_buckets, p |-> u.p, dirty |-> u.dirty,
           n_dirty |-> u.n_dirty, size |-> u.size]
  BY <1>1, TableIsRecord
<1>3. /\ u.p \in [Slots(u.n_buckets) -> Node \union {Null}]
      /\ u.dirty \in SUBSET Slots(u.n_buckets)
      /\ u.n_dirty \in Int /\ u.size \in Int
  BY <1>1, TableFields
<1>4. Moved(t, node) = [u EXCEPT !.n_dirty = u.n_dirty + 1]
  BY DEF Moved
<1> HIDE DEF u
<1>5. Moved(t, node) = [n_buckets |-> u.n_buckets, p |-> u.p, dirty |-> u.dirty,
                        n_dirty |-> u.n_dirty + 1, size |-> u.size]
  BY <1>2, <1>4
<1>6. IsTable(Moved(t, node))
  BY <1>1, <1>3, <1>5, TableOf
<1> QED
  BY <1>1, <1>5, <1>6 DEF Placed
-----------------------------------------------------------------------------
(***************************************************************************)
(* mh_del: the slot is free, its dirty bit stays.                          *)
(***************************************************************************)
LEMMA DelIs ==
    ASSUME NEW t, IsTable(t), NEW x \in Used(t)
    PROVE  /\ IsTable(Del(t, x))
           /\ Del(t, x).n_buckets = t.n_buckets
           /\ Del(t, x).p = [t.p EXCEPT ![x] = Null]
           /\ Del(t, x).dirty = t.dirty
           /\ Used(Del(t, x)) = Used(t) \ {x}
           /\ Del(t, x).size = t.size - 1
           /\ Del(t, x).n_dirty = t.n_dirty - (IF x \in t.dirty THEN 0 ELSE 1)
<1> DEFINE less == IF x \in t.dirty THEN 0 ELSE 1
           P == [t.p EXCEPT ![x] = Null]
<1>1. x \in Slots(t.n_buckets) /\ x # t.n_buckets
  BY UsedNode
<1>2. t = [n_buckets |-> t.n_buckets, p |-> t.p, dirty |-> t.dirty,
           n_dirty |-> t.n_dirty, size |-> t.size]
  BY TableIsRecord
<1>3. /\ P \in [Slots(t.n_buckets) -> Node \union {Null}]
      /\ t.dirty \in SUBSET Slots(t.n_buckets)
      /\ t.n_dirty - less \in Int /\ t.size - 1 \in Int
  BY <1>1, TableFields
<1>4. Del(t, x) = [t EXCEPT !.p = [t.p EXCEPT ![x] = Null], !.size = t.size - 1,
                            !.n_dirty = t.n_dirty - less]
  BY <1>1 DEF Del
<1> HIDE DEF less
<1>5. Del(t, x) = [n_buckets |-> t.n_buckets, p |-> P, dirty |-> t.dirty,
                   n_dirty |-> t.n_dirty - less, size |-> t.size - 1]
  BY <1>2, <1>4
<1> HIDE DEF P
<1>6. IsTable(Del(t, x))
  BY <1>3, <1>5, TableOf
<1>7. Del(t, x).p = P /\ Del(t, x).n_buckets = t.n_buckets /\ Del(t, x).dirty = t.dirty
  BY <1>5
<1>8. Used(Del(t, x)) = Used(t) \ {x}
  BY <1>1, <1>7, TableFields DEF Used, P
<1> QED
  BY <1>5, <1>6, <1>7, <1>8 DEF P, less

LEMMA DelWhole ==
    ASSUME NEW t, IsTable(t), Whole(t), NEW x \in Used(t)
    PROVE  Whole(Del(t, x))
<1> DEFINE u == Del(t, x)
<1>1. /\ u.n_buckets = t.n_buckets /\ u.dirty = t.dirty
      /\ \A y \in Used(u) : y \in Used(t) /\ u.p[y] = t.p[y]
  <2>1. /\ u.n_buckets = t.n_buckets /\ u.dirty = t.dirty
        /\ u.p = [t.p EXCEPT ![x] = Null]
        /\ Used(u) = Used(t) \ {x}
    BY DelIs
  <2> HIDE DEF u
  <2>2. \A y \in Used(t) : y # x => [t.p EXCEPT ![x] = Null][y] = t.p[y]
    BY TableFields DEF Used
  <2> QED
    BY <2>1, <2>2
<1>2. \A l, i : Spot(u, l, i) = Spot(t, l, i)
  BY <1>1 DEF Spot
<1>3. Steps(u) = Steps(t)
  BY <1>1 DEF Steps
<1> HIDE DEF u
<1>4. ASSUME NEW y \in Used(u)
      PROVE  Reached(u, y)
  <2>1. Reached(t, y) /\ u.p[y] = t.p[y]
    BY <1>1, <1>4 DEF Whole
  <2> QED
    BY <1>1, <1>2, <1>3, <2>1 DEF Reached
<1>5. \A y, z \in Used(u) : u.p[y].key = u.p[z].key => y = z
  BY <1>1 DEF Whole
<1>6. Whole(u)
  BY <1>4, <1>5 DEF Whole
<1> QED
  BY <1>6 DEF u

(***************************************************************************)
(* An empty table, and a table that takes another's place.                 *)
(***************************************************************************)
LEMMA NewIs ==
    ASSUME NEW i \in DOMAIN Primes, NEW size \in Int
    PROVE  /\ IsTable(New(Primes[i], size))
           /\ Whole(New(Primes[i], size))
           /\ Used(New(Primes[i], size)) = {}
           /\ New(Primes[i], size).n_buckets = Primes[i]
           /\ New(Primes[i], size).dirty = {}
           /\ New(Primes[i], size).n_dirty = 0
           /\ New(Primes[i], size).size = size
<1> DEFINE t == New(Primes[i], size)
<1>1. IsTable(t)
  BY DEF IsTable, Table, New
<1>2. Used(t) = {}
  BY DEF Used, New
<1> QED
  BY <1>1, <1>2 DEF Whole, New

LEMMA SizedIs ==
    ASSUME NEW t, IsTable(t), NEW size \in Int
    PROVE  LET u == [t EXCEPT !.size = size] IN
           /\ IsTable(u)
           /\ u.n_buckets = t.n_buckets /\ u.p = t.p /\ u.dirty = t.dirty
           /\ u.n_dirty = t.n_dirty /\ u.size = size
           /\ Used(u) = Used(t)
           /\ Whole(t) => Whole(u)
<1> DEFINE u == [t EXCEPT !.size = size]
<1>1. t = [n_buckets |-> t.n_buckets, p |-> t.p, dirty |-> t.dirty,
           n_dirty |-> t.n_dirty, size |-> t.size]
  BY TableIsRecord
<1>2. u = [n_buckets |-> t.n_buckets, p |-> t.p, dirty |-> t.dirty,
           n_dirty |-> t.n_dirty, size |-> size]
  BY <1>1
<1> HIDE DEF u
<1>3. IsTable(u)
  <2>1. /\ t.p \in [Slots(t.n_buckets) -> Node \union {Null}]
        /\ t.dirty \in SUBSET Slots(t.n_buckets)
        /\ t.n_dirty \in Int
    BY TableFields
  <2> QED
    BY <1>2, <2>1, TableOf
<1>4. /\ u.n_buckets = t.n_buckets /\ u.p = t.p /\ u.dirty = t.dirty
      /\ u.n_dirty = t.n_dirty /\ u.size = size
  BY <1>2
<1>5. Used(u) = Used(t) /\ Steps(u) = Steps(t) /\ \A l, i : Spot(u, l, i) = Spot(t, l, i)
  BY <1>4 DEF Used, Steps, Spot
<1>6. Whole(t) => Whole(u)
  BY <1>4, <1>5 DEF Whole, Reached
<1> QED
  BY <1>3, <1>4, <1>5, <1>6 DEF u
-----------------------------------------------------------------------------
LEMMA PutSlotFree ==
    ASSUME NEW t, IsTable(t), NEW k \in Keys, PutEnds(t, k),
           PutSlot(t, k) \in Used(t)
    PROVE  t.p[PutSlot(t, k)].key = k
<1>1. PICK j, c \in Steps(t) : Loops(t, k, j, c)
  BY LoopsEnd
<1>2. ~ Taken(t, k, j)
  BY <1>1 DEF Loops, FirstFree
<1>3. CASE Holds(t, k, Spot(t, k, c))
  BY <1>1, <1>3 DEF Loops, Holds
<1>4. CASE ~ Holds(t, k, Spot(t, k, c))
  BY <1>1, <1>2, <1>4 DEF Loops, Holds, Taken, Used
<1> QED
  BY <1>3, <1>4

(***************************************************************************)
(* The table and its shadow stay in step: a put into both, a node that     *)
(* moves, a slot there is nothing to move from, a delete from both.        *)
(***************************************************************************)
LEMMA InStepPut ==
    ASSUME NEW t, IsTable(t), Whole(t), NEW u, IsTable(u), Whole(u),
           NEW m \in Nat, InStep(t, u, m),
           NEW node \in Node, PutEnds(t, node.key), PutEnds(u, node.key),
           NEW t2, Placed(t, t2, node), NEW u2, Placed(u, u2, node)
    PROVE  InStep(t2, u2, m)
<1> DEFINE k == node.key
<1>1. k \in Keys
  BY DEF Node
<1>2. /\ PutSlot(t, k) \in Used(t2) /\ t2.p[PutSlot(t, k)] = node
      /\ \A x \in Used(t2) : x # PutSlot(t, k) => x \in Used(t) /\ t2.p[x] = t.p[x]
      /\ \A x \in Used(t) : x # PutSlot(t, k) => x \in Used(t2) /\ t2.p[x] = t.p[x]
      /\ \A x \in Used(t) : t.p[x].key = k <=> x = PutSlot(t, k)
  BY <1>1, PlacedUsed, PlacedWhole, PutSlotFree
<1>3. /\ PutSlot(u, k) \in Used(u2) /\ u2.p[PutSlot(u, k)] = node
      /\ \A x \in Used(u2) : x # PutSlot(u, k) => x \in Used(u) /\ u2.p[x] = u.p[x]
      /\ \A x \in Used(u) : x # PutSlot(u, k) => x \in Used(u2) /\ u2.p[x] = u.p[x]
      /\ \A x \in Used(u) : u.p[x].key = k <=> x = PutSlot(u, k)
  BY <1>1, PlacedUsed, PlacedWhole, PutSlotFree
<1>4. ASSUME NEW x \in Used(t2), x < m
      PROVE  \E y \in Used(u2) : u2.p[y] = t2.p[x]
  <2>1. CASE x = PutSlot(t, k)
    BY <1>2, <1>3, <2>1
  <2>2. CASE x # PutSlot(t, k)
    <3>1. x \in Used(t) /\ t2.p[x] = t.p[x] /\ t.p[x].key # k
      BY <1>2, <2>2
    <3>2. PICK y \in Used(u) : u.p[y] = t.p[x]
      BY <1>4, <3>1 DEF InStep
    <3> QED
      BY <1>3, <3>1, <3>2
  <2> QED
    BY <2>1, <2>2
<1>5. ASSUME NEW y \in Used(u2)
      PROVE  \E x \in Used(t2) : t2.p[x] = u2.p[y]
  <2>1. CASE y = PutSlot(u, k)
    BY <1>2, <1>3, <2>1
  <2>2. CASE y # PutSlot(u, k)
    <3>1. y \in Used(u) /\ u2.p[y] = u.p[y] /\ u.p[y].key # k
      BY <1>3, <2>2
    <3>2. PICK x \in Used(t) : t.p[x] = u.p[y]
      BY <3>1 DEF InStep
    <3> QED
      BY <1>2, <3>1, <3>2
  <2> QED
    BY <2>1, <2>2
<1> QED
  BY <1>4, <1>5 DEF InStep

LEMMA InStepMove ==
    ASSUME NEW t, IsTable(t), Whole(t), NEW u, IsTable(u), Whole(u),
           NEW m \in Used(t), InStep(t, u, m),
           PutEnds(u, t.p[m].key), NEW u2, Placed(u, u2, t.p[m])
    PROVE  InStep(t, u2, m + 1)
<1> DEFINE k == t.p[m].key
<1>1. k \in Keys /\ t.p[m] \in Node /\ m \in Int
  BY UsedNode DEF Slots
<1>2. /\ PutSlot(u, k) \in Used(u2) /\ u2.p[PutSlot(u, k)] = t.p[m]
      /\ \A x \in Used(u2) : x # PutSlot(u, k) => x \in Used(u) /\ u2.p[x] = u.p[x]
      /\ \A x \in Used(u) : x # PutSlot(u, k) => x \in Used(u2) /\ u2.p[x] = u.p[x]
      /\ \A x \in Used(u) : u.p[x].key = k <=> x = PutSlot(u, k)
  BY <1>1, PlacedUsed, PlacedWhole, PutSlotFree
<1>3. ASSUME NEW x \in Used(t), x < m + 1
      PROVE  \E y \in Used(u2) : u2.p[y] = t.p[x]
  <2>1. CASE x = m
    BY <1>2, <2>1
  <2>2. CASE x # m
    <3>1. x < m
      BY <1>1, <1>3, <2>2, UsedNode DEF Slots
    <3>2. t.p[x].key # k
      BY <2>2 DEF Whole
    <3>3. PICK y \in Used(u) : u.p[y] = t.p[x]
      BY <3>1 DEF InStep
    <3> QED
      BY <1>2, <3>2, <3>3
  <2> QED
    BY <2>1, <2>2
<1>4. ASSUME NEW y \in Used(u2)
      PROVE  \E x \in Used(t) : t.p[x] = u2.p[y]
  BY <1>2 DEF InStep
<1> QED
  BY <1>3, <1>4 DEF InStep

LEMMA InStepEmpty ==
    ASSUME NEW t, IsTable(t), NEW u, NEW m \in Nat, m \notin Used(t), InStep(t, u, m)
    PROVE  InStep(t, u, m + 1)
<1>1. \A x \in Used(t) : x \in Int /\ x # m
  BY UsedNode DEF Slots
<1> QED
  BY <1>1 DEF InStep

LEMMA InStepDel ==
    ASSUME NEW t, IsTable(t), Whole(t), NEW u, IsTable(u), Whole(u),
           NEW m \in Nat, InStep(t, u, m), NEW x \in Used(t)
    PROVE  InStep(Del(t, x), Del(u, Find(u, t.p[x].key)), m)
<1> DEFINE k == t.p[x].key
           t2 == Del(t, x)
           y == Find(u, k)
           u2 == Del(u, y)
<1>1. k \in Keys
  BY UsedNode
<1>2. /\ Used(t2) = Used(t) \ {x}
      /\ \A z \in Used(t2) : t2.p[z] = t.p[z] /\ t2.p[z].key # k
  <2>1. Used(t2) = Used(t) \ {x} /\ t2.p = [t.p EXCEPT ![x] = Null]
    BY DelIs
  <2> HIDE DEF t2
  <2>2. \A z \in Used(t) : z # x => t2.p[z] = t.p[z] /\ t.p[z].key # k
    BY <2>1, TableFields DEF Used, Whole
  <2> QED
    BY <2>1, <2>2
<1>3. /\ \A z \in Used(u2) : z \in Used(u) /\ u2.p[z] = u.p[z] /\ u.p[z].key # k
      /\ \A z \in Used(u) : u.p[z].key # k => z \in Used(u2) /\ u2.p[z] = u.p[z]
  <2>1. CASE y = u.n_buckets
    <3>1. u2 = u
      BY <2>1 DEF Del
    <3>2. \A z \in Used(u) : u.p[z].key # k
      <4>1. \A z \in Used(u) : Find(u, u.p[z].key) = z /\ z # u.n_buckets
        BY FindPresent, UsedNode
      <4> QED
        BY <2>1, <4>1
    <3> QED
      BY <3>1, <3>2
  <2>2. CASE y # u.n_buckets
    <3>1. y \in Used(u) /\ u.p[y].key = k
      BY <1>1, <2>2, FindSlot
    <3> HIDE DEF y
    <3>2. Used(u2) = Used(u) \ {y} /\ u2.p = [u.p EXCEPT ![y] = Null]
      BY <3>1, DelIs
    <3> HIDE DEF u2
    <3>3. \A z \in Used(u) : z # y => u2.p[z] = u.p[z] /\ u.p[z].key # k
      BY <3>1, <3>2, TableFields DEF Used, Whole
    <3> QED
      BY <3>1, <3>2, <3>3
  <2> QED
    BY <2>1, <2>2
<1> HIDE DEF t2, u2, y
<1>4. InStep(t2, u2, m)
  BY <1>2, <1>3 DEF InStep
<1> QED
  BY <1>4 DEF t2, u2, y
-----------------------------------------------------------------------------
(***************************************************************************)
(* Where a request is, and where the sweep is.                             *)
(***************************************************************************)
Course ==
    /\ pc = "idle" <=> (asked = Null /\ pc # "sweep")
    /\ pc = "insert" => asked.do = "put"
    /\ pc = "sweep" =>
        /\ s # Null /\ at <= h.n_buckets
        /\ at + left >= Batch
        /\ asked # Null => asked.do = "put"
    /\ pc # "sweep" => (s # Null <=> resize_position > 0)
    /\ resize_position <= h.n_buckets

HashInv == HashTypeOK /\ Course /\ ChainsWhole /\ ShadowIsTrue

LEMMA RequestFields ==
    ASSUME asked \in Requests
    PROVE  /\ asked.do \in {"put", "delete"}
           /\ asked.do = "put" => asked.node \in Node /\ asked.node.key \in Keys
           /\ asked.do = "delete" => asked.key \in Keys
BY DEF Requests, Node

LEMMA InitHashInv ==
    ASSUME HashInit
    PROVE  HashInv
<1>1. 1 \in DOMAIN Primes
  BY PrimesAssumption
<1>2. IsTable(h) /\ Whole(h) /\ h.n_buckets = Primes[1]
  BY <1>1, NewIs DEF HashInit
<1>3. h.n_buckets \in Nat
  BY <1>2, TableFields
<1> QED
  BY <1>2, <1>3 DEF HashInit, HashInv, HashTypeOK, Course, ChainsWhole, ShadowIsTrue

LEMMA NextHashInv ==
    ASSUME HashInv, [HashNext]_hashVars
    PROVE  HashInv'
<1> USE BatchAssumption DEF HashInv, HashTypeOK
<1>0. h.n_buckets \in Nat /\ h.n_buckets > 1
  BY TableFields
<1>1. ASSUME NEW r \in Requests, Ask(r)
      PROVE  HashInv'
  <2>1. r # Null
    BY NoNodeAssumption
  <2> QED
    BY <1>1, <2>1 DEF Ask, tableVars, Course, ChainsWhole, ShadowIsTrue, Swept
<1>2. CASE GoOnResizing
  <2>1. HashTypeOK' /\ Course'
    BY <1>0, <1>2 DEF GoOnResizing, PutAsked, Sweep, tableVars, Course
  <2>2. ChainsWhole' /\ ShadowIsTrue'
    BY <1>2 DEF GoOnResizing, PutAsked, Sweep, tableVars, ChainsWhole, ShadowIsTrue, Swept
  <2> QED
    BY <2>1, <2>2
<1>3. CASE StartResize
  <2>1. PICK i \in DOMAIN Primes : s' = New(Primes[i], h.size)
    BY <1>3 DEF StartResize, BiggerPrimes
  <2>2. h.size \in Int
    BY TableFields
  <2>3. IsTable(s') /\ Whole(s') /\ Used(s') = {}
    BY <2>1, <2>2, NewIs
  <2>4. s' # Null
    BY <2>3, NoTableAssumption
  <2> QED
    BY <1>0, <1>3, <2>3, <2>4
       DEF StartResize, PutAsked, Sweep, Course, ChainsWhole, ShadowIsTrue, Swept, InStep, Used, Slots
<1>4. CASE SweepSlot
  <2>1. /\ s # Null /\ at \in Slots(h.n_buckets) /\ at' = at + 1
        /\ pc = "sweep" /\ pc' = "sweep" /\ h' = h /\ asked' = asked
        /\ left' = left - 1 /\ left > 0 /\ resize_position' = resize_position
    BY <1>0, <1>4 DEF SweepSlot, Course, Slots
  <2>2. IsTable(s') /\ Whole(s') /\ InStep(h, s', at + 1)
    <3>1. CASE h.p[at] = Null
      BY <1>4, <2>1, <3>1, InStepEmpty
         DEF SweepSlot, ChainsWhole, ShadowIsTrue, Swept, Used
    <3>2. CASE h.p[at] # Null
      <4>1. at \in Used(h) /\ h.p[at] \in Node
        BY <2>1, <3>2, UsedNode DEF Used
      <4>2. PutEnds(s, h.p[at].key) /\ s' = Moved(s, h.p[at])
        BY <1>4, <3>2 DEF SweepSlot
      <4>3. IsTable(s') /\ Placed(s, s', h.p[at])
        BY <2>1, <4>1, <4>2, MovedIs
      <4>4. Whole(s')
        BY <2>1, <4>1, <4>2, <4>3, PlacedWhole DEF ChainsWhole
      <4>5. InStep(h, s', at + 1)
        BY <2>1, <4>1, <4>2, <4>3, InStepMove DEF ChainsWhole, ShadowIsTrue, Swept
      <4> QED
        BY <4>3, <4>4, <4>5
    <3> QED
      BY <3>1, <3>2
  <2>3. s' # Null
    BY <2>2, NoTableAssumption
  <2>4. HashTypeOK' /\ Course'
    BY <1>0, <2>1, <2>2, <2>3 DEF Course, Slots
  <2> QED
    BY <2>1, <2>2, <2>4 DEF ChainsWhole, ShadowIsTrue, Swept
<1>5. CASE SweepPause
  <2>1. HashTypeOK' /\ Course'
    BY <1>0, <1>5 DEF SweepPause, Course
  <2>2. ChainsWhole' /\ ShadowIsTrue'
    BY <1>5 DEF SweepPause, ChainsWhole, ShadowIsTrue, Swept
  <2> QED
    BY <2>1, <2>2
<1>6. CASE SweepEnd
  <2>1. s # Null /\ h' = [s EXCEPT !.size = h.size] /\ s' = Null
    BY <1>6 DEF SweepEnd, Course
  <2>2. IsTable(h') /\ Whole(h')
    BY <2>1, TableFields, SizedIs DEF ChainsWhole
  <2>3. h'.n_buckets \in Nat
    BY <2>2, TableFields
  <2> QED
    BY <1>6, <2>1, <2>2, <2>3 DEF SweepEnd, Course, ChainsWhole, ShadowIsTrue
<1>7. CASE Insert
  <2> DEFINE node == asked.node
  <2>1. /\ pc \in {"insert", "asked"} /\ asked.do = "put" /\ asked # Null
        /\ node \in Node
        /\ asked' = Null /\ pc' = "idle"
        /\ UNCHANGED <<resize_position, at, left>>
    BY <1>7, RequestFields DEF Insert, PutAsked, Course
  <2>2. PutEnds(h, node.key) /\ h' = Put(h, node)
    BY <1>7 DEF Insert, BothPut
  <2>3. IsTable(h') /\ Placed(h, h', node)
    BY <2>1, <2>2, PutIs
  <2>4. Whole(h') /\ h'.n_buckets = h.n_buckets
    BY <2>1, <2>2, <2>3, PlacedWhole DEF ChainsWhole, Placed
  <2>5. CASE resize_position = 0
    <3>1. s' = s /\ s = Null
      BY <1>7, <2>1, <2>5 DEF Insert, BothPut, Course
    <3> QED
      BY <1>0, <2>1, <2>3, <2>4, <2>5, <3>1 DEF Course, ChainsWhole, ShadowIsTrue
  <2>6. CASE resize_position > 0
    <3>1. s # Null /\ PutEnds(s, node.key) /\ s' = Put(s, node)
      BY <1>7, <2>1, <2>6 DEF Insert, BothPut, Course
    <3>2. IsTable(s') /\ Placed(s, s', node)
      BY <2>1, <3>1, PutIs
    <3>3. Whole(s') /\ s' # Null
      BY <2>1, <3>1, <3>2, PlacedWhole, NoTableAssumption DEF ChainsWhole
    <3>4. InStep(h, s, resize_position)
      BY <2>1, <3>1 DEF ShadowIsTrue, Swept
    <3>5. InStep(h', s', resize_position)
      BY <2>1, <2>2, <2>3, <3>1, <3>2, <3>4, InStepPut DEF ChainsWhole
    <3> QED
      BY <2>1, <2>3, <2>4, <2>6, <3>2, <3>3, <3>5
         DEF Course, ChainsWhole, ShadowIsTrue, Swept
  <2> QED
    BY <2>5, <2>6
<1>8. CASE DeleteNothing
  BY <1>8 DEF DeleteNothing, DeleteAsked, tableVars, Course, ChainsWhole, ShadowIsTrue, Swept
<1>9. CASE Delete
  <2> DEFINE k == asked.key
             x == Find(h, k)
  <2>1. /\ pc = "asked" /\ asked' = Null /\ k \in Keys
        /\ x # h.n_buckets /\ h' = Del(h, x)
        /\ resize_position' = resize_position
    BY <1>9, RequestFields, NoNodeAssumption DEF Delete, DeleteAsked, Course
  <2>2. x \in Used(h) /\ h.p[x].key = k
    BY <2>1, FindSlot DEF ChainsWhole
  <2> HIDE DEF x
  <2>3. IsTable(h') /\ Whole(h') /\ h'.n_buckets = h.n_buckets
    BY <2>1, <2>2, DelIs, DelWhole DEF ChainsWhole
  <2>4. CASE resize_position = 0
    <3>1. s' = s /\ s = Null /\ pc' = "idle" /\ at' = at /\ left' = left
      BY <1>9, <2>1, <2>4 DEF Delete, Course
    <3> QED
      BY <1>0, <2>1, <2>3, <2>4, <3>1 DEF Course, ChainsWhole, ShadowIsTrue
  <2>5. CASE resize_position > 0
    <3>1. /\ s # Null /\ s' = Del(s, Find(s, k))
          /\ pc' = "sweep" /\ at' = resize_position /\ left' = Batch
      BY <1>9, <2>1, <2>5 DEF Delete, Sweep, Course
    <3>2. IsTable(s') /\ Whole(s')
      <4>1. CASE Find(s, k) = s.n_buckets
        BY <3>1, <4>1 DEF Del, ChainsWhole
      <4>2. CASE Find(s, k) # s.n_buckets
        <5>1. Find(s, k) \in Used(s)
          BY <2>1, <3>1, <4>2, FindSlot DEF ChainsWhole
        <5> QED
          BY <3>1, <5>1, DelIs, DelWhole DEF ChainsWhole
      <4> QED
        BY <4>1, <4>2
    <3>3. s' # Null
      BY <3>2, NoTableAssumption
    <3>4. InStep(h', s', resize_position)
      BY <2>1, <2>2, <3>1, InStepDel DEF ChainsWhole, ShadowIsTrue, Swept
    <3> QED
      BY <2>1, <2>3, <2>5, <3>1, <3>2, <3>3, <3>4
         DEF Course, ChainsWhole, ShadowIsTrue, Swept
  <2> QED
    BY <2>4, <2>5
<1>10. CASE UNCHANGED hashVars
  BY <1>10 DEF hashVars, tableVars, Course, ChainsWhole, ShadowIsTrue, Swept
<1> QED
  BY <1>1, <1>2, <1>3, <1>4, <1>5, <1>6, <1>7, <1>8, <1>9, <1>10 DEF HashNext, Step

(***************************************************************************)
(* What holds at every step of a put, a delete and a resize, whoever asks  *)
(* for them.                                                               *)
(***************************************************************************)
THEOREM HashInvariant == HashSpec => []HashInv
<1>1. HashInit => HashInv
  BY InitHashInv
<1>2. HashInv /\ [HashNext]_hashVars => HashInv'
  BY NextHashInv
<1> QED
  BY <1>1, <1>2, PTL DEF HashSpec

(***************************************************************************)
(* Every table is one: its size a prime of the list, its slots nodes.      *)
(***************************************************************************)
THEOREM HashTypeCorrect == HashSpec => []HashTypeOK
<1>1. HashInv => HashTypeOK
  BY DEF HashInv
<1> QED
  BY <1>1, HashInvariant, PTL

(***************************************************************************)
(* Every node of the table, and of the shadow, is reached by a search for  *)
(* its key, and no key is there twice.                                     *)
(***************************************************************************)
THEOREM NodesAreReached == HashSpec => []ChainsWhole
<1>1. HashInv => ChainsWhole
  BY DEF HashInv
<1> QED
  BY <1>1, HashInvariant, PTL

(***************************************************************************)
(* A resize in parts loses nothing and brings nothing back.                *)
(***************************************************************************)
THEOREM ShadowFollows == HashSpec => []ShadowIsTrue
<1>1. HashInv => ShadowIsTrue
  BY DEF HashInv
<1> QED
  BY <1>1, HashInvariant, PTL
-----------------------------------------------------------------------------
(***************************************************************************)
(* What mh_find finds, in terms of the slots.                              *)
(***************************************************************************)
MapOf(t) == [k \in Keys |-> Found(t, k)]

LEMMA FoundIs ==
    ASSUME NEW t, IsTable(t), Whole(t), NEW k \in Keys
    PROVE  /\ \A x \in Used(t) : t.p[x].key = k => Found(t, k) = t.p[x].value
           /\ (\A x \in Used(t) : t.p[x].key # k) => Found(t, k) = Null
<1>1. ASSUME NEW x \in Used(t), t.p[x].key = k
      PROVE  Found(t, k) = t.p[x].value
  <2>1. Find(t, k) = x /\ x # t.n_buckets
    BY <1>1, FindPresent, UsedNode
  <2> QED
    BY <2>1 DEF Found
<1>2. ASSUME \A x \in Used(t) : t.p[x].key # k
      PROVE  Found(t, k) = Null
  <2>1. Find(t, k) = t.n_buckets
    BY <1>2, FindAbsent
  <2> QED
    BY <2>1 DEF Found
<1> QED
  BY <1>1, <1>2

(***************************************************************************)
(* Two tables with the same nodes are the same map.                        *)
(***************************************************************************)
LEMMA SameNodesSameMap ==
    ASSUME NEW t, IsTable(t), Whole(t), NEW u, IsTable(u), Whole(u),
           \A x \in Used(t) : \E y \in Used(u) : u.p[y] = t.p[x],
           \A y \in Used(u) : \E x \in Used(t) : t.p[x] = u.p[y]
    PROVE  MapOf(u) = MapOf(t)
<1>1. ASSUME NEW k \in Keys
      PROVE  Found(u, k) = Found(t, k)
  <2>1. CASE \E x \in Used(t) : t.p[x].key = k
    <3>1. PICK x \in Used(t) : t.p[x].key = k
      BY <2>1
    <3>2. PICK y \in Used(u) : u.p[y] = t.p[x]
      OBVIOUS
    <3> QED
      BY <3>1, <3>2, FoundIs
  <2>2. CASE \A x \in Used(t) : t.p[x].key # k
    <3>1. \A y \in Used(u) : u.p[y].key # k
      BY <2>2
    <3> QED
      BY <2>2, <3>1, FoundIs
  <2> QED
    BY <2>1, <2>2
<1> QED
  BY <1>1 DEF MapOf

LEMMA PutMap ==
    ASSUME NEW t, IsTable(t), Whole(t), NEW node \in Node, PutEnds(t, node.key)
    PROVE  MapOf(Put(t, node)) = [MapOf(t) EXCEPT ![node.key] = node.value]
<1> DEFINE u == Put(t, node)
           x == PutSlot(t, node.key)
<1>1. node.key \in Keys
  BY DEF Node
<1>2. IsTable(u) /\ Placed(t, u, node)
  BY PutIs
<1>3. Whole(u) /\ \A y \in Used(t) : t.p[y].key = node.key => y = x
  BY <1>2, PlacedWhole
<1>4. /\ x \in Used(u) /\ u.p[x] = node
      /\ \A y \in Used(u) : y # x => y \in Used(t) /\ u.p[y] = t.p[y]
      /\ \A y \in Used(t) : y # x => y \in Used(u) /\ u.p[y] = t.p[y]
      /\ x \in Used(t) => t.p[x].key = node.key
  BY <1>1, <1>2, PlacedUsed, PutSlotFree
<1> HIDE DEF u, x
<1>5. ASSUME NEW k \in Keys
      PROVE  Found(u, k) = IF k = node.key THEN node.value ELSE Found(t, k)
  <2>1. CASE k = node.key
    BY <1>2, <1>3, <1>4, <2>1, FoundIs
  <2>2. CASE k # node.key /\ \E y \in Used(t) : t.p[y].key = k
    <3>1. PICK y \in Used(t) : t.p[y].key = k
      BY <2>2
    <3>2. y \in Used(u) /\ u.p[y] = t.p[y]
      BY <1>4, <2>2, <3>1
    <3>3. Found(t, k) = t.p[y].value
      BY <3>1, FoundIs
    <3>4. Found(u, k) = u.p[y].value
      BY <1>2, <1>3, <3>1, <3>2, FoundIs
    <3> QED
      BY <2>2, <3>2, <3>3, <3>4
  <2>3. CASE k # node.key /\ \A y \in Used(t) : t.p[y].key # k
    <3>1. \A y \in Used(u) : u.p[y].key # k
      BY <1>4, <2>3
    <3> QED
      BY <1>2, <1>3, <2>3, <3>1, FoundIs
  <2> QED
    BY <2>1, <2>2, <2>3
<1>6. MapOf(u) = [MapOf(t) EXCEPT ![node.key] = node.value]
  BY <1>1, <1>5 DEF MapOf
<1> QED
  BY <1>6 DEF u

LEMMA DelMap ==
    ASSUME NEW t, IsTable(t), Whole(t), NEW x \in Used(t)
    PROVE  MapOf(Del(t, x)) = [MapOf(t) EXCEPT ![t.p[x].key] = Null]
<1> DEFINE u == Del(t, x)
<1>1. IsTable(u) /\ Whole(u)
  BY DelIs, DelWhole
<1>2. Used(u) = Used(t) \ {x} /\ u.p = [t.p EXCEPT ![x] = Null]
  BY DelIs
<1> HIDE DEF u
<1>3. \A y \in Used(u) : y \in Used(t) /\ u.p[y] = t.p[y] /\ t.p[y].key # t.p[x].key
  BY <1>2, TableFields DEF Used, Whole
<1>4. \A y \in Used(t) : y # x => y \in Used(u)
  BY <1>2
<1>5. ASSUME NEW k \in Keys
      PROVE  Found(u, k) = IF k = t.p[x].key THEN Null ELSE Found(t, k)
  <2>1. CASE k = t.p[x].key
    BY <1>1, <1>3, <2>1, FoundIs
  <2>2. CASE k # t.p[x].key /\ \E y \in Used(t) : t.p[y].key = k
    <3>1. PICK y \in Used(t) : t.p[y].key = k
      BY <2>2
    <3>2. y \in Used(u) /\ u.p[y] = t.p[y]
      BY <1>3, <1>4, <2>2, <3>1
    <3>3. Found(t, k) = t.p[y].value /\ Found(u, k) = u.p[y].value
      BY <1>1, <3>1, <3>2, FoundIs
    <3> QED
      BY <2>2, <3>2, <3>3
  <2>3. CASE k # t.p[x].key /\ \A y \in Used(t) : t.p[y].key # k
    <3>1. \A y \in Used(u) : u.p[y].key # k
      BY <1>3, <2>3
    <3> QED
      BY <1>1, <2>3, <3>1, FoundIs
  <2> QED
    BY <2>1, <2>2, <2>3
<1>6. MapOf(u) = [MapOf(t) EXCEPT ![t.p[x].key] = Null]
  BY <1>5, UsedNode DEF MapOf
<1> QED
  BY <1>6 DEF u

LEMMA InitMap ==
    ASSUME HashInit
    PROVE  AsMap!MapInit
<1>1. 1 \in DOMAIN Primes
  BY PrimesAssumption
<1>2. IsTable(h) /\ Whole(h) /\ Used(h) = {}
  BY <1>1, NewIs DEF HashInit
<1>3. \A k \in Keys : Found(h, k) = Null
  BY <1>2, FoundIs
<1> QED
  BY <1>3 DEF HashInit, AsMap!MapInit

LEMMA StepMap ==
    ASSUME HashInv, HashInv', [HashNext]_hashVars
    PROVE  [AsMap!MapNext]_<<MapOf(h), asked>>
<1> USE DEF HashInv, HashTypeOK
<1>1. ASSUME NEW r \in Requests, Ask(r)
      PROVE  AsMap!Request
  BY <1>1 DEF Ask, tableVars, Course, AsMap!Request, AsMap!Requests, AsMap!Node,
     Requests, Node
<1>2. CASE SweepEnd
  <2>1. s # Null /\ at = h.n_buckets /\ h' = [s EXCEPT !.size = h.size]
    BY <1>2 DEF SweepEnd, Course
  <2>2. InStep(h, s, h.n_buckets)
    BY <1>2, <2>1 DEF SweepEnd, ShadowIsTrue, Swept
  <2>3. \A x \in Used(h) : x < h.n_buckets
    BY UsedNode, TableFields DEF Slots
  <2>4. Used(h') = Used(s) /\ h'.p = s.p
    BY <2>1, TableFields, SizedIs
  <2>5. MapOf(h') = MapOf(h)
    <3>1. \A x \in Used(h) : \E y \in Used(h') : h'.p[y] = h.p[x]
      BY <2>2, <2>3, <2>4 DEF InStep
    <3>2. \A y \in Used(h') : \E x \in Used(h) : h.p[x] = h'.p[y]
      BY <2>2, <2>4 DEF InStep
    <3> QED
      BY <3>1, <3>2, SameNodesSameMap DEF ChainsWhole
  <2> QED
    BY <1>2, <2>5 DEF SweepEnd
<1>3. CASE Insert
  <2>1. asked # Null /\ asked.do = "put" /\ asked.node \in Node /\ asked' = Null
    BY <1>3, RequestFields DEF Insert, PutAsked, Course
  <2>2. PutEnds(h, asked.node.key) /\ h' = Put(h, asked.node)
    BY <1>3 DEF Insert, BothPut
  <2>3. MapOf(h') = [MapOf(h) EXCEPT ![asked.node.key] = asked.node.value]
    BY <2>1, <2>2, PutMap DEF ChainsWhole
  <2> QED
    BY <2>1, <2>3 DEF AsMap!MapNext, AsMap!CarryOut, MapOf
<1>4. CASE DeleteNothing
  <2>1. asked # Null /\ asked.do = "delete" /\ asked.key \in Keys /\ asked' = Null
    BY <1>4, RequestFields DEF DeleteNothing, DeleteAsked, Course
  <2>2. Found(h, asked.key) = Null /\ h' = h
    BY <1>4 DEF DeleteNothing, Found, tableVars
  <2>3. MapOf(h') = [MapOf(h) EXCEPT ![asked.key] = Null]
    BY <2>1, <2>2 DEF MapOf
  <2> QED
    BY <2>1, <2>3 DEF AsMap!MapNext, AsMap!CarryOut, MapOf
<1>5. CASE Delete
  <2>1. asked # Null /\ asked.do = "delete" /\ asked.key \in Keys /\ asked' = Null
    BY <1>5, RequestFields DEF Delete, DeleteAsked, Course
  <2>2. Find(h, asked.key) # h.n_buckets /\ h' = Del(h, Find(h, asked.key))
    BY <1>5 DEF Delete
  <2>3. MapOf(h') = [MapOf(h) EXCEPT ![asked.key] = Null]
    BY <2>1, <2>2, FindSlot, DelMap DEF ChainsWhole
  <2> QED
    BY <2>1, <2>3 DEF AsMap!MapNext, AsMap!CarryOut, MapOf
<1>6. CASE GoOnResizing \/ StartResize \/ SweepSlot \/ SweepPause \/ UNCHANGED hashVars
  BY <1>6 DEF GoOnResizing, StartResize, SweepSlot, SweepPause, hashVars, tableVars
<1> QED
  BY <1>1, <1>2, <1>3, <1>4, <1>5, <1>6 DEF HashNext, Step, AsMap!MapNext

(***************************************************************************)
(* The table implements the map: mh_find finds what was put last and was   *)
(* not deleted since, at every step of every resize.                       *)
(***************************************************************************)
THEOREM TableIsMap == HashSpec => IsMap
<1>1. HashInit => AsMap!MapInit
  BY InitMap
<1>2. HashInv /\ HashInv' /\ [HashNext]_hashVars => [AsMap!MapNext]_<<MapOf(h), asked>>
  BY StepMap
<1> QED
  BY <1>1, <1>2, HashInvariant, PTL DEF HashSpec, IsMap, AsMap!Map, MapOf
-----------------------------------------------------------------------------
(***************************************************************************)
(* A set of numbers that is not empty has a least element.                 *)
(***************************************************************************)
LEMMA LeastNat ==
  ASSUME NEW T, T \subseteq Nat, T # {}
  PROVE \E x \in T : \A y \in T : x <= y
<1>. DEFINE F == {0 .. n : n \in T}
<1>1. F \subseteq FiniteSubsetsOf(Nat) /\ F # {}
  <2>1. ASSUME NEW n \in T PROVE (0 .. n) \in FiniteSubsetsOf(Nat)
    <3>1. IsFiniteSet(0 .. n)
      BY FS_Interval
    <3>2. (0 .. n) \in SUBSET Nat
      OBVIOUS
    <3>. QED BY <3>1, <3>2 DEF FiniteSubsetsOf
  <2>. QED BY <2>1
<1>2. IsWellFoundedOn(StrictSubsetOrdering(Nat), FiniteSubsetsOf(Nat))
  BY FS_StrictSubsetOrderingWellFounded
<1>3. PICK U \in F : \A V \in F : ~ (<<V, U>> \in StrictSubsetOrdering(Nat))
  <2>. HIDE DEF F
  <2>. QED BY <1>1, <1>2, WFMin
<1>4. PICK x \in T : U = 0 .. x
  OBVIOUS
<1>5. ASSUME NEW y \in T PROVE x <= y
  <2>1. SUFFICES ASSUME y < x PROVE FALSE
    BY <1>4
  <2>2. x \in Nat /\ y \in Nat
    OBVIOUS
  <2>3. (0 .. y) \subseteq (0 .. x) /\ (0 .. y) # (0 .. x)
    BY <2>1, <2>2
  <2>4. <<0 .. y, 0 .. x>> \in StrictSubsetOrdering(Nat)
    <3>1. (0 .. y) \in SUBSET Nat /\ (0 .. x) \in SUBSET Nat
      OBVIOUS
    <3>. QED BY <2>3, <3>1 DEF StrictSubsetOrdering
  <2>5. (0 .. y) \in F
    OBVIOUS
  <2>. QED BY <1>3, <1>4, <2>4, <2>5
<1>. QED BY <1>5

(***************************************************************************)
(* What makes double hashing work: the product of two numbers below a      *)
(* prime is no multiple of it.                                             *)
(***************************************************************************)
Prime(n) == n \in Nat /\ n > 1 /\ \A a, b \in 2 .. n - 1 : a * b # n

LEMMA DivMod ==
    ASSUME NEW n \in Nat, n > 0, NEW a \in Int
    PROVE  /\ a \div n \in Int /\ a % n \in 0 .. n - 1
           /\ a = (a \div n) * n + (a % n)
OBVIOUS

LEMMA Apart ==
    ASSUME NEW n \in Nat, n > 0, NEW d \in 1 .. n - 1, NEW m \in Int
    PROVE  d # m * n
<1>1. m <= 0 => m * n <= 0
  OBVIOUS
<1>2. m >= 1 => m * n >= n
  OBVIOUS
<1>. QED BY <1>1, <1>2

LEMMA Euclid ==
    ASSUME NEW n, Prime(n), NEW a \in 1 .. n - 1, NEW b \in 1 .. n - 1, NEW m \in Int
    PROVE  a * b # m * n
<1>. SUFFICES ASSUME a * b = m * n PROVE FALSE
  OBVIOUS
<1>. DEFINE T == {x \in 1 .. n - 1 : \E e \in Int : x * b = e * n}
<1>0. n \in Nat /\ n > 1
  BY DEF Prime
<1>1. T \subseteq Nat /\ T # {}
  <2>1. a \in T
    OBVIOUS
  <2>2. (1 .. n - 1) \subseteq Nat
    BY <1>0
  <2>. QED BY <2>1, <2>2
<1>2. PICK x \in T : \A y \in T : x <= y
  BY <1>1, LeastNat
<1>3. PICK e \in Int : x * b = e * n
  OBVIOUS
<1>4. x \in Nat /\ x > 0 /\ x < n
  BY <1>0, <1>2
<1>. DEFINE q == n \div x
            r == n % x
<1>5. q \in Int /\ r \in 0 .. x - 1 /\ n = q * x + r
  BY <1>0, <1>4, DivMod
<1>. HIDE DEF q, r
<1>6. CASE r = 0
  <2>1. CASE x = 1
    <3>1. b = e * n
      BY <1>3, <2>1
    <3>. QED BY <1>0, <3>1, Apart
  <2>2. CASE x > 1
    <3>1. n = q * x
      BY <1>4, <1>5, <1>6
    <3>2. q > 1
      BY <1>4, <1>5, <3>1, <1>0
    <3>3. q < n
      <4>1. CASE q >= n
        <5>1. q * x >= n * x
          BY <4>1, <1>0, <1>4, <1>5
        <5>2. n * x >= n * 2
          BY <2>2, <1>0, <1>4
        <5>. QED BY <5>1, <5>2, <3>1, <1>0, <1>4, <1>5
      <4>. QED BY <4>1, <1>0, <1>5
    <3>. QED BY <1>0, <1>4, <1>5, <2>2, <3>1, <3>2, <3>3 DEF Prime
  <2>. QED BY <1>4, <2>1, <2>2
<1>7. CASE r # 0
  <2>1. r * b = n * b - q * (x * b)
    <3>1. r = n - q * x
      BY <1>0, <1>4, <1>5
    <3>2. r * b = (n - q * x) * b
      BY <3>1
    <3>. QED BY <3>2, <1>0, <1>4, <1>5
  <2>2. q * (x * b) = (q * e) * n
    BY <1>3, <1>0, <1>5
  <2>3. r * b = (b - q * e) * n
    BY <2>1, <2>2, <1>0, <1>5
  <2>4. b - q * e \in Int
    BY <1>5
  <2>5. r \in T
    <3>1. r \in 1 .. n - 1
      BY <1>0, <1>4, <1>5, <1>7
    <3>. QED BY <2>3, <2>4, <3>1
  <2>. QED BY <1>2, <1>4, <1>5, <2>5
<1>. QED BY <1>6, <1>7
(***************************************************************************)
(* A search comes by every slot in its first n_buckets steps, and by none  *)
(* twice.                                                                  *)
(***************************************************************************)
LEMMA ProbesDiffer ==
    ASSUME NEW n, Prime(n), NEW k \in Keys, NEW i \in Slots(n), NEW j \in Slots(n),
           i < j, Probe(n, k, i) = Probe(n, k, j)
    PROVE  FALSE
<1>. DEFINE c == 1 + (Hash[k] % (n - 1))
            u == Hash[k] + i * c
            v == Hash[k] + j * c
<1>1. n \in Nat /\ n > 1 /\ Hash[k] \in Nat
  BY HashAssumption DEF Prime
<1>2. c \in 1 .. n - 1
  <2>1. n - 1 \in Nat /\ n - 1 > 0
    BY <1>1
  <2>2. Hash[k] % (n - 1) \in 0 .. (n - 1) - 1
    BY <1>1, <2>1, DivMod
  <2>. QED BY <1>1, <2>2
<1>3. u % n = v % n
  BY DEF Probe
<1>. HIDE DEF c
<1>4. i \in Int /\ j \in Int /\ u \in Int /\ v \in Int
  BY <1>1, <1>2 DEF Slots
<1>5. v - u = (j - i) * c
  BY <1>1, <1>2, <1>4
<1>. HIDE DEF u, v
<1>6. /\ u \div n \in Int /\ v \div n \in Int
      /\ u = (u \div n) * n + (u % n)
      /\ v = (v \div n) * n + (v % n)
  BY <1>1, <1>4, DivMod
<1>7. PICK m \in Int : v - u = m * n
  <2>. DEFINE a == u \div n
              b == v \div n
  <2>1. a \in Int /\ b \in Int /\ v - u = b * n - a * n
    <3>1. u % n \in Int
      BY <1>1, <1>4, DivMod
    <3>. HIDE DEF a, b
    <3>2. a \in Int /\ b \in Int /\ u = a * n + (u % n) /\ v = b * n + (u % n)
      BY <1>3, <1>6 DEF a, b
    <3>. QED BY <1>1, <1>4, <3>1, <3>2
  <2>. HIDE DEF a, b
  <2>2. v - u = (b - a) * n /\ b - a \in Int
    BY <1>1, <2>1
  <2>. QED BY <2>2
<1>8. j - i \in 1 .. n - 1
  BY <1>1 DEF Slots
<1>. QED BY <1>2, <1>5, <1>7, <1>8, Euclid

LEMMA ProbesReachAll ==
    ASSUME NEW n, Prime(n), NEW k \in Keys, NEW x \in Slots(n)
    PROVE  \E j \in Slots(n) : Probe(n, k, j) = x
<1>. DEFINE f == [j \in Slots(n) |-> Probe(n, k, j)]
<1>1. n \in Nat /\ n > 1 /\ Hash[k] \in Nat
  BY HashAssumption DEF Prime
<1>2. \A j \in Slots(n) : Probe(n, k, j) \in Slots(n)
  <2>. SUFFICES ASSUME NEW j \in Slots(n) PROVE Probe(n, k, j) \in Slots(n)
    OBVIOUS
  <2>1. Hash[k] % (n - 1) \in Int
    <3>1. n - 1 \in Nat /\ n - 1 > 0
      BY <1>1
    <3>. QED BY <1>1, <3>1, DivMod
  <2>2. Hash[k] + j * (1 + (Hash[k] % (n - 1))) \in Int
    BY <1>1, <2>1 DEF Slots
  <2>. QED BY <1>1, <2>2, ModInSlots DEF Probe
<1>3. \A i, j \in Slots(n) : Probe(n, k, i) = Probe(n, k, j) => i = j
  <2>. SUFFICES ASSUME NEW i \in Slots(n), NEW j \in Slots(n),
                       Probe(n, k, i) = Probe(n, k, j), i # j
                PROVE  FALSE
    OBVIOUS
  <2>1. i < j \/ j < i
    BY <1>1 DEF Slots
  <2>. QED BY <2>1, ProbesDiffer
<1>4. f \in Injection(Slots(n), Slots(n))
  BY <1>2, <1>3 DEF Injection, IsInjective
<1>5. IsFiniteSet(Slots(n))
  BY <1>1, FS_Interval DEF Slots
<1>6. f \in Surjection(Slots(n), Slots(n))
  BY <1>4, <1>5, FS_Injection
<1>. QED BY <1>6 DEF Surjection
-----------------------------------------------------------------------------
(***************************************************************************)
(* The slots a search may pass.  A slot that is none of them ends the      *)
(* search of every key, and every put.                                     *)
(***************************************************************************)
Touched(t) == Used(t) \union t.dirty

LEMMA TouchedFinite ==
    ASSUME NEW t, IsTable(t)
    PROVE  /\ IsFiniteSet(Used(t)) /\ Cardinality(Used(t)) \in Nat
           /\ IsFiniteSet(Touched(t)) /\ Cardinality(Touched(t)) \in Nat
           /\ Touched(t) \subseteq Slots(t.n_buckets)
           /\ Cardinality(Used(t)) <= Cardinality(Touched(t))
<1>1. IsFiniteSet(Slots(t.n_buckets))
  BY TableFields, FS_Interval DEF Slots
<1>2. Used(t) \subseteq Slots(t.n_buckets) /\ Touched(t) \subseteq Slots(t.n_buckets)
  BY TableFields DEF Used, Touched
<1>3. IsFiniteSet(Used(t)) /\ IsFiniteSet(Touched(t))
  BY <1>1, <1>2, FS_Subset
<1>4. Used(t) \in SUBSET Touched(t)
  BY DEF Touched
<1>. QED BY <1>2, <1>3, <1>4, FS_Subset, FS_CardinalityType

LEMMA CleanSlot ==
    ASSUME NEW t, IsTable(t), Cardinality(Touched(t)) < t.n_buckets
    PROVE  \E x \in Slots(t.n_buckets) : x \notin Touched(t)
<1>1. SUFFICES ASSUME Touched(t) = Slots(t.n_buckets) PROVE FALSE
  BY TouchedFinite
<1>2. t.n_buckets \in Nat /\ t.n_buckets > 1
  BY TableFields
<1>3. Cardinality(Slots(t.n_buckets)) = t.n_buckets
  BY <1>2, FS_Interval DEF Slots
<1>. QED BY <1>1, <1>2, <1>3

LEMMA SlotsReached ==
    ASSUME NEW t, IsTable(t), NEW k \in Keys, NEW x \in Slots(t.n_buckets)
    PROVE  \E j \in Steps(t) : Spot(t, k, j) = x
<1>1. Prime(t.n_buckets)
  BY TableFields, PrimesArePrime DEF Prime
<1>. QED BY <1>1, ProbesReachAll DEF Steps, Spot, Slots

LEMMA CleanEnds ==
    ASSUME NEW t, IsTable(t), NEW k \in Keys,
           NEW x \in Slots(t.n_buckets), x \notin Touched(t)
    PROVE  Ends(t, k) /\ PutEnds(t, k)
<1>0. t.n_buckets \in Nat /\ Steps(t) \subseteq Nat
  BY TableFields DEF Steps
<1>1. PICK e \in Steps(t) : Spot(t, k, e) = x
  BY SlotsReached
<1>2. t.p[x] = Null /\ x \notin t.dirty
  BY DEF Touched, Used
<1>3. Ends(t, k)
  <2>. DEFINE T == {j \in Steps(t) : EndsAt(t, k, j)}
  <2>1. T \subseteq Nat /\ T # {}
    <3>1. e \in T
      BY <1>1, <1>2 DEF EndsAt
    <3>. QED BY <1>0, <3>1
  <2>2. PICK j \in T : \A i \in T : j <= i
    BY <2>1, LeastNat
  <2>3. \A i \in 0 .. j - 1 : i \in Steps(t) /\ i < j
    BY <1>0, <2>2 DEF Steps
  <2>4. \A i \in 0 .. j - 1 : ~ EndsAt(t, k, i)
    <3>. SUFFICES ASSUME NEW i \in 0 .. j - 1, EndsAt(t, k, i) PROVE FALSE
      OBVIOUS
    <3>1. i \in T /\ i < j
      BY <2>3
    <3>2. j <= i
      BY <2>2, <3>1
    <3>. QED BY <1>0, <2>2, <3>1, <3>2
  <2>. QED BY <2>2, <2>4 DEF Ends, SearchEnds
<1>4. PutEnds(t, k)
  <2>. DEFINE T == {j \in Steps(t) : ~ Taken(t, k, j)}
  <2>1. e \in T
    BY <1>1, <1>2 DEF Taken
  <2>2. PICK j \in T : \A i \in T : j <= i
    BY <1>0, <2>1, LeastNat
  <2>3. j \in Steps(t) /\ j \in Nat /\ e \in Nat /\ j <= e
    BY <1>0, <1>1, <2>1, <2>2
  <2>4. \A i \in 0 .. j - 1 : Taken(t, k, i)
    <3>. SUFFICES ASSUME NEW i \in 0 .. j - 1, ~ Taken(t, k, i) PROVE FALSE
      OBVIOUS
    <3>1. i \in Steps(t) /\ i < j
      BY <1>0, <2>3 DEF Steps
    <3>2. j <= i
      BY <2>2, <3>1
    <3>. QED BY <1>0, <2>3, <3>1, <3>2
  <2>5. FirstFree(t, k, j)
    BY <2>2, <2>4 DEF FirstFree
  <2>. DEFINE m == Marked(t, k, j)
  <2>6. /\ m.n_buckets = t.n_buckets
        /\ m.dirty = t.dirty \union {Spot(t, k, i) : i \in 0 .. j - 1}
    BY <2>3, PassedFields
  <2>. HIDE DEF m
  <2>7. x \notin m.dirty
    <3>1. \A i \in 0 .. j - 1 : Spot(t, k, i) # x
      BY <1>2, <2>4 DEF Taken
    <3>. QED BY <1>2, <2>6, <3>1
  <2>8. EndsAt(m, k, e)
    BY <1>1, <2>6, <2>7 DEF EndsAt, Spot
  <2>. DEFINE C == {i \in Steps(t) : i >= j /\ EndsAt(m, k, i)}
  <2>9. C \subseteq Nat /\ e \in C
    BY <1>0, <1>1, <2>3, <2>8
  <2>10. PICK i \in C : \A l \in C : i <= l
    BY <2>9, LeastNat
  <2>11. \A l \in j .. i - 1 : ~ EndsAt(m, k, l)
    <3>. SUFFICES ASSUME NEW l \in j .. i - 1, EndsAt(m, k, l) PROVE FALSE
      OBVIOUS
    <3>1. i \in Steps(t) /\ i \in Nat
      BY <1>0, <2>10
    <3>2. l \in Steps(t) /\ l >= j /\ l < i /\ l \in Nat
      BY <1>0, <2>3, <3>1 DEF Steps
    <3>3. i <= l
      BY <2>10, <3>2
    <3>. QED BY <3>1, <3>2, <3>3
  <2>12. ChainEnds(m, k, j, i)
    BY <2>10, <2>11 DEF ChainEnds
  <2>. QED BY <2>3, <2>5, <2>10, <2>12 DEF PutEnds, m
<1>. QED BY <1>3, <1>4
-----------------------------------------------------------------------------
(***************************************************************************)
(* n_dirty bounds the slots touched, size the nodes; what a put adds.      *)
(***************************************************************************)
Counted(t) == Cardinality(Touched(t)) <= t.n_dirty
Sized(t) == t.size <= Cardinality(Used(t))

LEMMA PlacedTouched ==
    ASSUME NEW t, IsTable(t), NEW u, NEW node \in Node,
           PutEnds(t, node.key), Placed(t, u, node)
    PROVE  LET x == PutSlot(t, node.key) IN
           /\ Used(u) = Used(t) \union {x}
           /\ Touched(u) = Touched(t) \union {x}
           /\ x \in Passed(t, node.key).dirty => x \in Touched(t)
<1>. DEFINE k == node.key
            x == PutSlot(t, k)
<1>1. k \in Keys
  BY DEF Node
<1>2. PICK j, c \in Steps(t) : Loops(t, k, j, c)
  BY <1>1, LoopsEnd
<1>3. Passed(t, k).dirty = t.dirty \union {Spot(t, k, i) : i \in 0 .. j - 1}
  BY <1>1, <1>2, PassedFields DEF Loops, Passed
<1>4. \A i \in 0 .. j - 1 : Spot(t, k, i) \in Used(t)
  <2>. SUFFICES ASSUME NEW i \in 0 .. j - 1 PROVE Spot(t, k, i) \in Used(t)
    OBVIOUS
  <2>1. Spot(t, k, i) \in Slots(t.n_buckets)
    BY <1>1, SpotInSlots DEF Steps
  <2>. QED BY <1>2, <2>1 DEF Loops, FirstFree, Taken, Used
<1>5. Used(u) = Used(t) \union {x}
  <2>. HIDE DEF x
  <2>1. x \in Used(u) /\ \A y \in Used(u) : y # x => y \in Used(t)
    BY PlacedUsed DEF x
  <2>2. \A y \in Used(t) : y # x => y \in Used(u)
    BY PlacedUsed DEF x
  <2>. QED BY <2>1, <2>2
<1>6. u.dirty = Passed(t, k).dirty
  BY DEF Placed
<1>. QED BY <1>3, <1>4, <1>5, <1>6 DEF Touched

LEMMA PutCounts ==
    ASSUME NEW t, IsTable(t), NEW node \in Node, PutEnds(t, node.key)
    PROVE  LET u == Put(t, node) IN
           /\ Counted(t) => Counted(u)
           /\ Sized(t) => Sized(u)
           /\ u.n_dirty \in t.n_dirty .. t.n_dirty + 1
           /\ u.size \in t.size .. t.size + 1
<1>. DEFINE u == Put(t, node)
            x == PutSlot(t, node.key)
<1>1. IsTable(u) /\ Placed(t, u, node)
  BY PutIs
<1>2. /\ Used(u) = Used(t) \union {x}
      /\ Touched(u) = Touched(t) \union {x}
      /\ x \in Passed(t, node.key).dirty => x \in Touched(t)
  BY <1>1, PlacedTouched
<1>3. x \in Slots(t.n_buckets)
  BY <1>1 DEF Placed
<1>4. t.n_dirty \in Int /\ t.size \in Int
  BY TableFields
<1>5. /\ IsFiniteSet(Used(t)) /\ Cardinality(Used(t)) \in Nat
      /\ IsFiniteSet(Touched(t)) /\ Cardinality(Touched(t)) \in Nat
  BY TouchedFinite
<1>6. /\ Cardinality(Used(u)) = IF x \in Used(t) THEN Cardinality(Used(t))
                                ELSE Cardinality(Used(t)) + 1
      /\ Cardinality(Touched(u)) = IF x \in Touched(t) THEN Cardinality(Touched(t))
                                   ELSE Cardinality(Touched(t)) + 1
  BY <1>2, <1>5, FS_AddElement
<1>7. CASE t.p[x] # Null
  <2>1. u.n_dirty = t.n_dirty /\ u.size = t.size
    BY <1>7, PutIs
  <2>2. x \in Used(t) /\ x \in Touched(t)
    BY <1>3, <1>7 DEF Used, Touched
  <2>. HIDE DEF u, x
  <2>. QED BY <1>4, <1>6, <2>1, <2>2 DEF Counted, Sized, u
<1>8. CASE t.p[x] = Null
  <2>1. u.n_dirty = t.n_dirty + Fresh(t, node.key) /\ u.size = t.size + 1
    BY <1>8, PutIs
  <2>2. x \notin Used(t)
    BY <1>8 DEF Used
  <2>3. /\ Fresh(t, node.key) \in {0, 1}
        /\ Fresh(t, node.key) = 0 => x \in Touched(t)
    BY <1>2 DEF Fresh
  <2>. HIDE DEF u, x
  <2>. QED BY <1>4, <1>5, <1>6, <2>1, <2>2, <2>3 DEF Counted, Sized, u
<1>. QED BY <1>7, <1>8

LEMMA MovedCounts ==
    ASSUME NEW t, IsTable(t), NEW node \in Node, PutEnds(t, node.key), Counted(t)
    PROVE  Counted(Moved(t, node))
<1>. DEFINE u == Moved(t, node)
            x == PutSlot(t, node.key)
<1>1. Placed(t, u, node) /\ u.n_dirty = t.n_dirty + 1
  BY MovedIs
<1>2. Touched(u) = Touched(t) \union {x}
  BY <1>1, PlacedTouched
<1>3. IsFiniteSet(Touched(t)) /\ Cardinality(Touched(t)) \in Nat
  BY TouchedFinite
<1>4. t.n_dirty \in Int
  BY TableFields
<1>. HIDE DEF u, x
<1>5. Cardinality(Touched(u)) = IF x \in Touched(t) THEN Cardinality(Touched(t))
                                ELSE Cardinality(Touched(t)) + 1
  BY <1>2, <1>3, FS_AddElement
<1>6. Counted(u)
  BY <1>1, <1>3, <1>4, <1>5 DEF Counted
<1>. QED BY <1>6 DEF u

LEMMA DelCounts ==
    ASSUME NEW t, IsTable(t), NEW x \in Used(t)
    PROVE  LET u == Del(t, x) IN
           /\ Counted(t) => Counted(u)
           /\ Sized(t) => Sized(u)
           /\ u.n_dirty \in t.n_dirty - 1 .. t.n_dirty
           /\ u.size = t.size - 1
<1>. DEFINE u == Del(t, x)
<1>1. /\ u.dirty = t.dirty /\ Used(u) = Used(t) \ {x}
      /\ u.size = t.size - 1
      /\ u.n_dirty = t.n_dirty - (IF x \in t.dirty THEN 0 ELSE 1)
  BY DelIs
<1>2. t.n_dirty \in Int /\ t.size \in Int
  BY TableFields
<1>3. /\ IsFiniteSet(Used(t)) /\ Cardinality(Used(t)) \in Nat
      /\ IsFiniteSet(Touched(t)) /\ Cardinality(Touched(t)) \in Nat
  BY TouchedFinite
<1>4. Cardinality(Used(u)) = Cardinality(Used(t)) - 1
  BY <1>1, <1>3, FS_RemoveElement
<1>5. Touched(u) = IF x \in t.dirty THEN Touched(t) ELSE Touched(t) \ {x}
  BY <1>1 DEF Touched
<1>6. Cardinality(Touched(u)) = Cardinality(Touched(t)) - (IF x \in t.dirty THEN 0 ELSE 1)
  <2>1. x \in Touched(t)
    BY DEF Touched
  <2>2. CASE x \in t.dirty
    BY <1>3, <1>5, <2>2
  <2>3. CASE x \notin t.dirty
    BY <1>3, <1>5, <2>1, <2>3, FS_RemoveElement
  <2>. QED BY <2>2, <2>3
<1>. HIDE DEF u
<1>7. /\ Counted(t) => Counted(u)
      /\ Sized(t) => Sized(u)
      /\ u.n_dirty \in t.n_dirty - 1 .. t.n_dirty
  BY <1>1, <1>2, <1>3, <1>4, <1>6 DEF Counted, Sized
<1>. QED BY <1>1, <1>7 DEF u

LEMMA DelMissing ==
    ASSUME NEW t
    PROVE  Del(t, t.n_buckets) = t
BY DEF Del

(***************************************************************************)
(* A table that holds the nodes of another holds at least as many.         *)
(***************************************************************************)
LEMMA NoFewerNodes ==
    ASSUME NEW t, IsTable(t), Whole(t), NEW u, IsTable(u), NEW m \in Nat,
           m >= t.n_buckets, InStep(t, u, m)
    PROVE  Cardinality(Used(t)) <= Cardinality(Used(u))
<1>. DEFINE f == [x \in Used(t) |-> CHOOSE y \in Used(u) : u.p[y] = t.p[x]]
<1>1. \A x \in Used(t) : x < m
  BY UsedNode, TableFields DEF Slots
<1>2. \A x \in Used(t) : f[x] \in Used(u) /\ u.p[f[x]] = t.p[x]
  BY <1>1 DEF InStep
<1>3. \A x, y \in Used(t) : t.p[x] = t.p[y] => x = y
  BY DEF Whole
<1>4. f \in [Used(t) -> Used(u)]
  BY <1>2
<1>. HIDE DEF f
<1>5. \A x, y \in Used(t) : f[x] = f[y] => x = y
  BY <1>2, <1>3
<1>6. f \in Injection(Used(t), Used(u))
  BY <1>4, <1>5 DEF Injection, IsInjective
<1>. QED BY <1>6, TouchedFinite, FS_Injection
-----------------------------------------------------------------------------
(***************************************************************************)
(* Batch slots are swept for every put that comes while a resize goes on:  *)
(* d, a count that a put may raise, is above u by no more than one for     *)
(* every batch in p slots.                                                 *)
(***************************************************************************)
Load(u, d, p) == Batch * (d - u) <= p

LEMMA LoadLess ==
    ASSUME NEW u \in Int, NEW d \in Int, NEW e \in Int, NEW p \in Int,
           e <= d, Load(u, d, p)
    PROVE  Load(u, e, p)
<1>1. Batch \in Nat
  BY BatchAssumption
<1>2. Batch * (e - u) <= Batch * (d - u)
  <2>1. Batch * (d - u) - Batch * (e - u) = Batch * (d - e)
    BY <1>1
  <2>2. Batch * (d - e) >= 0
    <3>1. d - e \in Nat
      OBVIOUS
    <3>. QED BY <1>1, <3>1
  <2>3. Batch * (d - u) \in Int /\ Batch * (e - u) \in Int
    BY <1>1
  <2>. QED BY <2>1, <2>2, <2>3
<1>3. Batch * (d - u) \in Int /\ Batch * (e - u) \in Int
  BY <1>1
<1>. QED BY <1>2, <1>3 DEF Load

LEMMA LoadNone ==
    ASSUME NEW u \in Int, NEW d \in Int, d <= u
    PROVE  Load(u, d, 0)
<1>1. Batch \in Nat /\ u - d \in Nat
  BY BatchAssumption
<1>2. Batch * (u - d) >= 0 /\ Batch * (d - u) = 0 - Batch * (u - d)
  BY <1>1
<1>3. Batch * (u - d) \in Int /\ Batch * (d - u) \in Int
  BY <1>1
<1>. QED BY <1>2, <1>3 DEF Load

LEMMA LoadBatch ==
    ASSUME NEW u \in Int, NEW d \in Int, NEW p \in Int, Load(u, d, p)
    PROVE  Load(u, d + 1, p + Batch) /\ Load(u, d + 2, p + 2 * Batch)
<1>1. Batch \in Nat
  BY BatchAssumption
<1>2. /\ Batch * ((d + 1) - u) = Batch * (d - u) + Batch
      /\ Batch * ((d + 2) - u) = Batch * (d - u) + 2 * Batch
  BY <1>1
<1>3. Batch * (d - u) \in Int
  BY <1>1
<1>. QED BY <1>1, <1>2, <1>3 DEF Load

LEMMA LoadBelow ==
    ASSUME NEW u \in Int, NEW v \in Int, NEW d \in Int, NEW p \in Int,
           Load(u, d, p), p < Batch * (v - u)
    PROVE  d < v
<1>1. Batch \in Nat
  BY BatchAssumption
<1>. SUFFICES ASSUME v <= d PROVE FALSE
  OBVIOUS
<1>2. Load(u, v, p)
  BY LoadLess
<1>3. Batch * (v - u) \in Int
  BY <1>1
<1>. QED BY <1>2, <1>3 DEF Load

LEMMA TableBound ==
    ASSUME NEW t, IsTable(t)
    PROVE  /\ UpperBound(t) \in Nat /\ UpperBound(t) < t.n_buckets
           /\ t.n_buckets <= Batch * (t.n_buckets - UpperBound(t))
<1>1. /\ t.n_buckets \in Nat /\ t.n_buckets > 1
      /\ \E i \in DOMAIN Primes : t.n_buckets = Primes[i]
  BY TableFields
<1>2. UpperBound(t) \in Nat /\ UpperBound(t) < t.n_buckets
  BY <1>1 DEF UpperBound, Density
<1>. QED BY <1>1, <1>2, BatchKeepsUp DEF UpperBound

LEMMA ShadowBound ==
    ASSUME NEW t, IsTable(t), NEW u, IsTable(u), t.n_buckets < u.n_buckets
    PROVE  2 * t.n_buckets <= Batch * (UpperBound(u) - UpperBound(t))
<1>1. PICK i, j \in DOMAIN Primes : t.n_buckets = Primes[i] /\ u.n_buckets = Primes[j]
  BY TableFields
<1>. QED BY <1>1, BatchKeepsUp DEF UpperBound
-----------------------------------------------------------------------------
(***************************************************************************)
(* The room in the tables.  Owed is the put a request goes on with when    *)
(* the sweep is over, ToMove what the sweep has yet to move.  The counters *)
(* bound what they count; a table no resize moves is below its upper       *)
(* bound; while one does, a batch of slots was swept for every put above   *)
(* the bound, and two may be needed in the shadow: one for the node, one   *)
(* for a node put in front of the sweep and moved again.                   *)
(***************************************************************************)
Owed == IF pc = "insert" THEN 1 ELSE 0
ToMove == {x \in Used(h) : x >= Swept}

Resizing ==
    /\ Counted(s)
    /\ h.n_buckets < s.n_buckets
    /\ resize_position < h.n_buckets
    /\ pc = "sweep" => at + left = resize_position + Batch
    /\ Load(UpperBound(h), h.n_dirty + Owed, resize_position)
    /\ Load(UpperBound(h), s.size + Owed, resize_position)
    /\ Load(UpperBound(h), s.n_dirty + Cardinality(ToMove) + 2 * Owed, 2 * resize_position)

RoomInv ==
    /\ Counted(h) /\ Sized(h)
    /\ s = Null => h.n_dirty + Owed <= UpperBound(h)
    /\ s # Null => Resizing

LEMMA RoomTypes ==
    ASSUME HashTypeOK
    PROVE  /\ h.n_dirty \in Int /\ h.size \in Int /\ UpperBound(h) \in Int
           /\ h.n_buckets \in Nat /\ resize_position \in Nat /\ Batch \in Nat
           /\ Owed \in {0, 1}
           /\ IsFiniteSet(ToMove) /\ Cardinality(ToMove) \in Nat
           /\ Cardinality(ToMove) <= Cardinality(Used(h))
           /\ s # Null => s.n_dirty \in Int /\ s.size \in Int
<1>1. ToMove \in SUBSET Used(h) /\ IsFiniteSet(Used(h))
  BY TouchedFinite DEF ToMove, HashTypeOK
<1>2. /\ IsFiniteSet(ToMove) /\ Cardinality(ToMove) \in Nat
      /\ Cardinality(ToMove) <= Cardinality(Used(h))
  BY <1>1, FS_Subset, FS_CardinalityType
<1>3. h.n_dirty \in Int /\ h.size \in Int /\ h.n_buckets \in Nat /\ UpperBound(h) \in Int
  BY TableFields, TableBound DEF HashTypeOK
<1>4. s # Null => s.n_dirty \in Int /\ s.size \in Int
  BY TableFields DEF HashTypeOK
<1>5. resize_position \in Nat /\ Batch \in Nat
  BY BatchAssumption DEF HashTypeOK
<1>. QED BY <1>2, <1>3, <1>4, <1>5 DEF Owed

LEMMA RoomEnds ==
    ASSUME HashInv, RoomInv
    PROVE  NoSearchHangs
<1>. USE DEF HashInv, HashTypeOK
<1>0. HashTypeOK
  OBVIOUS
<1>1. ASSUME NEW t, IsTable(t), Counted(t), t.n_dirty < t.n_buckets
      PROVE  \A k \in Keys : Ends(t, k) /\ PutEnds(t, k)
  <2>1. Cardinality(Touched(t)) < t.n_buckets
    BY <1>1, TouchedFinite, TableFields DEF Counted
  <2>. QED BY <1>1, <2>1, CleanSlot, CleanEnds
<1>2. h.n_dirty < h.n_buckets
  <2>1. CASE s = Null
    BY <1>0, <2>1, RoomTypes, TableBound DEF RoomInv
  <2>2. CASE s # Null
    <3>1. /\ Load(UpperBound(h), h.n_dirty + Owed, resize_position)
          /\ resize_position < h.n_buckets
      BY <2>2 DEF RoomInv, Resizing
    <3>2. resize_position < Batch * (h.n_buckets - UpperBound(h))
      <4>1. Batch * (h.n_buckets - UpperBound(h)) \in Int
        BY <1>0, RoomTypes
      <4>. QED BY <1>0, <3>1, <4>1, RoomTypes, TableBound
    <3>3. h.n_dirty + Owed < h.n_buckets
      BY <1>0, <3>1, <3>2, RoomTypes, LoadBelow
    <3>. QED BY <1>0, <3>3, RoomTypes
  <2>. QED BY <2>1, <2>2
<1>3. h.size # h.n_buckets
  BY <1>0, <1>2, RoomTypes, TouchedFinite DEF RoomInv, Counted, Sized
<1>4. ASSUME s # Null
      PROVE  s.size < s.n_buckets /\ s.n_dirty < UpperBound(s)
  <2>. USE <1>4
  <2>1. /\ Load(UpperBound(h), s.size + Owed, resize_position)
        /\ Load(UpperBound(h), s.n_dirty + Cardinality(ToMove) + 2 * Owed, 2 * resize_position)
        /\ resize_position < h.n_buckets /\ h.n_buckets < s.n_buckets
    BY DEF RoomInv, Resizing
  <2>2. resize_position < Batch * (h.n_buckets - UpperBound(h))
    <3>1. Batch * (h.n_buckets - UpperBound(h)) \in Int
      BY <1>0, RoomTypes
    <3>. QED BY <1>0, <2>1, <3>1, RoomTypes, TableBound
  <2>3. s.size + Owed < h.n_buckets
    BY <1>0, <2>1, <2>2, RoomTypes, LoadBelow
  <2>4. 2 * resize_position < Batch * (UpperBound(s) - UpperBound(h))
    <3>1. Batch * (UpperBound(s) - UpperBound(h)) \in Int
      BY <1>0, RoomTypes, TableBound
    <3>. QED BY <1>0, <2>1, <3>1, RoomTypes, ShadowBound
  <2>5. s.n_dirty + Cardinality(ToMove) + 2 * Owed < UpperBound(s)
    <3>1. UpperBound(s) \in Int /\ s.n_dirty + Cardinality(ToMove) + 2 * Owed \in Int
      BY <1>0, RoomTypes, TableBound
    <3>2. UpperBound(h) \in Int /\ 2 * resize_position \in Int
      BY <1>0, RoomTypes
    <3>. QED BY <2>1, <2>4, <3>1, <3>2, LoadBelow
  <2>6. s.n_buckets \in Nat /\ UpperBound(s) \in Nat
    BY TableFields, TableBound
  <2>. QED BY <1>0, <2>1, <2>3, <2>5, <2>6, RoomTypes
<1>5. s # Null => s.n_dirty < s.n_buckets
  <2>1. s # Null => UpperBound(s) \in Nat /\ UpperBound(s) < s.n_buckets /\ s.n_buckets \in Nat
    BY TableBound, TableFields
  <2>. QED BY <1>0, <1>4, <2>1, RoomTypes
<1>6. s # Null => HasRoom(s) /\ s.size # s.n_buckets
  BY <1>0, <1>4, RoomTypes DEF HasRoom
<1>7. \A k \in Keys : Ends(h, k) /\ PutEnds(h, k)
  BY <1>1, <1>2 DEF RoomInv
<1>8. s # Null => \A k \in Keys : Ends(s, k) /\ PutEnds(s, k)
  BY <1>1, <1>5 DEF RoomInv, Resizing
<1>. QED BY <1>3, <1>6, <1>7, <1>8 DEF NoSearchHangs
-----------------------------------------------------------------------------
LEMMA InitRoom ==
    ASSUME HashInit
    PROVE  RoomInv
<1>1. 1 \in DOMAIN Primes
  BY PrimesAssumption
<1>2. IsTable(h) /\ Used(h) = {} /\ h.dirty = {} /\ h.n_dirty = 0 /\ h.size = 0
  BY <1>1, NewIs DEF HashInit
<1>3. Touched(h) = {} /\ Cardinality({}) = 0
  BY <1>2, FS_EmptySet DEF Touched
<1>4. UpperBound(h) \in Nat
  BY <1>2, TableBound
<1>. QED BY <1>2, <1>3, <1>4 DEF HashInit, RoomInv, Counted, Sized, Owed

(***************************************************************************)
(* The sweep goes on, with the table or without.                           *)
(***************************************************************************)
LEMMA CallRoom ==
    ASSUME HashInv, RoomInv, UNCHANGED tableVars, pc # "sweep", pc # "insert",
           \/ pc' \notin {"sweep", "insert"}
           \/ Sweep(resize_position)
    PROVE  RoomInv'
<1>1. UNCHANGED <<h, s, resize_position>>
  BY DEF tableVars
<1>2. Owed = 0 /\ Owed' = 0
  BY DEF Owed, Sweep
<1>3. Swept' = Swept
  BY <1>1 DEF Swept, Sweep
<1>4. ToMove' = ToMove
  BY <1>1, <1>3 DEF ToMove
<1>5. pc' = "sweep" => at' + left' = resize_position' + Batch
  BY <1>1 DEF Sweep
<1>. QED BY <1>1, <1>2, <1>4, <1>5 DEF RoomInv, Resizing

LEMMA StartRoom ==
    ASSUME HashInv, RoomInv, StartResize
    PROVE  RoomInv'
<1>. USE DEF HashInv, HashTypeOK
<1>0. HashTypeOK
  OBVIOUS
<1>1. /\ resize_position = 0 /\ pc = "asked" /\ s = Null
      /\ UNCHANGED <<h, resize_position>> /\ Sweep(0)
  BY DEF StartResize, PutAsked, Course
<1>2. PICK i \in DOMAIN Primes : h.n_buckets < Primes[i] /\ s' = New(Primes[i], h.size)
  BY DEF StartResize, BiggerPrimes
<1>3. /\ IsTable(s') /\ s'.n_buckets = Primes[i]
      /\ Used(s') = {} /\ s'.dirty = {} /\ s'.n_dirty = 0 /\ s'.size = h.size
  BY <1>0, <1>2, NewIs, RoomTypes
<1>4. s' # Null
  BY <1>3, NoTableAssumption
<1>5. Counted(s')
  <2>1. Touched(s') = {} /\ Cardinality({}) = 0
    BY <1>3, FS_EmptySet DEF Touched
  <2>. QED BY <1>3, <2>1 DEF Counted
<1>6. Owed = 0 /\ Owed' = 0 /\ pc' = "sweep" /\ at' = 0 /\ left' = Batch
  BY <1>1 DEF Owed, Sweep
<1>7. h.n_dirty <= UpperBound(h) /\ Cardinality(Used(h)) <= UpperBound(h) /\ h.size <= UpperBound(h)
  BY <1>0, <1>1, <1>6, RoomTypes, TouchedFinite DEF RoomInv, Counted, Sized
<1>8. Cardinality(ToMove') \in Nat /\ Cardinality(ToMove') <= Cardinality(Used(h))
  <2>1. ToMove' \in SUBSET Used(h)
    BY <1>1 DEF ToMove
  <2>. QED BY <2>1, TouchedFinite, FS_Subset, FS_CardinalityType
<1>9. Cardinality(ToMove') <= UpperBound(h)
  BY <1>0, <1>7, <1>8, RoomTypes, TouchedFinite
<1>10. /\ Load(UpperBound(h), h.n_dirty, 0)
       /\ Load(UpperBound(h), h.size, 0)
       /\ Load(UpperBound(h), Cardinality(ToMove'), 0)
  BY <1>0, <1>7, <1>8, <1>9, RoomTypes, LoadNone
<1>11. 0 < h.n_buckets /\ at' + left' = 0 + Batch
  BY <1>6, TableFields, BatchAssumption
<1>12. /\ h'.n_dirty + Owed' = h.n_dirty /\ s'.size + Owed' = h.size
       /\ s'.n_dirty + Cardinality(ToMove') + 2 * Owed' = Cardinality(ToMove')
       /\ resize_position' = 0 /\ 2 * resize_position' = 0
  BY <1>0, <1>1, <1>3, <1>6, <1>8, RoomTypes
<1>13. Resizing'
  BY <1>1, <1>2, <1>3, <1>5, <1>10, <1>11, <1>12 DEF Resizing
<1>. QED BY <1>1, <1>4, <1>13 DEF RoomInv

LEMMA SlotRoom ==
    ASSUME HashInv, HashInv', RoomInv, SweepSlot
    PROVE  RoomInv'
<1>. USE DEF HashInv, HashTypeOK
<1>0. HashTypeOK /\ HashTypeOK'
  OBVIOUS
<1>1. /\ pc = "sweep" /\ pc' = "sweep" /\ UNCHANGED <<h, resize_position>>
      /\ at \in Nat /\ left \in Nat /\ at' = at + 1 /\ left' = left - 1
      /\ s # Null /\ s' # Null
  BY DEF SweepSlot, Course
<1>2. Resizing
  BY <1>1 DEF RoomInv
<1>3. Owed = 0 /\ Owed' = 0
  BY <1>1 DEF Owed
<1>4. Swept = at /\ Swept' = at + 1
  BY <1>1 DEF Swept
<1>5. ToMove = {x \in Used(h) : x >= at} /\ ToMove' = {x \in Used(h) : x >= at + 1}
  BY <1>1, <1>4 DEF ToMove
<1>6. \A x \in Used(h) : x \in Int
  BY UsedNode DEF Slots
<1>7. ToMove' = ToMove \ {at} /\ (at \in Used(h) => at \in ToMove)
  BY <1>1, <1>5, <1>6
<1>8. at' + left' = resize_position' + Batch
  BY <1>0, <1>1, <1>2, RoomTypes DEF Resizing
<1>9. /\ Counted(s') /\ s'.n_buckets = s.n_buckets /\ s'.size = s.size
      /\ s'.n_dirty + Cardinality(ToMove') <= s.n_dirty + Cardinality(ToMove)
  <2>1. CASE h.p[at] = Null
    <3>1. at \notin Used(h)
      BY <2>1 DEF Used
    <3>2. ToMove' = ToMove
      BY <1>5, <1>7, <3>1
    <3>3. s' = s
      BY <2>1 DEF SweepSlot
    <3>. QED BY <1>0, <1>1, <1>2, <3>2, <3>3, RoomTypes DEF Resizing
  <2>2. CASE h.p[at] # Null
    <3>1. at \in Used(h)
      <4>1. at < h.n_buckets /\ at \in Nat /\ h.n_buckets \in Nat
        BY <1>0, <1>1, RoomTypes DEF SweepSlot
      <4>. QED BY <2>2, <4>1 DEF Used, Slots
    <3>2. h.p[at] \in Node /\ PutEnds(s, h.p[at].key) /\ s' = Moved(s, h.p[at])
      BY <2>2, <3>1, UsedNode DEF SweepSlot
    <3>3. IsTable(s) /\ Counted(s)
      BY <1>1, <1>2 DEF Resizing
    <3>4. /\ Placed(s, s', h.p[at]) /\ s'.n_dirty = s.n_dirty + 1 /\ s'.size = s.size
          /\ Counted(s')
      BY <3>2, <3>3, MovedIs, MovedCounts
    <3>5. Cardinality(ToMove') = Cardinality(ToMove) - 1
      BY <1>0, <1>7, <3>1, RoomTypes, FS_RemoveElement
    <3>6. s'.n_buckets = s.n_buckets
      BY <3>4 DEF Placed
    <3>. QED BY <1>0, <1>1, <3>4, <3>5, <3>6, RoomTypes
  <2>. QED BY <2>1, <2>2
<1>10. /\ Cardinality(ToMove') \in Nat /\ s'.n_dirty \in Int
       /\ Cardinality(ToMove) \in Nat /\ s.n_dirty \in Int
  <2>1. ToMove' \in SUBSET ToMove
    BY <1>7
  <2>. QED BY <1>0, <1>1, <2>1, RoomTypes, FS_Subset, FS_CardinalityType, TableFields
<1>11. /\ s'.n_dirty + Cardinality(ToMove') + 2 * Owed' \in Int
       /\ s.n_dirty + Cardinality(ToMove) + 2 * Owed \in Int
       /\ s'.n_dirty + Cardinality(ToMove') + 2 * Owed'
               <= s.n_dirty + Cardinality(ToMove) + 2 * Owed
  BY <1>3, <1>9, <1>10
<1>12. Load(UpperBound(h), s'.n_dirty + Cardinality(ToMove') + 2 * Owed', 2 * resize_position)
  <2>1. UpperBound(h) \in Int /\ 2 * resize_position \in Int
    BY <1>0, RoomTypes
  <2>. QED BY <1>2, <1>11, <2>1, LoadLess DEF Resizing
<1>13. Resizing'
  BY <1>1, <1>2, <1>3, <1>8, <1>9, <1>12 DEF Resizing
<1>. QED BY <1>1, <1>13 DEF RoomInv

LEMMA PauseRoom ==
    ASSUME HashInv, RoomInv, SweepPause
    PROVE  RoomInv'
<1>. USE DEF HashInv, HashTypeOK
<1>0. HashTypeOK
  OBVIOUS
<1>1. /\ pc = "sweep" /\ pc' \in {"idle", "insert"} /\ UNCHANGED <<h, s>>
      /\ left = 0 /\ resize_position' = at /\ at < h.n_buckets /\ at \in Nat
      /\ s # Null
  BY DEF SweepPause, Course
<1>2. Resizing
  BY <1>1 DEF RoomInv
<1>3. Owed = 0 /\ Owed' \in {0, 1}
  BY <1>1 DEF Owed
<1>4. resize_position' = resize_position + Batch
  BY <1>0, <1>1, <1>2, RoomTypes DEF Resizing
<1>5. Swept' = Swept
  BY <1>1 DEF Swept
<1>6. ToMove' = ToMove
  BY <1>1, <1>5 DEF ToMove
<1>. DEFINE u == UpperBound(h)
            p == resize_position
            c == s.n_dirty + Cardinality(ToMove)
<1>7. u \in Int /\ p \in Int /\ c \in Int /\ h.n_dirty \in Int /\ s.size \in Int /\ Batch \in Int
  BY <1>0, <1>1, RoomTypes
<1>8. Load(u, h.n_dirty, p) /\ Load(u, s.size, p) /\ Load(u, c, 2 * p)
  BY <1>2, <1>3, <1>7 DEF Resizing
<1>. HIDE DEF c
<1>9. /\ Load(u, h.n_dirty + 1, p + Batch) /\ Load(u, s.size + 1, p + Batch)
      /\ Load(u, c + 2, 2 * p + 2 * Batch)
  <2>1. 2 * p \in Int
    BY <1>7
  <2>. QED BY <1>7, <1>8, <2>1, LoadBatch
<1>10. /\ Load(u, h.n_dirty + Owed', p + Batch) /\ Load(u, s.size + Owed', p + Batch)
       /\ Load(u, c + 2 * Owed', 2 * p + 2 * Batch)
  <2>1. ASSUME NEW o \in {0, 1}
        PROVE  /\ Load(u, h.n_dirty + o, p + Batch) /\ Load(u, s.size + o, p + Batch)
               /\ Load(u, c + 2 * o, 2 * p + 2 * Batch)
    <3>1. /\ h.n_dirty + o \in Int /\ s.size + o \in Int /\ c + 2 * o \in Int
          /\ h.n_dirty + 1 \in Int /\ s.size + 1 \in Int /\ c + 2 \in Int
          /\ p + Batch \in Int /\ 2 * p + 2 * Batch \in Int
          /\ h.n_dirty + o <= h.n_dirty + 1 /\ s.size + o <= s.size + 1 /\ c + 2 * o <= c + 2
      BY <1>7
    <3>. QED BY <1>7, <1>9, <3>1, LoadLess
  <2>. QED BY <1>3, <2>1
<1>11. 2 * resize_position' = 2 * p + 2 * Batch
  BY <1>4, <1>7
<1>12. /\ Load(UpperBound(h)', h'.n_dirty + Owed', resize_position')
       /\ Load(UpperBound(h)', s'.size + Owed', resize_position')
       /\ Load(UpperBound(h)', s'.n_dirty + Cardinality(ToMove') + 2 * Owed', 2 * resize_position')
  BY <1>1, <1>4, <1>6, <1>10, <1>11 DEF c
<1>13. Resizing'
  BY <1>1, <1>2, <1>12 DEF Resizing
<1>. QED BY <1>1, <1>13 DEF RoomInv

LEMMA EndRoom ==
    ASSUME HashInv, HashInv', RoomInv, SweepEnd
    PROVE  RoomInv'
<1>. USE DEF HashInv, HashTypeOK
<1>0. HashTypeOK
  OBVIOUS
<1>1. /\ pc = "sweep" /\ at = h.n_buckets /\ s # Null
      /\ h' = [s EXCEPT !.size = h.size] /\ s' = Null
  BY DEF SweepEnd, Course
<1>2. Resizing /\ IsTable(s) /\ IsTable(h)
  BY <1>1 DEF RoomInv
<1>3. Owed = 0 /\ Owed' \in {0, 1}
  BY <1>1 DEF Owed
<1>4. /\ h'.n_buckets = s.n_buckets /\ Used(h') = Used(s) /\ h'.dirty = s.dirty
      /\ h'.n_dirty = s.n_dirty /\ h'.size = h.size
  BY <1>0, <1>1, <1>2, RoomTypes, SizedIs
<1>5. Counted(h')
  BY <1>2, <1>4 DEF Resizing, Counted, Touched
<1>6. Sized(h')
  <2>1. InStep(h, s, h.n_buckets)
    BY <1>1 DEF ShadowIsTrue, Swept
  <2>2. Cardinality(Used(h)) <= Cardinality(Used(s))
    <3>1. h.n_buckets \in Nat /\ h.n_buckets >= h.n_buckets
      BY TableFields
    <3>. QED BY <1>2, <2>1, <3>1, NoFewerNodes DEF ChainsWhole
  <2>. QED BY <1>0, <1>2, <1>4, <2>2, RoomTypes, TouchedFinite DEF RoomInv, Sized
<1>7. s.n_dirty < UpperBound(s)
  <2>1. s.n_dirty \in Int /\ UpperBound(h) \in Int /\ UpperBound(s) \in Int
    BY <1>0, <1>1, <1>2, RoomTypes, TableBound
  <2>2. s.n_dirty <= s.n_dirty + Cardinality(ToMove) + 2 * Owed
    BY <1>0, <1>3, <2>1, RoomTypes
  <2>3. Load(UpperBound(h), s.n_dirty, 2 * resize_position)
    <3>1. s.n_dirty + Cardinality(ToMove) + 2 * Owed \in Int /\ 2 * resize_position \in Int
      BY <1>0, <1>3, <2>1, RoomTypes
    <3>. QED BY <1>2, <2>1, <2>2, <3>1, LoadLess DEF Resizing
  <2>4. 2 * resize_position < Batch * (UpperBound(s) - UpperBound(h))
    <3>1. 2 * h.n_buckets <= Batch * (UpperBound(s) - UpperBound(h))
      BY <1>2, ShadowBound DEF Resizing
    <3>2. Batch * (UpperBound(s) - UpperBound(h)) \in Int
      BY <1>0, <2>1, RoomTypes
    <3>. QED BY <1>0, <1>2, <3>1, <3>2, RoomTypes DEF Resizing
  <2>5. 2 * resize_position \in Int
    BY <1>0, RoomTypes
  <2>. QED BY <2>1, <2>3, <2>4, <2>5, LoadBelow
<1>8. h'.n_dirty + Owed' <= UpperBound(h')
  <2>1. UpperBound(h') = UpperBound(s)
    BY <1>4 DEF UpperBound
  <2>2. s.n_dirty \in Int /\ UpperBound(s) \in Int
    BY <1>0, <1>1, <1>2, RoomTypes, TableBound
  <2>. QED BY <1>3, <1>4, <1>7, <2>1, <2>2
<1>. QED BY <1>1, <1>5, <1>6, <1>8 DEF RoomInv

LEMMA InsertRoom ==
    ASSUME HashInv, HashInv', RoomInv, Insert
    PROVE  RoomInv'
<1>. USE DEF HashInv, HashTypeOK
<1>0. HashTypeOK
  OBVIOUS
<1>. DEFINE node == asked.node
            x == PutSlot(h, node.key)
<1>1. /\ pc \in {"insert", "asked"} /\ pc' = "idle" /\ UNCHANGED resize_position
      /\ asked.do = "put" /\ asked # Null
  BY DEF Insert, PutAsked, Course
<1>2. node \in Node
  BY <1>1, RequestFields
<1>3. IsTable(h) /\ PutEnds(h, node.key) /\ h' = Put(h, node)
  BY DEF Insert, BothPut
<1>. HIDE DEF node
<1>4. /\ Placed(h, h', node) /\ h'.n_dirty \in h.n_dirty .. h.n_dirty + 1
      /\ Counted(h') /\ Sized(h')
  BY <1>2, <1>3, PutIs, PutCounts DEF RoomInv
<1>5. Used(h') = Used(h) \union {x}
  BY <1>2, <1>3, <1>4, PlacedTouched
<1>6. h'.n_buckets = h.n_buckets /\ UpperBound(h') = UpperBound(h)
  BY <1>4 DEF Placed, UpperBound
<1>7. Owed' = 0
  BY <1>1 DEF Owed
<1>8. CASE s = Null
  <2>1. resize_position = 0
    BY <1>0, <1>1, <1>8, RoomTypes DEF Course
  <2>2. s' = Null
    BY <1>8, <2>1 DEF Insert, BothPut
  <2>3. h.n_dirty + 1 <= UpperBound(h)
    <3>1. CASE pc = "insert"
      <4>1. Owed = 1
        BY <3>1 DEF Owed
      <4>. QED BY <1>8, <4>1 DEF RoomInv
    <3>2. CASE pc # "insert"
      BY <1>0, <3>2, RoomTypes DEF Insert
    <3>. QED BY <3>1, <3>2
  <2>4. h'.n_dirty + Owed' <= UpperBound(h')
    BY <1>0, <1>4, <1>6, <1>7, <2>3, RoomTypes
  <2>. QED BY <1>4, <2>2, <2>4, NoTableAssumption DEF RoomInv
<1>9. CASE s # Null
  <2>1. resize_position > 0 /\ pc = "insert"
    <3>1. resize_position > 0
      BY <1>1, <1>9 DEF Course
    <3>. QED BY <1>0, <1>1, <3>1, RoomTypes DEF Insert
  <2>2. Resizing /\ Owed = 1
    BY <1>9, <2>1 DEF RoomInv, Owed
  <2>3. IsTable(s) /\ PutEnds(s, node.key) /\ s' = Put(s, node)
    BY <1>0, <1>9, <2>1, RoomTypes DEF Insert, BothPut, node
  <2>4. /\ Placed(s, s', node) /\ Counted(s')
        /\ s'.n_dirty \in s.n_dirty .. s.n_dirty + 1
        /\ s'.size \in s.size .. s.size + 1
    BY <1>2, <2>2, <2>3, PutIs, PutCounts DEF Resizing
  <2>5. s'.n_buckets = s.n_buckets
    BY <2>4 DEF Placed
  <2>6. Swept' = Swept
    BY <1>1 DEF Swept
  <2>7. Cardinality(ToMove') \in Nat /\ Cardinality(ToMove') <= Cardinality(ToMove) + 1
    <3>. HIDE DEF x
    <3>1. ToMove' \in SUBSET (ToMove \union {x})
      BY <1>5, <2>6 DEF ToMove
    <3>2. IsFiniteSet(ToMove) /\ Cardinality(ToMove) \in Nat
      BY <1>0, RoomTypes
    <3>3. IsFiniteSet(ToMove \union {x}) /\ Cardinality(ToMove \union {x}) \in Nat
      BY <3>2, FS_AddElement, FS_CardinalityType
    <3>4. Cardinality(ToMove \union {x}) = IF x \in ToMove THEN Cardinality(ToMove)
                                           ELSE Cardinality(ToMove) + 1
      BY <3>2, FS_AddElement
    <3>5. IsFiniteSet(ToMove') /\ Cardinality(ToMove') <= Cardinality(ToMove \union {x})
      BY <3>1, <3>3, FS_Subset
    <3>6. Cardinality(ToMove') \in Nat
      BY <3>5, FS_CardinalityType
    <3>. QED BY <3>2, <3>3, <3>4, <3>5, <3>6
  <2>8. /\ h.n_dirty \in Int /\ s.n_dirty \in Int /\ s.size \in Int /\ Cardinality(ToMove) \in Nat
        /\ UpperBound(h) \in Int /\ resize_position \in Int /\ 2 * resize_position \in Int
    BY <1>0, <1>9, RoomTypes
  <2>9. /\ h'.n_dirty \in Int /\ s'.n_dirty \in Int /\ s'.size \in Int
    BY <1>4, <2>4, <2>8
  <2>10. Load(UpperBound(h), h'.n_dirty + Owed', resize_position)
    <3>1. /\ h'.n_dirty + Owed' \in Int /\ h.n_dirty + Owed \in Int
          /\ h'.n_dirty + Owed' <= h.n_dirty + Owed
      BY <1>4, <1>7, <2>2, <2>8, <2>9
    <3>. QED BY <2>2, <2>8, <3>1, LoadLess DEF Resizing
  <2>11. Load(UpperBound(h), s'.size + Owed', resize_position)
    <3>1. /\ s'.size + Owed' \in Int /\ s.size + Owed \in Int
          /\ s'.size + Owed' <= s.size + Owed
      BY <1>7, <2>2, <2>4, <2>8, <2>9
    <3>. QED BY <2>2, <2>8, <3>1, LoadLess DEF Resizing
  <2>12. Load(UpperBound(h), s'.n_dirty + Cardinality(ToMove') + 2 * Owed', 2 * resize_position)
    <3>1. /\ s'.n_dirty + Cardinality(ToMove') + 2 * Owed' \in Int
          /\ s.n_dirty + Cardinality(ToMove) + 2 * Owed \in Int
          /\ s'.n_dirty + Cardinality(ToMove') + 2 * Owed'
                  <= s.n_dirty + Cardinality(ToMove) + 2 * Owed
      BY <1>7, <2>2, <2>4, <2>7, <2>8, <2>9
    <3>. QED BY <2>2, <2>8, <3>1, LoadLess DEF Resizing
  <2>13. Resizing'
    BY <1>1, <1>6, <2>2, <2>4, <2>5, <2>10, <2>11, <2>12 DEF Resizing
  <2>14. s' # Null
    BY <1>2, <2>3, PutIs, NoTableAssumption
  <2>. QED BY <1>4, <2>13, <2>14 DEF RoomInv
<1>. QED BY <1>8, <1>9

LEMMA DeleteRoom ==
    ASSUME HashInv, HashInv', RoomInv, Delete
    PROVE  RoomInv'
<1>. USE DEF HashInv, HashTypeOK
<1>0. HashTypeOK
  OBVIOUS
<1>. DEFINE k == asked.key
            x == Find(h, k)
            y == Find(s, k)
<1>1. /\ pc = "asked" /\ asked.do = "delete" /\ asked # Null /\ UNCHANGED resize_position
  BY DEF Delete, DeleteAsked, Course
<1>2. k \in Keys
  BY <1>1, RequestFields
<1>3. h' = Del(h, x) /\ x \in Used(h)
  BY <1>2, FindSlot DEF Delete, ChainsWhole
<1>. HIDE DEF k, x, y
<1>4. /\ h'.n_dirty \in h.n_dirty - 1 .. h.n_dirty
      /\ Counted(h') /\ Sized(h')
      /\ h'.n_buckets = h.n_buckets /\ Used(h') = Used(h) \ {x}
  BY <1>3, DelIs, DelCounts DEF RoomInv
<1>5. UpperBound(h') = UpperBound(h)
  BY <1>4 DEF UpperBound
<1>6. Owed = 0 /\ Owed' = 0
  BY <1>1 DEF Delete, Sweep, Owed
<1>7. CASE s = Null
  <2>1. resize_position = 0
    BY <1>0, <1>1, <1>7, RoomTypes DEF Course
  <2>2. s' = Null
    BY <1>7, <2>1 DEF Delete
  <2>3. h'.n_dirty + Owed' <= UpperBound(h')
    BY <1>0, <1>4, <1>5, <1>6, <1>7, RoomTypes DEF RoomInv
  <2>. QED BY <1>4, <2>2, <2>3 DEF RoomInv
<1>8. CASE s # Null
  <2>1. resize_position > 0
    BY <1>1, <1>8 DEF Course
  <2>2. Resizing
    BY <1>8 DEF RoomInv
  <2>3. s' = Del(s, y) /\ Sweep(resize_position)
    BY <1>0, <2>1, RoomTypes DEF Delete, k, y
  <2>4. IsTable(s) /\ Whole(s)
    BY <1>8 DEF ChainsWhole
  <2>5. /\ Counted(s') /\ s'.n_buckets = s.n_buckets /\ s' # Null
        /\ s'.n_dirty \in s.n_dirty - 1 .. s.n_dirty
        /\ s'.size \in s.size - 1 .. s.size
    <3>1. s.n_dirty \in Int /\ s.size \in Int
      BY <1>0, <1>8, RoomTypes
    <3>2. CASE y = s.n_buckets
      <4>1. s' = s
        BY <2>3, <3>2, DelMissing
      <4>. QED BY <1>8, <2>2, <3>1, <4>1 DEF Resizing
    <3>3. CASE y # s.n_buckets
      <4>1. y \in Used(s)
        BY <1>2, <2>4, <3>3, FindSlot DEF y
      <4>2. s'.size = s.size - 1
        BY <2>3, <2>4, <4>1, DelCounts
      <4>3. s'.size \in s.size - 1 .. s.size
        BY <3>1, <4>2
      <4>4. IsTable(s') /\ s'.n_buckets = s.n_buckets
        BY <2>3, <2>4, <4>1, DelIs
      <4>5. Counted(s') /\ s'.n_dirty \in s.n_dirty - 1 .. s.n_dirty
        BY <2>2, <2>3, <2>4, <4>1, DelCounts DEF Resizing
      <4>. QED BY <4>3, <4>4, <4>5, NoTableAssumption
    <3>. QED BY <3>2, <3>3
  <2>6. Swept = resize_position /\ Swept' = resize_position
    BY <1>1, <2>3 DEF Swept, Sweep
  <2>7. Cardinality(ToMove') \in Nat /\ Cardinality(ToMove') <= Cardinality(ToMove)
    <3>1. ToMove' \in SUBSET ToMove
      BY <1>4, <2>6 DEF ToMove
    <3>. QED BY <1>0, <3>1, RoomTypes, FS_Subset, FS_CardinalityType
  <2>8. /\ h.n_dirty \in Int /\ s.n_dirty \in Int /\ s.size \in Int /\ Cardinality(ToMove) \in Nat
        /\ UpperBound(h) \in Int /\ resize_position \in Int /\ 2 * resize_position \in Int
    BY <1>0, <1>8, RoomTypes
  <2>9. /\ h'.n_dirty \in Int /\ s'.n_dirty \in Int /\ s'.size \in Int
    BY <1>4, <2>5, <2>8
  <2>10. Load(UpperBound(h), h'.n_dirty + Owed', resize_position)
    <3>1. /\ h'.n_dirty + Owed' \in Int /\ h.n_dirty + Owed \in Int
          /\ h'.n_dirty + Owed' <= h.n_dirty + Owed
      BY <1>4, <1>6, <2>8, <2>9
    <3>. QED BY <2>2, <2>8, <3>1, LoadLess DEF Resizing
  <2>11. Load(UpperBound(h), s'.size + Owed', resize_position)
    <3>1. /\ s'.size + Owed' \in Int /\ s.size + Owed \in Int
          /\ s'.size + Owed' <= s.size + Owed
      BY <1>6, <2>5, <2>8, <2>9
    <3>. QED BY <2>2, <2>8, <3>1, LoadLess DEF Resizing
  <2>12. Load(UpperBound(h), s'.n_dirty + Cardinality(ToMove') + 2 * Owed', 2 * resize_position)
    <3>1. /\ s'.n_dirty + Cardinality(ToMove') + 2 * Owed' \in Int
          /\ s.n_dirty + Cardinality(ToMove) + 2 * Owed \in Int
          /\ s'.n_dirty + Cardinality(ToMove') + 2 * Owed'
                  <= s.n_dirty + Cardinality(ToMove) + 2 * Owed
      BY <1>6, <2>5, <2>7, <2>8, <2>9
    <3>. QED BY <2>2, <2>8, <3>1, LoadLess DEF Resizing
  <2>13. at' + left' = resize_position' + Batch
    BY <1>1, <2>3 DEF Sweep
  <2>14. Resizing'
    BY <1>1, <1>4, <1>5, <2>2, <2>5, <2>10, <2>11, <2>12, <2>13 DEF Resizing
  <2>. QED BY <1>4, <2>5, <2>14 DEF RoomInv
<1>. QED BY <1>7, <1>8

LEMMA NextRoom ==
    ASSUME HashInv, HashInv', RoomInv, [HashNext]_hashVars
    PROVE  RoomInv'
<1>1. ASSUME NEW r \in Requests, Ask(r)
      PROVE  RoomInv'
  BY <1>1, CallRoom DEF Ask
<1>2. CASE GoOnResizing
  BY <1>2, CallRoom DEF GoOnResizing, PutAsked
<1>3. CASE DeleteNothing
  BY <1>3, CallRoom DEF DeleteNothing, DeleteAsked
<1>4. CASE UNCHANGED hashVars
  <2>1. Owed' = Owed /\ ToMove' = ToMove
    BY <1>4 DEF hashVars, tableVars, Owed, ToMove, Swept
  <2>. QED BY <1>4, <2>1 DEF hashVars, tableVars, RoomInv, Resizing
<1>. QED BY <1>1, <1>2, <1>3, <1>4, StartRoom, SlotRoom, PauseRoom, EndRoom, InsertRoom,
            DeleteRoom
         DEF HashNext, Step

(***************************************************************************)
(* No mh_find, mh_put or mh_del loops for ever, and no resize outruns its  *)
(* shadow: for any hash function, any sequence of sizes that are primes,   *)
(* and any order of puts and deletes.                                      *)
(***************************************************************************)
THEOREM SearchesEnd == HashSpec => []NoSearchHangs
<1>1. HashInit => RoomInv
  BY InitRoom
<1>2. HashInv /\ HashInv' /\ RoomInv /\ [HashNext]_hashVars => RoomInv'
  BY NextRoom
<1>3. HashInv /\ RoomInv => NoSearchHangs
  BY RoomEnds
<1>. QED BY <1>1, <1>2, <1>3, HashInvariant, PTL DEF HashSpec
=============================================================================
