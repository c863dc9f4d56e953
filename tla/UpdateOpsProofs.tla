---------------------------- MODULE UpdateOpsProofs ----------------------------
(***************************************************************************)
(* What update and upsert send, and what they leave in the buffer, is made *)
(* of whole packets: for all sequences of calls and failures, from the     *)
(* moment the buffer is empty to a step that Spoils lists.                 *)
(***************************************************************************)
EXTENDS UpdateOps, TLAPS

Buffers == [1 .. Cap -> Cells]

LEMMA CellTyped ==
    ASSUME NEW is \in {"zero", "size", "head", "array", "op", "other"}, NEW of \in Nat
    PROVE  /\ Cell(is, of) \in Cells
           /\ Cell(is, of).is = is /\ Cell(is, of).of = of
BY DEF Cell, Cells

LEMMA ZeroTyped == Zero \in Buffers
BY CellTyped DEF Zero, Buffers

(***************************************************************************)
(* An empty train; a train the cells above do not disturb; one more packet *)
(* behind it.                                                              *)
(***************************************************************************)
LEMMA TrainEmpty == ASSUME NEW f PROVE Train(f, 0)
BY DEF Train

LEMMA TrainFrame ==
    ASSUME NEW f \in Buffers, NEW g \in Buffers, NEW n \in 0 .. Cap,
           Train(f, n), \A p \in 1 .. n : g[p] = f[p]
    PROVE  Train(g, n)
<1> USE CapAssumption
<1> DEFINE starts == {p \in 1 .. n : f[p].is = "size"}
<1>1. starts = {p \in 1 .. n : g[p].is = "size"}
  OBVIOUS
<1>2. n > 0 => 1 \in starts
  BY DEF Train
<1>3. ASSUME NEW p \in starts
      PROVE  p + g[p].of + 1 \in starts \union {n + 1} /\ Packet(g, p)
  <2>1. p + f[p].of + 1 \in starts \union {n + 1} /\ Packet(f, p)
    BY DEF Train
  <2>2. p \in 1 .. n /\ f[p].of \in Nat /\ g[p] = f[p]
    BY DEF Buffers, Cells
  <2>3. p + f[p].of <= n
    BY <2>1, <2>2
  <2>4. \A q \in p + 1 .. p + f[p].of : q \in 1 .. n
    BY <2>2, <2>3
  <2>5. \A q \in p + 1 .. p + f[p].of : g[q] = f[q]
    BY <2>4
  <2>6. p + 1 \in p + 1 .. p + f[p].of /\ p + 2 \in p + 1 .. p + f[p].of
    BY <2>1, <2>2 DEF Packet
  <2>7. p + 3 .. p + f[p].of \subseteq p + 1 .. p + f[p].of
    BY <2>2
  <2> QED
    BY <2>1, <2>2, <2>5, <2>6, <2>7 DEF Packet
<1> QED
  BY <1>1, <1>2, <1>3 DEF Train

LEMMA TrainAppend ==
    ASSUME NEW f \in Buffers, NEW b \in 0 .. Cap, NEW n \in 0 .. Cap, n >= b + 3,
           Train(f, b),
           f[b + 1] = Cell("size", n - b - 1),
           f[b + 2].is = "head",
           f[b + 3] = Cell("array", n - b - 3),
           \A q \in b + 4 .. n : f[q].is = "op"
    PROVE  Train(f, n)
<1> USE CapAssumption
<1> DEFINE low == {p \in 1 .. b : f[p].is = "size"}
           starts == {p \in 1 .. n : f[p].is = "size"}
<1>1. f[b + 1].is = "size" /\ f[b + 1].of = n - b - 1
  BY DEF Cell
<1>2. f[b + 3].is = "array"
  BY DEF Cell
<1>3. ASSUME NEW p \in 1 .. n, p \notin 1 .. b, p # b + 1
      PROVE  f[p].is # "size"
  <2>1. p = b + 2 \/ p = b + 3 \/ p \in b + 4 .. n
    BY <1>3
  <2> QED
    BY <2>1, <1>2
<1>4. starts = low \union {b + 1}
  BY <1>1, <1>3
<1>5. 1 \in starts
  BY <1>4 DEF Train
<1>6. ASSUME NEW p \in low
      PROVE  p + f[p].of + 1 \in starts \union {n + 1} /\ Packet(f, p)
  BY <1>4 DEF Train
<1>7. b + 1 + f[b + 1].of + 1 = n + 1
  BY <1>1
<1>8. Packet(f, b + 1)
  <2>1. b + 1 + f[b + 1].of = n /\ f[b + 1].of >= 2 /\ f[b + 1].of - 2 = n - b - 3
    BY <1>1
  <2>2. (b + 1) + 1 = b + 2 /\ (b + 1) + 2 = b + 3 /\ (b + 1) + 3 = b + 4
    OBVIOUS
  <2> QED
    BY <2>1, <2>2 DEF Packet
<1> QED
  BY <1>4, <1>5, <1>6, <1>7, <1>8 DEF Train

(***************************************************************************)
(* The strengthening.  Room: the rest of the packet fits.  Behind what the *)
(* buffer held stands the packet as far as it is written; while the field  *)
(* of a sound call is looked up there is nothing before it.                *)
(***************************************************************************)
Building == pc \in {"array", "op", "asked", "found", "length", "send"}

Room ==
    /\ Building => before + 3 + Size(args) <= Cap
    /\ pc = "array" => len = before + 2 /\ i = 1
    /\ pc \in {"op", "found"} => len <= before + 2 + i /\ i <= Size(args) + 1
    /\ pc = "found" => i <= Size(args)
    /\ pc = "asked" => len = 0 /\ i <= Size(args)
    /\ pc = "length" => len = before + 2
    /\ i >= 1
    /\ Building /\ c[before + 1].is = "size" => len > before

Begun ==
    /\ Train(c, before)
    /\ c[before + 1] = Cell("size", 0)
    /\ c[before + 2].is = "head"

Listed(upTo) ==
    /\ len = before + 2 + upTo
    /\ c[before + 3] = Cell("array", Size(args))
    /\ \A k \in 1 .. upTo - 1 : c[before + 3 + k] = Cell("op", k)

Complete ==
    /\ Train(c, len)
    /\ len = before + 3 + Size(args)
    /\ \A k \in 1 .. Size(args) : c[before + 3 + k] = Cell("op", k)

Sound ==
    /\ pc = "array" => Begun
    /\ pc = "op" => Begun /\ Listed(i)
    /\ pc = "asked" => before = 0
    /\ pc \notin {"found", "length"}
    /\ pc = "send" => Complete

(***************************************************************************)
(* The ops of the call alone, whatever stands in front of its packet.      *)
(***************************************************************************)
OpsUpTo(n) == \A k \in 1 .. n : c[before + 3 + k] = Cell("op", k)

Asked ==
    /\ pc = "op" => len = before + 2 + i /\ OpsUpTo(i - 1)
    /\ pc \notin {"found", "length"}
    /\ pc = "send" => len = before + 3 + Size(args) /\ OpsUpTo(Size(args))

UpdateInv ==
    /\ UpdateTypeOK
    /\ Room
    /\ spoilt = {} => Sound
    /\ spoilt \subseteq {"kept"} => Asked
    /\ LeftIsWhole
    /\ SentIsWhole
    /\ SentAsAsked

(***************************************************************************)
(* What the arguments of a call are.                                       *)
(***************************************************************************)
LEMMA ArgsTyped ==
    ASSUME NEW list \in Lists
    PROVE  /\ list.at \in Seq(Ops \union {Missing, NotMap})
           /\ Size(list) \in Nat /\ list.hash \in BOOLEAN
BY ListsAssumption DEF Size

LEMMA CellAt ==
    ASSUME NEW f \in Buffers, NEW p \in 1 .. Cap
    PROVE  f[p] \in Cells /\ f[p].of \in Nat
BY DEF Buffers, Cells

(***************************************************************************)
(* A call that is taken back leaves the buffer it found.                   *)
(***************************************************************************)
LEMMA RollBackSound ==
    ASSUME UpdateInv, RollBack, pc \in {"op", "found", "asked"},
           c' \in Buffers, known' \subseteq Names, open' \in BOOLEAN,
           raised' \in BOOLEAN, spoilt' \subseteq Spoils,
           spoilt' = {} => spoilt = {} /\ (c' = c \/ before = 0),
           spoilt \subseteq spoilt'
    PROVE  UpdateInv'
<1> USE CapAssumption
<1>1. UpdateTypeOK'
  BY DEF UpdateInv, UpdateTypeOK, RollBack, call, Buffers
<1>2. Room'
  BY DEF UpdateInv, UpdateTypeOK, Room, Building, RollBack, call
<1>3. (spoilt = {} => Sound)'
  BY DEF RollBack, Sound
<1>4. LeftIsWhole'
  <2>1. SUFFICES ASSUME spoilt' = {} PROVE Train(c', before)
    BY DEF LeftIsWhole, RollBack
  <2>2. CASE before = 0
    BY <2>2, TrainEmpty
  <2>3. CASE before # 0
    BY <2>1, <2>3 DEF UpdateInv, Sound, Begun
  <2> QED
    BY <2>2, <2>3
<1>5. SentIsWhole' /\ SentAsAsked'
  BY DEF UpdateInv, SentIsWhole, SentAsAsked, RollBack, call
<1>6. (spoilt \subseteq {"kept"} => Asked)'
  BY DEF RollBack, Asked
<1> QED
  BY <1>1, <1>2, <1>3, <1>4, <1>5, <1>6 DEF UpdateInv

(***************************************************************************)
(* One lemma for each of the steps that write into the buffer.             *)
(***************************************************************************)
LEMMA BeginSound ==
    ASSUME UpdateInv, NEW list \in Lists, Begin(list)
    PROVE  UpdateInv'
<1> USE CapAssumption
<1> DEFINE size == Cell("size", 0)
           head == Cell("head", 0)
<1>1. c \in Buffers /\ len \in 0 .. Cap /\ len + 3 + Size(list) <= Cap
  BY DEF UpdateInv, UpdateTypeOK, Begin, Buffers
<1>2. Size(list) \in Nat
  BY ArgsTyped
<1>3. size \in Cells /\ head \in Cells /\ head.is = "head"
  BY CellTyped
<1>4. len + 1 \in 1 .. Cap /\ len + 2 \in 1 .. Cap
  BY <1>1, <1>2
<1>5. c' = [c EXCEPT ![len + 1] = size, ![len + 2] = head]
  BY DEF Begin
<1>6. /\ c' \in Buffers
      /\ c'[len + 1] = size /\ c'[len + 2] = head
      /\ \A p \in 1 .. len : c'[p] = c[p]
  BY <1>1, <1>3, <1>4, <1>5 DEF Buffers
<1>7. UpdateTypeOK'
  <2>1. /\ pc' = "array" /\ len' = len + 2 /\ before' = len /\ args' = list /\ i' = 1
        /\ wire' = [n |-> 0, c |-> Zero] /\ raised' = FALSE /\ result' = "none"
        /\ spoilt' \subseteq Spoils /\ known' = known /\ format' = format /\ open' = open
    BY DEF Begin, UpdateInv, UpdateTypeOK
  <2>2. wire' \in [n : 0 .. Cap, c : [1 .. Cap -> Cells]]
    BY <2>1, ZeroTyped DEF Buffers
  <2>3. len' \in 0 .. Cap /\ before' \in 0 .. Cap
    BY <2>1, <1>1, <1>2
  <2> QED
    BY <2>1, <2>2, <2>3, <1>6 DEF UpdateInv, UpdateTypeOK, Buffers
<1>8. Room'
  BY <1>1, <1>2 DEF UpdateInv, UpdateTypeOK, Room, Building, Begin
<1>9. (spoilt = {} => Sound)'
  <2>1. SUFFICES ASSUME spoilt' = {} PROVE Begun'
    BY DEF Begin, Sound
  <2>2. Train(c, len)
    <3>1. CASE len = 0
      BY <3>1, TrainEmpty
    <3>2. CASE len # 0
      <4>1. len > 0
        BY <3>2, <1>1
      <4>2. spoilt = {} /\ pc = "idle"
        BY <2>1, <4>1 DEF Begin
      <4> QED
        BY <4>2 DEF UpdateInv, LeftIsWhole
    <3> QED
      BY <3>1, <3>2
  <2>3. Train(c', len)
    BY <2>2, <1>1, <1>6, TrainFrame
  <2> QED
    BY <2>3, <1>3, <1>6 DEF Begun, Begin
<1>10. LeftIsWhole' /\ SentIsWhole' /\ SentAsAsked'
  BY TrainEmpty DEF Begin, LeftIsWhole, SentIsWhole, SentAsAsked
<1>11. (spoilt \subseteq {"kept"} => Asked)'
  BY DEF Begin, Asked
<1> QED
  BY <1>7, <1>8, <1>9, <1>10, <1>11 DEF UpdateInv

LEMMA WriteArraySound ==
    ASSUME UpdateInv, WriteArray
    PROVE  UpdateInv'
<1> USE CapAssumption
<1> DEFINE cell == Cell("array", Size(args))
<1>1. c \in Buffers /\ len = before + 2 /\ i = 1 /\ before \in 0 .. Cap
      /\ before + 3 + Size(args) <= Cap /\ Size(args) \in Nat
  BY ArgsTyped DEF UpdateInv, UpdateTypeOK, Room, Building, WriteArray, Buffers
<1>2. cell \in Cells
  BY <1>1, CellTyped
<1>3. c' = [c EXCEPT ![before + 3] = cell] /\ len' = before + 3
  BY <1>1 DEF WriteArray, Add
<1>4. before + 3 \in 1 .. Cap
  BY <1>1
<1>5. /\ c' \in Buffers
      /\ c'[before + 3] = cell
      /\ \A p \in 1 .. before + 2 : c'[p] = c[p]
  BY <1>1, <1>2, <1>3, <1>4 DEF Buffers
<1>6. UpdateTypeOK'
  BY <1>3, <1>4, <1>5 DEF UpdateInv, UpdateTypeOK, WriteArray, call, Buffers
<1>7. Room'
  BY <1>1, <1>3 DEF UpdateInv, Room, Building, WriteArray, call
<1>8. (spoilt = {} => Sound)'
  <2>1. SUFFICES ASSUME spoilt = {} PROVE (Begun /\ Listed(i))'
    BY DEF WriteArray, Sound
  <2>2. Begun
    BY <2>1 DEF WriteArray, UpdateInv, Sound
  <2>3. Train(c', before)
    BY <2>2, <1>1, <1>5, TrainFrame DEF Begun
  <2>4. before + 1 \in 1 .. before + 2 /\ before + 2 \in 1 .. before + 2
    BY <1>1
  <2>5. Begun'
    BY <2>2, <2>3, <2>4, <1>5 DEF Begun, WriteArray
  <2>6. Listed(i)'
    BY <1>1, <1>3, <1>5 DEF Listed, WriteArray, call
  <2> QED
    BY <2>5, <2>6
<1>9. LeftIsWhole' /\ SentIsWhole' /\ SentAsAsked'
  BY DEF UpdateInv, WriteArray, LeftIsWhole, SentIsWhole, SentAsAsked, call
<1>10. (spoilt \subseteq {"kept"} => Asked)'
  BY <1>1, <1>3 DEF Asked, OpsUpTo, WriteArray, call
<1> QED
  BY <1>6, <1>7, <1>8, <1>9, <1>10 DEF UpdateInv

LEMMA WriteOpSound ==
    ASSUME UpdateInv, WriteOp
    PROVE  UpdateInv'
<1> USE CapAssumption
<1> DEFINE cell == Cell("op", i)
<1>1. c \in Buffers /\ before \in 0 .. Cap /\ len \in 0 .. Cap /\ i \in Nat /\ i >= 1
      /\ before + 3 + Size(args) <= Cap /\ Size(args) \in Nat
      /\ i <= Size(args) /\ len <= before + 2 + i
  BY ArgsTyped DEF UpdateInv, UpdateTypeOK, Room, Building, WriteOp, AtOp, Buffers
<1>2. cell \in Cells
  BY <1>1, CellTyped
<1>3. c' = [c EXCEPT ![len + 1] = cell] /\ len' = len + 1
  BY DEF WriteOp, Add
<1>4. len + 1 \in 1 .. Cap
  BY <1>1
<1>5. /\ c' \in Buffers
      /\ c'[len + 1] = cell
      /\ \A p \in 1 .. len : c'[p] = c[p]
  BY <1>1, <1>2, <1>3, <1>4 DEF Buffers
<1>6. UpdateTypeOK'
  BY <1>1, <1>3, <1>4, <1>5 DEF UpdateInv, UpdateTypeOK, WriteOp, call, Buffers
<1>7. Room'
  <2>1. pc' = "op" /\ before' = before /\ args' = args /\ i' = i + 1
    BY DEF WriteOp
  <2>2. cell.is = "op"
    BY CellTyped, <1>1
  <2>3. ASSUME c'[before + 1].is = "size" PROVE len > before
    <3>1. CASE len + 1 = before + 1
      BY <3>1, <2>2, <2>3, <1>5
    <3>2. CASE len + 1 # before + 1
      <4>1. before + 1 \in 1 .. Cap
        BY <1>1
      <4>2. c'[before + 1] = c[before + 1]
        BY <3>2, <4>1, <1>1, <1>3 DEF Buffers
      <4> QED
        BY <4>2, <2>3 DEF UpdateInv, Room, Building, WriteOp, AtOp
    <3> QED
      BY <3>1, <3>2
  <2> QED
    BY <2>1, <2>3, <1>1, <1>3 DEF Room, Building
<1>8. (spoilt = {} => Sound)'
  <2>1. SUFFICES ASSUME spoilt = {} PROVE (Begun /\ Listed(i))'
    BY DEF WriteOp, Sound
  <2>2. Begun /\ Listed(i)
    BY <2>1 DEF WriteOp, AtOp, UpdateInv, Sound
  <2>3. len = before + 2 + i
    BY <2>2 DEF Listed
  <2>4. \A p \in 1 .. before + 2 + i : c'[p] = c[p]
    BY <2>3, <1>5
  <2>5. Train(c', before)
    BY <2>2, <2>4, <1>1, <1>5, TrainFrame DEF Begun
  <2>6. /\ before + 1 \in 1 .. before + 2 + i
        /\ before + 2 \in 1 .. before + 2 + i
        /\ before + 3 \in 1 .. before + 2 + i
        /\ \A k \in 1 .. i - 1 : before + 3 + k \in 1 .. before + 2 + i
    BY <1>1
  <2>7. Begun'
    BY <2>2, <2>4, <2>5, <2>6 DEF Begun, WriteOp
  <2>8. ASSUME NEW k \in 1 .. i PROVE c'[before + 3 + k] = Cell("op", k)
    <3>1. CASE k = i
      BY <3>1, <2>3, <1>1, <1>5
    <3>2. CASE k # i
      BY <3>2, <2>2, <2>4, <2>6, <1>1 DEF Listed
    <3> QED
      BY <3>1, <3>2
  <2>9. Listed(i)'
    BY <2>2, <2>3, <2>4, <2>6, <2>8, <1>1, <1>3 DEF Listed, WriteOp
  <2> QED
    BY <2>7, <2>9
<1>9. LeftIsWhole' /\ SentIsWhole' /\ SentAsAsked'
  BY DEF UpdateInv, WriteOp, LeftIsWhole, SentIsWhole, SentAsAsked
<1>10. (spoilt \subseteq {"kept"} => Asked)'
  <2>1. SUFFICES ASSUME spoilt \subseteq {"kept"}
                 PROVE  /\ len' = before + 2 + (i + 1)
                        /\ \A k \in 1 .. i : c'[before + 3 + k] = Cell("op", k)
    BY <1>1 DEF WriteOp, Asked, OpsUpTo
  <2>2. len = before + 2 + i /\ OpsUpTo(i - 1)
    BY <2>1 DEF WriteOp, AtOp, UpdateInv, Asked
  <2>3. ASSUME NEW k \in 1 .. i PROVE c'[before + 3 + k] = Cell("op", k)
    <3>1. CASE k = i
      BY <3>1, <2>2, <1>1, <1>5
    <3>2. CASE k # i
      <4>1. k \in 1 .. i - 1 /\ before + 3 + k \in 1 .. len
        BY <3>2, <2>2, <1>1
      <4> QED
        BY <4>1, <2>2, <1>5 DEF OpsUpTo
    <3> QED
      BY <3>1, <3>2
  <2> QED
    <3>1. len' = before + 2 + (i + 1)
      BY <2>2, <1>1, <1>3
    <3> QED
      BY <3>1, <2>3
<1> QED
  BY <1>6, <1>7, <1>8, <1>9, <1>10 DEF UpdateInv

LEMMA PutLengthSound ==
    ASSUME UpdateInv, PutLength
    PROVE  UpdateInv'
<1> USE CapAssumption
<1>1. c \in Buffers /\ before \in 0 .. Cap /\ len \in 0 .. Cap /\ i \in Nat /\ i >= 1
      /\ before + 3 + Size(args) <= Cap /\ Size(args) \in Nat
  BY ArgsTyped DEF UpdateInv, UpdateTypeOK, Room, Building, PutLength, Written, Buffers
<1>2. before + 1 \in 1 .. Cap
  BY <1>1
<1> DEFINE cell == IF Gone THEN Cell("other", 0) ELSE Cell("size", len - before - 1)
<1>3. c' = [c EXCEPT ![before + 1] = cell]
  BY DEF PutLength
<1>4. Building /\ pc \in {"op", "length"}
  BY DEF PutLength, Written, Building
<1>5. cell \in Cells
  <2>1. CASE Gone
    BY <2>1, CellTyped
  <2>2. CASE ~Gone
    <3>1. len > before
      BY <2>2, <1>4 DEF Gone, UpdateInv, Room
    <3>2. len - before - 1 \in Nat
      BY <3>1, <1>1
    <3> QED
      BY <3>2, <2>2, CellTyped
  <2> QED
    BY <2>1, <2>2
<1>6. c' \in Buffers /\ c'[before + 1] = cell
      /\ \A p \in 1 .. Cap : p # before + 1 => c'[p] = c[p]
  BY <1>1, <1>2, <1>3, <1>5 DEF Buffers
<1>7. UpdateTypeOK'
  BY <1>6 DEF UpdateInv, UpdateTypeOK, PutLength, call, Buffers
<1>8. Room'
  <2>1. ASSUME c'[before + 1].is = "size" PROVE len > before
    <3>1. ~Gone
      BY <2>1, <1>6 DEF Cell
    <3> QED
      BY <3>1, <1>4 DEF Gone, UpdateInv, Room
  <2> QED
    BY <2>1, <1>4 DEF UpdateInv, Room, Building, PutLength, call
<1>9. (spoilt = {} => Sound)'
  <2>1. SUFFICES ASSUME spoilt = {} PROVE Complete'
    BY DEF PutLength, Sound
  <2>2. pc = "op" /\ Begun /\ Listed(i) /\ i = Size(args) + 1
    <3>1. pc = "op" /\ i > Size(args)
      BY <2>1, <1>4 DEF PutLength, Written, UpdateInv, Sound
    <3>2. i <= Size(args) + 1
      BY <3>1 DEF UpdateInv, Room
    <3> QED
      BY <2>1, <3>1, <3>2, <1>1 DEF UpdateInv, Sound
  <2>3. len = before + 3 + Size(args)
    BY <2>2, <1>1 DEF Listed
  <2>4. c[before + 1].is = "size"
    BY <2>2 DEF Begun, Cell
  <2>5. c'[before + 1] = Cell("size", len - before - 1)
    BY <2>4, <1>6 DEF Gone
  <2>6. \A p \in 1 .. before : c'[p] = c[p]
    BY <1>1, <1>6
  <2>7. Train(c', before)
    BY <2>2, <2>6, <1>1, <1>6, TrainFrame DEF Begun
  <2>8. c'[before + 2] = c[before + 2] /\ c'[before + 3] = c[before + 3]
    <3>1. /\ before + 2 \in 1 .. Cap /\ before + 2 # before + 1
          /\ before + 3 \in 1 .. Cap /\ before + 3 # before + 1
      BY <1>1
    <3> QED
      BY <3>1, <1>6
  <2>9. ASSUME NEW k \in 1 .. Size(args) PROVE c'[before + 3 + k] = Cell("op", k)
    <3>1. /\ before + 3 + k \in 1 .. Cap /\ before + 3 + k # before + 1
          /\ k \in 1 .. i - 1
      BY <1>1, <2>2
    <3> QED
      BY <3>1, <2>2, <1>6 DEF Listed
  <2>10. ASSUME NEW q \in before + 4 .. len PROVE c'[q].is = "op"
    <3>1. q - before - 3 \in 1 .. Size(args) /\ before + 3 + (q - before - 3) = q
      BY <1>1, <2>3
    <3>2. c'[before + 3 + (q - before - 3)] = Cell("op", q - before - 3)
      BY <2>9, <3>1
    <3> QED
      BY <3>1, <3>2 DEF Cell
  <2>11. c'[before + 3] = Cell("array", len - before - 3) /\ c'[before + 2].is = "head"
    <3>1. len - before - 3 = Size(args)
      BY <1>1, <2>3
    <3> QED
      BY <3>1, <2>2, <2>8 DEF Listed, Begun
  <2>12. len \in 0 .. Cap /\ len >= before + 3
    BY <1>1, <2>3
  <2>13. Train(c', len)
    BY <1>1, <1>6, <2>5, <2>7, <2>10, <2>11, <2>12, TrainAppend
  <2> QED
    BY <2>3, <2>9, <2>13 DEF Complete, PutLength, call
<1>10. LeftIsWhole' /\ SentIsWhole' /\ SentAsAsked'
  BY DEF UpdateInv, PutLength, LeftIsWhole, SentIsWhole, SentAsAsked, call
<1>11. (spoilt \subseteq {"kept"} => Asked)'
  <2>1. SUFFICES ASSUME spoilt \subseteq {"kept"}
                 PROVE  len = before + 3 + Size(args) /\ OpsUpTo(Size(args))'
    BY DEF PutLength, Asked, call
  <2>2. pc = "op" /\ i > Size(args)
    BY <2>1, <1>4 DEF PutLength, Written, UpdateInv, Asked
  <2>3. i = Size(args) + 1
    BY <2>2, <1>1 DEF UpdateInv, Room
  <2>4. len = before + 2 + i /\ OpsUpTo(i - 1)
    BY <2>1, <2>2 DEF UpdateInv, Asked
  <2>5. ASSUME NEW k \in 1 .. Size(args) PROVE c'[before + 3 + k] = Cell("op", k)
    <3>1. /\ before + 3 + k \in 1 .. Cap /\ before + 3 + k # before + 1
          /\ k \in 1 .. i - 1
      BY <1>1, <2>3
    <3> QED
      BY <3>1, <2>4, <1>6 DEF OpsUpTo
  <2> QED
    BY <1>1, <2>3, <2>4, <2>5 DEF OpsUpTo, PutLength, call
<1> QED
  BY <1>7, <1>8, <1>9, <1>10, <1>11 DEF UpdateInv

(***************************************************************************)
(* The steps that send, and those that leave the buffer alone.             *)
(***************************************************************************)
LEMMA SendSound ==
    ASSUME UpdateInv, Send \/ SendFails
    PROVE  UpdateInv'
<1>1. CASE Send
  <2>1. UpdateTypeOK'
    BY <1>1, ZeroTyped, CapAssumption
    DEF UpdateInv, UpdateTypeOK, Send, call, Buffers
  <2>2. Room' /\ (spoilt = {} => Sound)' /\ LeftIsWhole'
    BY <1>1 DEF UpdateInv, Room, Building, Sound, LeftIsWhole, Send, call
  <2>3. SentIsWhole' /\ SentAsAsked'
    BY <1>1 DEF UpdateInv, Sound, Complete, Asked, OpsUpTo, SentIsWhole, SentAsAsked,
                Send, call
  <2>4. (spoilt \subseteq {"kept"} => Asked)'
    BY <1>1 DEF Asked, Send
  <2> QED
    BY <2>1, <2>2, <2>3, <2>4 DEF UpdateInv
<1>2. CASE SendFails
  <2>1. UpdateTypeOK'
    BY <1>2 DEF UpdateInv, UpdateTypeOK, SendFails, call, buffer
  <2>2. Room' /\ (spoilt = {} => Sound)'
    BY <1>2 DEF UpdateInv, Room, Building, Sound, SendFails, call, buffer
  <2>3. LeftIsWhole'
    BY <1>2 DEF UpdateInv, Sound, Complete, LeftIsWhole, SendFails, buffer
  <2>4. SentIsWhole' /\ SentAsAsked'
    BY <1>2 DEF UpdateInv, SentIsWhole, SentAsAsked, SendFails, call, buffer
  <2>5. (spoilt \subseteq {"kept"} => Asked)'
    BY <1>2 DEF Asked, SendFails
  <2> QED
    BY <2>1, <2>2, <2>3, <2>4, <2>5 DEF UpdateInv
<1> QED
  BY <1>1, <1>2

LEMMA RecvSound ==
    ASSUME UpdateInv, Recv
    PROVE  UpdateInv'
<1>1. UpdateTypeOK'
  <2>1. result' \in {"none", "data", "false"} /\ open' \in BOOLEAN /\ raised' \in BOOLEAN
    BY DEF Recv, UpdateInv, UpdateTypeOK
  <2> QED
    BY <2>1, ZeroTyped, CapAssumption DEF UpdateInv, UpdateTypeOK, Recv, call, Buffers
<1>2. Room' /\ (spoilt = {} => Sound)'
  BY DEF UpdateInv, Room, Building, Sound, Recv, call
<1>3. LeftIsWhole'
  BY TrainEmpty DEF LeftIsWhole, Recv
<1>4. SentIsWhole' /\ SentAsAsked'
  BY DEF UpdateInv, SentIsWhole, SentAsAsked, Recv, call
<1>5. (spoilt \subseteq {"kept"} => Asked)'
  BY DEF Asked, Recv
<1> QED
  BY <1>1, <1>2, <1>3, <1>4, <1>5 DEF UpdateInv

LEMMA LookupSound ==
    ASSUME UpdateInv, AskField \/ FieldIsKnown
    PROVE  UpdateInv'
<1> USE CapAssumption
<1>1. CASE AskField
  <2>1. pc = "op" /\ i <= Size(args)
    BY <1>1 DEF AskField, Unknown, AtOp
  <2>2. before \in 0 .. Cap /\ before + 3 + Size(args) <= Cap /\ Size(args) \in Nat
    BY <2>1, ArgsTyped DEF UpdateInv, UpdateTypeOK, Room, Building
  <2>3. before + 1 \in 1 .. Cap
    BY <2>2
  <2>4. c'[before + 1].is = "zero"
    BY <1>1, <2>3 DEF AskField, Zero, Cell
  <2>5. UpdateTypeOK'
    <3>1. OverKept \subseteq Spoils
      BY DEF OverKept, Spoils, UpdateInv, UpdateTypeOK
    <3> QED
      BY <1>1, <3>1, ZeroTyped DEF UpdateInv, UpdateTypeOK, AskField, call, Buffers
  <2>6. Room'
    BY <1>1, <2>1, <2>4 DEF UpdateInv, Room, Building, AskField, call
  <2>7. (spoilt = {} => Sound)'
    <3>1. SUFFICES ASSUME spoilt' = {} PROVE before = 0
      BY <1>1 DEF AskField, Sound
    <3>2. ~(before > 0)
      BY <1>1, <3>1 DEF AskField, OverKept
    <3> QED
      BY <3>2, <2>2
  <2>8. LeftIsWhole' /\ SentIsWhole' /\ SentAsAsked'
    BY <1>1 DEF UpdateInv, LeftIsWhole, SentIsWhole, SentAsAsked, AskField, OverKept, call
  <2>9. (spoilt \subseteq {"kept"} => Asked)'
    BY <1>1 DEF AskField, Asked
  <2> QED
    BY <2>5, <2>6, <2>7, <2>8, <2>9 DEF UpdateInv
<1>2. CASE FieldIsKnown
  <2>1. pc = "asked" /\ len = 0 /\ i <= Size(args) /\ c \in Buffers
    BY <1>2 DEF FieldIsKnown, Answered, UpdateInv, UpdateTypeOK, Room, Buffers
  <2>2. /\ before \in 0 .. Cap /\ before + 3 + Size(args) <= Cap
        /\ Size(args) \in Nat /\ i \in Nat /\ i >= 1
    BY <2>1, ArgsTyped DEF UpdateInv, UpdateTypeOK, Room, Building
  <2>3. 1 \in 1 .. Cap /\ before + 1 \in 1 .. Cap
    BY <2>2
  <2>4. Cell("other", 0) \in Cells /\ Cell("other", 0).is = "other"
    BY CellTyped
  <2>5. c' = [c EXCEPT ![1] = Cell("other", 0)]
    BY <1>2 DEF FieldIsKnown, Answered
  <2>6. c' \in Buffers
    BY <2>1, <2>4, <2>5 DEF Buffers
  <2>7. ASSUME c'[before + 1].is = "size" PROVE len > before
    <3>1. before + 1 # 1
      BY <2>1, <2>3, <2>4, <2>5, <2>7 DEF Buffers
    <3>2. c'[before + 1] = c[before + 1]
      BY <3>1, <2>1, <2>3, <2>5 DEF Buffers
    <3> QED
      BY <3>2, <2>1, <2>7 DEF UpdateInv, Room, Building
  <2>8. known' \subseteq Names
    BY <1>2 DEF FieldIsKnown, KnownNow, UpdateInv, UpdateTypeOK
  <2>9. UpdateTypeOK'
    BY <1>2, <2>6, <2>8 DEF UpdateInv, UpdateTypeOK, FieldIsKnown, Spoils, call, Buffers
  <2>10. Room'
    <3>1. /\ pc' = "found" /\ len' = len /\ before' = before /\ args' = args /\ i' = i
      BY <1>2 DEF FieldIsKnown, call
    <3> QED
      BY <3>1, <2>1, <2>2, <2>7 DEF Room, Building
  <2>11. "found" \in spoilt' /\ spoilt' \subseteq Spoils /\ wire' = wire /\ pc' = "found"
    BY <1>2 DEF FieldIsKnown, UpdateInv, UpdateTypeOK, Spoils
  <2>12. spoilt' # {} /\ ~(spoilt' \subseteq {"kept"})
    BY <2>11
  <2> QED
    BY <2>9, <2>10, <2>11, <2>12 DEF UpdateInv, LeftIsWhole, SentIsWhole, SentAsAsked
<1> QED
  BY <1>1, <1>2

(***************************************************************************)
(* The steps that raise an exception and go on, or end the process, or     *)
(* have nothing to do with the buffer.                                     *)
(***************************************************************************)
LEMMA OtherSound ==
    ASSUME UpdateInv,
           Alter \/ Connect \/ OpsAreMap \/ OpIsNoMap \/ ReadNull \/ LengthIsNotPositive
    PROVE  UpdateInv'
<1>1. CASE Alter
  BY <1>1 DEF UpdateInv, UpdateTypeOK, Room, Building, Sound, Begun, Listed, Complete,
              Asked, OpsUpTo, LeftIsWhole, SentIsWhole, SentAsAsked, Alter, buffer, call
<1>2. CASE Connect
  <2>1. c' \in Buffers /\ len' \in 0 .. Cap
    BY <1>2, ZeroTyped, CapAssumption DEF Connect, UpdateInv, UpdateTypeOK, Buffers
  <2>2. UpdateTypeOK'
    BY <1>2, <2>1 DEF Connect, UpdateInv, UpdateTypeOK, Buffers, call
  <2>3. Room' /\ (spoilt = {} => Sound)'
    BY <1>2 DEF Connect, UpdateInv, Room, Building, Sound, call
  <2>4. LeftIsWhole'
    BY <1>2, TrainEmpty DEF Connect, UpdateInv, LeftIsWhole
  <2>5. SentIsWhole' /\ SentAsAsked'
    BY <1>2 DEF Connect, UpdateInv, SentIsWhole, SentAsAsked, call
  <2>6. (spoilt \subseteq {"kept"} => Asked)'
    BY <1>2 DEF Connect, Asked
  <2> QED
    BY <2>2, <2>3, <2>4, <2>5, <2>6 DEF UpdateInv
<1>3. CASE OpsAreMap
  <2>1. spoilt' \subseteq Spoils /\ spoilt' # {} /\ ~(spoilt' \subseteq {"kept"})
    BY <1>3 DEF OpsAreMap, Spoils, UpdateInv, UpdateTypeOK
  <2> QED
    BY <1>3, <2>1 DEF UpdateInv, UpdateTypeOK, Room, Building, LeftIsWhole, SentIsWhole,
                      SentAsAsked, OpsAreMap, buffer, call
<1>4. CASE OpIsNoMap
  <2>1. i \in Nat /\ i' = i + 1 /\ pc' = pc /\ len' = len /\ before' = before
        /\ i <= Size(args) /\ pc = "op" /\ args' = args /\ c' = c
    BY <1>4 DEF OpIsNoMap, AtOp, UpdateInv, UpdateTypeOK, buffer
  <2>2. UpdateTypeOK'
    <3>1. spoilt' \subseteq Spoils
      BY <1>4 DEF OpIsNoMap, Spoils, UpdateInv, UpdateTypeOK
    <3> QED
      BY <1>4, <2>1, <3>1 DEF UpdateInv, UpdateTypeOK, OpIsNoMap
  <2>3. Size(args) \in Nat /\ before \in Int /\ len \in Int
    BY ArgsTyped DEF UpdateInv, UpdateTypeOK
  <2>4. Room'
    BY <2>1, <2>3 DEF UpdateInv, Room, Building
  <2>5. spoilt' # {} /\ ~(spoilt' \subseteq {"kept"}) /\ wire' = wire
    BY <1>4 DEF OpIsNoMap
  <2> QED
    BY <2>1, <2>2, <2>4, <2>5 DEF UpdateInv, LeftIsWhole, SentIsWhole, SentAsAsked
<1>5. CASE ReadNull
  BY <1>5 DEF UpdateInv, UpdateTypeOK, Room, Building, Sound, Asked, LeftIsWhole, SentIsWhole,
              SentAsAsked, ReadNull, AtOp, buffer, call
<1>6. CASE LengthIsNotPositive
  BY <1>6 DEF UpdateInv, UpdateTypeOK, Room, Building, Sound, Asked, LeftIsWhole, SentIsWhole,
              SentAsAsked, LengthIsNotPositive, buffer, call
<1> QED
  BY <1>1, <1>2, <1>3, <1>4, <1>5, <1>6

LEMMA RefusalSound ==
    ASSUME UpdateInv,
           RefuseOp \/ MinusOne \/ AskFails \/ NoSuchField \/ AnswerFails
    PROVE  UpdateInv'
<1> USE CapAssumption
<1>1. c \in Buffers /\ known \subseteq Names /\ format \subseteq Names
      /\ open \in BOOLEAN /\ raised \in BOOLEAN /\ spoilt \subseteq Spoils
      /\ before \in 0 .. Cap
  BY DEF UpdateInv, UpdateTypeOK, Buffers
<1>2. Cell("other", 0) \in Cells
  BY CellTyped
<1>3. [c EXCEPT ![1] = Cell("other", 0)] \in Buffers
  BY <1>1, <1>2 DEF Buffers
<1>4. CASE RefuseOp
  BY <1>1, <1>4, RollBackSound DEF RefuseOp, AtOp
<1>5. CASE MinusOne
  BY <1>1, <1>5, RollBackSound DEF MinusOne
<1>6. CASE AskFails
  <2>1. /\ RollBack /\ pc = "op" /\ open' = FALSE /\ raised' = TRUE /\ known' = known
        /\ c' = [c EXCEPT ![1] = Cell("other", 0)]
        /\ spoilt' = OverKept
    BY <1>6 DEF AskFails, Unknown
  <2>2. ~(before > 0) => before = 0
    BY <1>1
  <2>3. /\ spoilt' \subseteq Spoils /\ spoilt \subseteq spoilt'
        /\ spoilt' = {} => spoilt = {} /\ before = 0
    BY <1>1, <2>1, <2>2 DEF OverKept, Spoils
  <2> QED
    BY <1>1, <1>3, <2>1, <2>3, RollBackSound
<1>7. CASE NoSuchField \/ AnswerFails
  <2>1. /\ RollBack /\ pc = "asked" /\ raised' = TRUE /\ spoilt' = spoilt
        /\ c' = [c EXCEPT ![1] = Cell("other", 0)]
    BY <1>7 DEF NoSuchField, AnswerFails, Answered
  <2>2. open' \in BOOLEAN /\ known' \subseteq Names
    BY <1>1, <1>7 DEF NoSuchField, AnswerFails, KnownNow
  <2>3. spoilt = {} => before = 0
    BY <2>1 DEF UpdateInv, Sound
  <2> QED
    BY <1>1, <1>3, <2>1, <2>2, <2>3, RollBackSound
<1> QED
  BY <1>4, <1>5, <1>6, <1>7

(***************************************************************************)
(* The invariant holds from the start and is kept by every step.           *)
(***************************************************************************)
LEMMA UpdateInitially == Init => UpdateInv
<1> SUFFICES ASSUME Init PROVE UpdateInv
  OBVIOUS
<1> USE CapAssumption
<1>1. UpdateTypeOK
  <2>1. 0 \in 0 .. Cap /\ Zero \in [1 .. Cap -> Cells]
    BY ZeroTyped DEF Buffers
  <2>2. wire \in [n : 0 .. Cap, c : [1 .. Cap -> Cells]]
    BY <2>1 DEF Init
  <2>3. known \subseteq Names /\ format \subseteq Names /\ args \in Lists /\ i \in Nat
    BY DEF Init
  <2> QED
    BY <2>1, <2>2, <2>3 DEF Init, UpdateTypeOK
<1>2. Room /\ Sound /\ Asked
  BY DEF Init, Room, Building, Sound, Asked
<1>3. LeftIsWhole /\ SentIsWhole /\ SentAsAsked
  BY TrainEmpty DEF Init, LeftIsWhole, SentIsWhole, SentAsAsked
<1> QED
  BY <1>1, <1>2, <1>3 DEF UpdateInv

LEMMA UpdateKept == UpdateInv /\ [Next]_vars => UpdateInv'
<1> SUFFICES ASSUME UpdateInv, [Next]_vars PROVE UpdateInv'
  OBVIOUS
<1>1. CASE UNCHANGED vars
  BY <1>1 DEF vars, buffer, call, UpdateInv, UpdateTypeOK, Room, Building, Sound,
              Begun, Listed, Complete, Asked, OpsUpTo, LeftIsWhole, SentIsWhole, SentAsAsked
<1>2. CASE \E list \in Lists : Begin(list)
  BY <1>2, BeginSound
<1>3. CASE WriteArray
  BY <1>3, WriteArraySound
<1>4. CASE WriteOp
  BY <1>4, WriteOpSound
<1>5. CASE PutLength
  BY <1>5, PutLengthSound
<1>6. CASE Send \/ SendFails
  BY <1>6, SendSound
<1>7. CASE Recv
  BY <1>7, RecvSound
<1>8. CASE AskField \/ FieldIsKnown
  BY <1>8, LookupSound
<1>9. CASE RefuseOp \/ MinusOne \/ AskFails \/ NoSuchField \/ AnswerFails
  BY <1>9, RefusalSound
<1>10. CASE Alter \/ Connect \/ OpsAreMap \/ OpIsNoMap \/ ReadNull
            \/ LengthIsNotPositive
  BY <1>10, OtherSound
<1> QED
  BY <1>1, <1>2, <1>3, <1>4, <1>5, <1>6, <1>7, <1>8, <1>9, <1>10 DEF Next

(***************************************************************************)
(* What holds of obj->value at every step of update and upsert.            *)
(***************************************************************************)
THEOREM UpdateInvariant == Spec => []UpdateInv
<1>1. Init => UpdateInv
  BY UpdateInitially
<1>2. UpdateInv /\ [Next]_vars => UpdateInv'
  BY UpdateKept
<1> QED
  BY <1>1, <1>2, PTL DEF Spec

(***************************************************************************)
(* The types of the variables of an update.                                *)
(***************************************************************************)
THEOREM UpdateTyped == Spec => []UpdateTypeOK
<1>1. UpdateInv => UpdateTypeOK
  BY DEF UpdateInv
<1> QED
  BY <1>1, UpdateInvariant, PTL

(***************************************************************************)
(* What update and upsert send is made of whole packets, as far as nothing *)
(* in Spoils has touched the buffer: no list that is a map, no op that is  *)
(* no map, no field found on the server, no lookup over a kept packet.     *)
(***************************************************************************)
THEOREM WholePacketsAreSent == Spec => []SentIsWhole
<1>1. UpdateInv => SentIsWhole
  BY DEF UpdateInv
<1> QED
  BY <1>1, UpdateInvariant, PTL

(***************************************************************************)
(* A packet that is sent has all the ops of its call, in their order, as   *)
(* far as nothing in Spoils has touched the buffer.                        *)
(***************************************************************************)
THEOREM AllOpsAreSent == Spec => []SentAsAsked
<1>1. UpdateInv => SentAsAsked
  BY DEF UpdateInv
<1> QED
  BY <1>1, UpdateInvariant, PTL

(***************************************************************************)
(* A call leaves whole packets in the buffer, or nothing: if an op was     *)
(* refused, a lookup in an otherwise empty buffer failed, or a write       *)
(* failed.  Nothing is said of a lookup that fails over a kept packet.     *)
(***************************************************************************)
THEOREM NoHalfIsLeft == Spec => []LeftIsWhole
<1>1. UpdateInv => LeftIsWhole
  BY DEF UpdateInv
<1> QED
  BY <1>1, UpdateInvariant, PTL
=============================================================================
