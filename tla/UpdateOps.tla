------------------------------- MODULE UpdateOps -------------------------------
(***************************************************************************)
(* Tarantool::update and ::upsert: the request is written into obj->value  *)
(* op by op behind what the buffer holds already, its length is put in     *)
(* front of it at the end, and a refused op takes all of it back.  The     *)
(* name of a field the schema does not know is looked up on the server     *)
(* half way through, in the same buffer.                                   *)
(*                                                                         *)
(* The space has been used before, so its number is known.  A name is      *)
(* known here when it is a prefix of a field's (strncmp).                  *)
(***************************************************************************)
EXTENDS Integers, Sequences, FiniteSets

CONSTANTS
    Ops,       \* the ops that are maps: the type of what is under a key
    Missing,   \* no element under this index of the list
    NotMap,    \* an op that is no map
    Lists,     \* the lists of ops the calls are given
    Names,     \* names of fields
    Own,       \* the name of the space itself
    Password,  \* the object logs in when it connects
    Cap        \* bound: cells of obj->value

Serializable == {"minus one", "long", "double", "string"}
Integral == {"minus one", "long"}

ASSUME CapAssumption == Cap \in Nat
ASSUME ListsAssumption ==
    Lists \subseteq [hash : BOOLEAN, at : Seq(Ops \union {Missing, NotMap})]

Size(list) == Len(list.at)

(***************************************************************************)
(* A cell of the buffer is one thing the encoders append: the five bytes   *)
(* of the length, the header with what precedes the ops, the head of the   *)
(* array of ops, the op of an index.                                       *)
(***************************************************************************)
Cell(is, of) == [is |-> is, of |-> of]
Cells == [is : {"zero", "size", "head", "array", "op", "other"}, of : Nat]
Zero == [i \in 1 .. Cap |-> Cell("zero", 0)]

VARIABLES
    pc,      \* what the call does next; "idle" between calls
    c,       \* obj->value->c
    len,     \* obj->value->len
    before,  \* before_len
    args,    \* the ops asked
    i,       \* key_index + 1
    known,   \* fields of the space in the schema of the object
    format,  \* fields of the space on the server
    open,    \* obj->stream
    wire,    \* cells of the packet of this call and what went before it
    raised,  \* the call raised an exception
    result,  \* what the last call returned
    spoilt   \* history: what may have broken the packets in obj->value

buffer == <<c, len, before>>
call == <<args, i>>
vars == <<pc, buffer, call, known, format, open, wire, raised, result, spoilt>>

(***************************************************************************)
(* What the code itself breaks a packet by: the ops are a map and no array *)
(* is written; an op that is no map is left out of the array that counts   *)
(* it; a field lookup succeeds where the packet stood; a field lookup was  *)
(* written over the packet of an earlier call that a failed write kept, of *)
(* which the rollback then restores the length and not the bytes.          *)
(***************************************************************************)
Spoils == {"map", "nomap", "found", "kept"}

(***************************************************************************)
(* The cells obj->value may have, and the places a call may be at.         *)
(***************************************************************************)
UpdateTypeOK ==
    /\ pc \in {"idle", "array", "op", "asked", "found", "length", "send", "recv",
               "aborted", "crashed"}
    /\ c \in [1 .. Cap -> Cells]
    /\ len \in 0 .. Cap
    /\ before \in 0 .. Cap
    /\ args \in Lists
    /\ i \in Nat
    /\ known \subseteq Names
    /\ format \subseteq Names
    /\ open \in BOOLEAN
    /\ wire \in [n : 0 .. Cap, c : [1 .. Cap -> Cells]]
    /\ raised \in BOOLEAN
    /\ result \in {"none", "data", "false"}
    /\ spoilt \subseteq Spoils

Init ==
    /\ pc = "idle"
    /\ c = Zero /\ len = 0 /\ before = 0
    /\ args \in Lists /\ i = 1
    /\ format \in SUBSET Names /\ known = format
    /\ open = TRUE
    /\ wire = [n |-> 0, c |-> Zero]
    /\ raised = FALSE /\ result = "none" /\ spoilt = {}

(***************************************************************************)
(* External: the space is altered on the server.                           *)
(***************************************************************************)
Alter ==
    /\ format' \in SUBSET Names
    /\ UNCHANGED <<pc, buffer, call, known, open, wire, raised, result, spoilt>>

(***************************************************************************)
(* TARANTOOL_CONNECT_ON_DEMAND, when it succeeds.  The batch of the login  *)
(* is built in obj->value and sent, and fills the schema anew; without a   *)
(* login the buffer and the schema stay as they were.                      *)
(***************************************************************************)
Connect ==
    /\ pc = "idle" /\ ~open
    /\ open' = TRUE
    /\ IF Password THEN c' = Zero /\ len' = 0 /\ known' = format
                   ELSE UNCHANGED <<c, len, known>>
    /\ UNCHANGED <<pc, before, call, format, wire, raised, result, spoilt>>

Add(cell) ==
    /\ c' = [c EXCEPT ![len + 1] = cell]
    /\ len' = len + 1

(***************************************************************************)
(* php_tp_encode_update, _upsert: the length comes first, as 0 for now.    *)
(* Bound: the packet fits.                                                 *)
(***************************************************************************)
Begin(list) ==
    /\ pc = "idle" /\ open
    /\ len + 3 + Size(list) <= Cap
    /\ args' = list /\ i' = 1
    /\ before' = len
    /\ c' = [c EXCEPT ![len + 1] = Cell("size", 0), ![len + 2] = Cell("head", 0)]
    /\ len' = len + 2
    /\ pc' = "array"
    /\ wire' = [n |-> 0, c |-> Zero]
    /\ raised' = FALSE /\ result' = "none"
    /\ spoilt' = IF len > 0 THEN spoilt ELSE {}
    /\ UNCHANGED <<known, format, open>>

(***************************************************************************)
(* tarantool_uwrite_ops.  A map of ops raises an exception and returns 0.  *)
(***************************************************************************)
WriteArray ==
    /\ pc = "array" /\ ~args.hash
    /\ Add(Cell("array", Size(args)))
    /\ pc' = "op"
    /\ UNCHANGED <<before, call, known, format, open, wire, raised, result, spoilt>>

OpsAreMap ==
    /\ pc = "array" /\ args.hash
    /\ pc' = "length"
    /\ raised' = TRUE /\ spoilt' = spoilt \union {"map"}
    /\ UNCHANGED <<buffer, call, known, format, open, wire, result>>

(***************************************************************************)
(* The checks of tarantool_uwrite_op, in their order: op and field; then   *)
(* the field is looked up; then what the op takes.  "+" stands for the     *)
(* five arithmetic ops, "=" for = and !, "?" for every character that is   *)
(* no op: it is refused behind the lookup, where Takes has no case for it. *)
(* The checks of length and list test offset instead, and read the type of *)
(* what is not there.                                                      *)
(***************************************************************************)
AtOp == pc \in {"op", "found"} /\ i <= Size(args)
Op == args.at[i]
Has(key, types) == key \in DOMAIN Op /\ Op[key] \in types
Fields == Cardinality(DOMAIN Op)

Headed ==
    /\ Op \notin {Missing, NotMap}
    /\ Has("op", {":", "+", "#", "=", "?"})
    /\ Has("field", {"minus one", "long"} \union Names)
Resolved == Headed /\ (pc = "found" \/ Op.field = "long" \/ Op.field \in known)

Spliced == Op.op = ":" /\ Fields = 5 /\ Has("offset", Integral)
ReadsNull ==
    /\ Spliced
    /\ \/ "length" \notin DOMAIN Op
       \/ Has("length", Integral) /\ "list" \notin DOMAIN Op
Takes ==
    \/ Spliced /\ Has("length", Integral) /\ Has("list", {"string"})
    \/ Op.op = "+" /\ Fields = 3 /\ Has("arg", Integral \union {"double"})
    \/ Op.op = "#" /\ Fields = 3 /\ Has("arg", Integral)
    \/ Op.op = "=" /\ Fields = 3 /\ Has("arg", Serializable)

WriteOp ==
    /\ AtOp /\ Resolved /\ Takes
    /\ Add(Cell("op", i))
    /\ i' = i + 1 /\ pc' = "op"
    /\ UNCHANGED <<before, args, known, format, open, wire, raised, result, spoilt>>

OpIsNoMap ==
    /\ pc = "op" /\ AtOp /\ Op = NotMap
    /\ i' = i + 1
    /\ raised' = TRUE /\ spoilt' = spoilt \union {"nomap"}
    /\ UNCHANGED <<pc, buffer, args, known, format, open, wire, result>>

(***************************************************************************)
(* Faulty variants: what is written is kept, or a cell more is taken back. *)
(***************************************************************************)
KeepWritten ==
    /\ len' = len
    /\ pc' = "idle" /\ result' = "false"
    /\ UNCHANGED <<before, call, format, wire>>

RollBackOneMore ==
    /\ len' = before - 1
    /\ pc' = "idle" /\ result' = "false"
    /\ UNCHANGED <<before, call, format, wire>>

(***************************************************************************)
(* "rollback all written changes", and RETURN_FALSE.                       *)
(***************************************************************************)
RollBack ==
    /\ len' = before
    /\ pc' = "idle" /\ result' = "false"
    /\ UNCHANGED <<before, call, format, wire>>

(***************************************************************************)
(* Faulty variant: an op that is refused is left out.                      *)
(***************************************************************************)
SkipOp ==
    /\ AtOp /\ Op \notin {Missing, NotMap} /\ Resolved /\ ~Takes /\ ~ReadsNull
    /\ i' = i + 1 /\ pc' = "op"
    /\ raised' = TRUE
    /\ UNCHANGED <<buffer, args, known, format, open, wire, result, spoilt>>

(***************************************************************************)
(* An op under no index of the list, or one that fails a check.            *)
(***************************************************************************)
RefuseOp ==
    /\ AtOp
    /\ \/ Op = Missing
       \/ Op # NotMap /\ ~Headed
       \/ Resolved /\ ~Takes /\ ~ReadsNull
    /\ RollBack
    /\ raised' = TRUE
    /\ UNCHANGED <<c, known, open, spoilt>>

(***************************************************************************)
(* get_fieldno_by_name returns a number as it is: -1 reads as FAILURE.     *)
(***************************************************************************)
MinusOne ==
    /\ pc = "op" /\ AtOp /\ Headed /\ Op.field = "minus one"
    /\ RollBack
    /\ UNCHANGED <<c, known, open, raised, spoilt>>

(***************************************************************************)
(* The process ends where the type of a null pointer is read.              *)
(***************************************************************************)
ReadNull ==
    /\ AtOp /\ Resolved /\ ReadsNull
    /\ pc' = "crashed"
    /\ UNCHANGED <<buffer, call, known, format, open, wire, raised, result, spoilt>>

(***************************************************************************)
(* get_fieldno_by_name, the name unknown: a select from _vspace is built   *)
(* at the start of the buffer and sent.  A write that fails closes the     *)
(* stream.                                                                 *)
(***************************************************************************)
Unknown == pc = "op" /\ AtOp /\ Headed /\ Op.field \in Names \ known
OverKept == IF before > 0 THEN spoilt \union {"kept"} ELSE spoilt

AskField ==
    /\ Unknown
    /\ c' = Zero /\ len' = 0
    /\ pc' = "asked"
    /\ spoilt' = OverKept
    /\ UNCHANGED <<before, call, known, format, open, wire, raised, result>>

AskFails ==
    /\ Unknown
    /\ c' = [c EXCEPT ![1] = Cell("other", 0)]
    /\ RollBack
    /\ open' = FALSE /\ raised' = TRUE
    /\ spoilt' = OverKept
    /\ UNCHANGED known

(***************************************************************************)
(* The answer is read to the start of the buffer, the length stays 0.  The *)
(* select asks for a space of the field's name: only if the space itself   *)
(* has that name does it bring its fields.                                 *)
(***************************************************************************)
Answered == pc = "asked" /\ c' = [c EXCEPT ![1] = Cell("other", 0)]
KnownNow == IF Op.field = Own THEN format ELSE known

FieldIsKnown ==
    /\ Answered
    /\ known' = KnownNow /\ Op.field \in known'
    /\ pc' = "found" /\ spoilt' = spoilt \union {"found"}
    /\ UNCHANGED <<len, before, call, format, open, wire, raised, result>>

NoSuchField ==
    /\ Answered
    /\ known' = KnownNow /\ Op.field \notin known'
    /\ RollBack
    /\ raised' = TRUE
    /\ UNCHANGED <<open, spoilt>>

AnswerFails ==
    /\ Answered
    /\ RollBack
    /\ open' \in BOOLEAN /\ raised' = TRUE
    /\ UNCHANGED <<known, spoilt>>

(***************************************************************************)
(* php_tp_reencode_length: the length goes to where the packet began.  If  *)
(* the packet is not there any more, it goes over whatever is; the assert  *)
(* ends the process if nothing but five bytes of it is left, which is what *)
(* the shortest op takes.                                                  *)
(***************************************************************************)
Written == pc = "length" \/ (pc = "op" /\ i > Size(args))
Gone == c[before + 1].is # "size"
Shortest ==
    /\ len = 1 /\ c[1].is = "op"
    /\ LET o == args.at[c[1].of] IN o.op # ":" /\ o.arg \in Integral \union {"string"}

(***************************************************************************)
(* Faulty variant: the length goes to the start of the buffer.             *)
(***************************************************************************)
PutLengthInFront ==
    /\ Written
    /\ c' = [c EXCEPT ![1] = Cell("size", len - 1)]
    /\ pc' = "send"
    /\ UNCHANGED <<len, before, call, known, format, open, wire, raised, result, spoilt>>

(***************************************************************************)
(* The length in front of the packet.                                      *)
(***************************************************************************)
PutLength ==
    /\ Written
    /\ c' = [c EXCEPT ![before + 1] =
                 IF Gone THEN Cell("other", 0) ELSE Cell("size", len - before - 1)]
    /\ pc' = "send"
    /\ UNCHANGED <<len, before, call, known, format, open, wire, raised, result, spoilt>>

LengthIsNotPositive ==
    /\ Written /\ Gone
    /\ before > 0 \/ Shortest
    /\ pc' = "aborted"
    /\ UNCHANGED <<buffer, call, known, format, open, wire, raised, result, spoilt>>

(***************************************************************************)
(* tarantool_stream_send: the whole buffer is sent and emptied, or the     *)
(* stream is closed and the buffer kept.                                   *)
(***************************************************************************)
Send ==
    /\ pc = "send"
    /\ wire' = [n |-> len, c |-> c]
    /\ c' = Zero /\ len' = 0
    /\ pc' = "recv"
    /\ UNCHANGED <<before, call, known, format, open, raised, result, spoilt>>

SendFails ==
    /\ pc = "send"
    /\ open' = FALSE
    /\ raised' = TRUE /\ result' = "false"
    /\ pc' = "idle"
    /\ UNCHANGED <<buffer, call, known, format, wire, spoilt>>

(***************************************************************************)
(* tarantool_step_recv, which empties the buffer on every path.            *)
(***************************************************************************)
Recv ==
    /\ pc = "recv"
    /\ pc' = "idle"
    /\ c' = Zero /\ len' = 0
    /\ \/ result' = "data" /\ UNCHANGED <<open, raised>>
       \/ result' = "false" /\ raised' = TRUE /\ open' \in BOOLEAN
    /\ UNCHANGED <<before, call, known, format, wire, spoilt>>

Next ==
    \/ Alter \/ Connect
    \/ \E list \in Lists : Begin(list)
    \/ WriteArray \/ OpsAreMap
    \/ WriteOp \/ OpIsNoMap \/ RefuseOp \/ MinusOne \/ ReadNull
    \/ AskField \/ AskFails \/ FieldIsKnown \/ NoSuchField \/ AnswerFails
    \/ PutLength \/ LengthIsNotPositive
    \/ Send \/ SendFails \/ Recv

Spec == Init /\ [][Next]_vars

(***************************************************************************)
(* f, up to n, holds whole packets one behind the other: each begins with  *)
(* its length, which leads to the next or to the end, and has the ops the  *)
(* head of its array announces.                                            *)
(***************************************************************************)
Packet(f, p) ==
    /\ f[p].of >= 2
    /\ f[p + 1].is = "head"
    /\ f[p + 2] = Cell("array", f[p].of - 2)
    /\ \A q \in p + 3 .. p + f[p].of : f[q].is = "op"

Train(f, n) ==
    LET starts == {p \in 1 .. n : f[p].is = "size"}
    IN  /\ n > 0 => 1 \in starts
        /\ \A p \in starts : /\ p + f[p].of + 1 \in starts \union {n + 1}
                             /\ Packet(f, p)

(***************************************************************************)
(* What is sent are whole packets: that of this call, behind those failed  *)
(* writes left in obj->value.  Said of what nothing in Spoils has touched: *)
(* there is no list that is a map and no op that is no map among the calls *)
(* since the buffer was last empty, no field that was found on the server, *)
(* and no lookup over the packet of another call.                          *)
(***************************************************************************)
SentIsWhole == spoilt = {} => Train(wire.c, wire.n)

(***************************************************************************)
(* The packet of a call has all the ops it was given, in their order: a    *)
(* call with an op that is refused sends none of them.  Not said, as long  *)
(* as the buffer is not empty again, where ops are a map, where an op is   *)
(* no map (it is refused and left out, and the others are sent), and where *)
(* a field was found on the server (the ops in front of it are lost).      *)
(***************************************************************************)
SentAsAsked ==
    wire.n > 0 /\ spoilt \subseteq {"kept"} =>
        /\ wire.n = before + 3 + Size(args)
        /\ \A k \in 1 .. Size(args) : wire.c[before + 3 + k] = Cell("op", k)

(***************************************************************************)
(* A call that ends leaves obj->value with whole packets or empty: after   *)
(* an op that was refused, a lookup that failed in a buffer that held      *)
(* nothing else, or a write that failed, no half of the request goes out   *)
(* with the next one.  Not said where Spoils applies: above all, a lookup  *)
(* that fails over the packet a failed write kept leaves before_len bytes  *)
(* of its own packet or response (tarantool.c:802-813, 1616).              *)
(***************************************************************************)
LeftIsWhole == pc = "idle" /\ spoilt = {} => Train(c, len)

(***************************************************************************)
(* README.md:495, "False and raises Exception in case of error": a call    *)
(* that returns false has raised an exception.                             *)
(***************************************************************************)
FalseRaises == result = "false" => raised
=============================================================================
