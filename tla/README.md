# tarantool-php, specified and checked

This directory holds TLA+ modules about the PHP extension in `src/` (the C code
under `src/src/`), the configurations TLC checks them in, and proofs TLAPS
checks. Paths below are relative to the repository root; `tarantool.c` stands for
`src/tarantool.c`, and so on.

## The system

The extension gives a PHP script a class `Tarantool`. An object of it holds one
TCP stream to a server and speaks the binary protocol over it: a packet per
request, a response per packet, matched by a number, the *sync*. PHP runs one
script at a time per process: a method blocks until it returns. So there is no
thread inside the extension to race with; what interleaves with a method is the
server, the network, and, between two methods, everything an earlier method left
behind in the object.

| Component | Code | State it keeps | Operations | What must be right |
|---|---|---|---|---|
| Connection | `tarantool.c:63-69,133-324,1210-1223`, `tarantool_network.c` | `obj->stream`, `obj->value` | connect, reconnect, connect on demand, EOF test, close of the stream, the retry loop | a request goes out on a stream the server reads; a stream is closed before it is forgotten; a method comes back |
| Authentication | `tarantool.c:1225-1311` | `login`, `passwd`, the schema | three pipelined requests, the loop over their responses | requests run as the user; nothing of the batch stays unread |
| Requests | `tarantool.c:407-512,1327-1658` | `obj->value`, `sync_counter` | ping, call, eval, select, insert, replace, delete, update, upsert | a method returns the server's answer to its own request, executed once |
| Name lookups | `tarantool.c:646-840` | the schema | space, index and field names to numbers | the number is the one the server gave; a name that exists is found |
| Schema cache | `tarantool_schema.c` | `space_hash`, an `index_hash` per space | add_spaces, add_indexes, get_*, flush, delete | what is cached was true since the last flush; no record freed twice or used after it was freed |
| Hash table | `third_party/mhash.h` | slots, dirty bits, the shadow table of a resize | put, find, del, resize in steps | a map, at every step of a resize; no search without an end |
| Update operations | `tarantool.c:842-992,1592-1658`, `tarantool_proto.c:132-286` | the packet under construction in `obj->value` | append an operation, roll back, fix the length | the server gets all the operations or the script an exception |
| Persistent objects | `tarantool.c:147-324,1110-1311`, `tarantool_network.c:26-118` | the process's persistent lists of connections and streams | construct, drop, connect, authenticate, close | a freed stream is not used again; no stream for two logins; requests run as the login given last |
| MessagePack, encoders, tp buffer | `tarantool_msgpack.c`, `tarantool_proto.c`, `tarantool_tp.c` | a growing buffer | size, pack, unpack, reserve | the size announced is the size written; what is packed unpacks |

`PROJECT.json` lists all components, those without a model too, and under
`hazards` what in this code is hard to test, each at its line.

How they interact: a method starts with `TARANTOOL_CONNECT_ON_DEMAND`, which may
run the connect loop, which may run the authentication batch, which flushes and
fills the schema. Then the lookups run, each a request and a response of its
own. Then the method's own packet is appended to `obj->value`, written, and the
response is read into the same `obj->value`. All of them share `obj->value`,
`obj->stream` and `sync_counter`; most of the hazards are about what one of them
leaves there for the next.

## Modules

| Module | What it is |
|---|---|
| `RemoteCall` | abstract: what a script may rely on when it calls the server through one object |
| `TarantoolConnection` | one object, its streams, and the server: connect, authenticate, lookup, request |
| `MCTarantoolConnection` | the scenarios TLC checks it in |
| `TarantoolConnectionProofs`, `TarantoolStreamProofs` | theorems about it: what holds for any object, and what a password adds |
| `SchemaCache` | the schema an object keeps, how methods fill and read it, the flush, and the server's definitions changing |
| `MCSchemaCache` | the scenarios TLC checks it in |
| `SchemaCacheProofs`, `SchemaTruthProofs` | theorems about it |
| `KeyMap` | abstract: what the schema expects of its tables |
| `MHash` | the hash table of `mhash.h`, with its resize in parts |
| `SchemaHash` | `MHash` composed with `schema_add_space` and `schema_space_free`, slot by slot |
| `MCSchemaHash` | the keys, hashes and sizes TLC checks them with |
| `MHashProofs`, `SchemaHashProofs` | theorems about the table under any client, and under the schema |
| `UpdateOps` | update and upsert: the packet under construction in `obj->value` |
| `MCUpdateOps` | the lists of ops TLC checks it with |
| `UpdateOpsProofs` | theorems about it |
| `PersistentPool` | persistent objects, the connections and streams kept under names, several scripts |
| `MCPersistentPool` | its instance for TLC |
| `PersistentPoolProofs` | theorems about it |

### TarantoolConnection

A method is split at every blocking operation and at every EOF test; `pc` says
where it is:

| `pc` | code |
|---|---|
| `idle` | between two methods |
| `demand` | `TARANTOOL_CONNECT_ON_DEMAND` |
| `open`, `greet` | the loop of `__tarantool_connect`: before `tntll_stream_open`, before the greeting is read |
| `authSend`, `auth` | `__tarantool_authenticate`: before its write, in its loop |
| `ready` | before a lookup or the method's own request is encoded and written |
| `lookup` | a lookup waits for its response |
| `recv` | `tarantool_step_recv` |

`stream`, `value`, `passwd`, `sync_counter` are the fields and the global of
that name; `left` is `count` of the connect loop and `batch_count` of the batch;
`cache` says which of the two names the script uses the schema holds. A packet
keeps its kind, its sync and (only for the properties) the call it was encoded
for. `value` holds packets in the order of the buffer; a write that is cut short
delivers a proper prefix, counted in packets.

Choices a reader should know:

- `RetryCount >= 1`: `__tarantool_connect` refuses smaller values before it
  touches any state (`tarantool.c:261`).
- A greeting that arrives after the code gave up on it, and the answers of a
  peer that is no Tarantool, are junk in front of the responses. `hello` follows
  them: `sent`/`bad` until something reads them as a response, then
  `junk`/`alien`. The characters of a greeting are positive fixints, so the first
  five bytes are a valid length and the body is no map.
- `authenticate` is called with a password. The kinds `call` and `insert` stand
  for all methods with no space name and with a space name; `select` resolves
  both names.
- The server executes what arrives in order, except that requests of the user
  may yield and be overtaken. It is external, with `Greet`, `Execute`, `Drop`.
- Persistent objects are not part of this module; they are `PersistentPool`.
- `close` is an action that changes nothing, as `tarantool.c:1321` does nothing.
- When the bound `MaxSock` is reached the server refuses connections, which the
  code sees as any refusal; no behaviour of the code is cut off.
- `Finished` lets a script that made all its calls stutter, so deadlock is
  checked: a blocked method that nothing can release would be reported.

### RemoteCall and the refinement

`RemoteCall` is the at-most-once promise: calls do not overlap, each runs at most
once, an answered call ran before the answer, a call whose write failed never
runs, any other failure leaves the script in doubt. `TarantoolConnection`
implements it (`ImplementsRemoteCall`, run `login`) *with a password*:
there the batch of the reconnect overwrites what a failed write left in
`obj->value`. Without one it does not: see finding `stale`.

### SchemaCache

The stream is left to `TarantoolConnection`; here every request is answered, and
the question is what the rows do to the schema. `space_hash` and `index_hash` are
the tables of `tarantool_schema.c`, `pc` is where the call is: `space`, `index`
before a lookup in the cache, `...Asked` and `...Served` before and after the
server executed the select, `batchHalf` between the two selects of the
authentication batch, `batchLearned` between their two responses, `flush` inside
the loop of `schema_space_free`.

- A row of `_vspace` is stored as two structs, under its name and under the four
  bytes of its number, which share the name, the format and the index table
  (`memcpy`, `tarantool_schema.c:536`). What they share is the *content* of the
  record, a value `[number, name, gen]`: `gen` counts responses, so the same row
  added again is another content. A row added over an older one takes over the
  key and leaks the older struct, as `mh_*_put` does.
- `NumKey` says which string of bytes a number is stored as; whether it is also
  a name (`Clash`) or not (`Plain`) is a matter of the constants. An index is
  stored under keys of the same two kinds.
- `FreeRecord` is one turn of the loop: the record at hand, the record under its
  content's number and the record under its content's name are deleted, the
  content is freed with its index table. The loop that frees the index table is
  part of this turn. The turns come in any order, and `FlushDone` needs the table
  to be empty: the flush is that of a table no resize moves, which visits every
  slot (`CalmFlushEmpties` of `SchemaHash`, proved). When a resize ends under
  the loop, records may stay: finding `hash_flush`.
- Lookups by name ask for the row of that name. A field that is not in the
  format asks for the *space* of that name (`tarantool.c:798`) and adds it;
  formats have no contents here, so whether a field is found is a choice.
- The server changes one row of a system space at a time, between any two steps.
  `seen` remembers what it had since the last flush, for the properties.

The symmetry of the names in `schema_flush` is sound: the keys
of numbers are no names there, and nothing else tells two names apart.

### KeyMap, MHash and SchemaHash

`KeyMap` is a map that carries out one request at a time. `MHash` is the table
that does: `h` and its shadow `s` are records of slots (`p`), dirty marks
and the counters `n_buckets`, `n_dirty` and `size`; `upper_bound` follows from
`n_buckets`. A request of the client
(`Ask`) is followed by the steps of `mh(put)` or `mh(del)`: a part of the resize
(`StartResize`, `GoOnResizing`, the sweep of `Batch` slots), then the table and
its shadow. The hash is a function from keys to numbers, the primes a
sequence, both parameters. `BatchKeepsUp` is what 256 slots a batch are enough for:
the first part is the comment of `mhash.h:481`, the second that the shadow
stays below its own upper bound. It holds of any two sizes of `__ac_prime_list`,
and of the sizes and the batch of the runs; TLC evaluates it, and that the sizes are
primes. A put that would need more than the last prime is
not asked (`MayAsk`): the list of the build ends beyond memory.

`SchemaHash` is its client: `schema_add_space` puts a record under a name and one
under a number, `schema_space_free` walks the slots of the table *as it is now*
with `pos`, deletes both records of the one at hand, and frees what they share.
`calm` remembers whether a resize was under way when the flush began.
`IsMap` says that `MHash` implements `KeyMap` with the map "what `mh_find` finds".

### UpdateOps

`obj->value` is a sequence of cells `c` of which `len` are in use; `before` is
`before_len`. A packet is a length, a header, the array header and one cell per
op. `AtOp` steps through the ops as `tarantool_uwrite_ops` does, `WriteOp`
appends, `RefuseOp`, `MinusOne`, `NoSuchField` and the failures of a lookup end the call
with `RollBack`. An op is a record of the keys it has and the kinds of their
values, `Missing` where there is none; `Takes` says which kinds an operator takes. A
field is a number or a name, and a name may be unknown to the client and
known to the server, which may alter the space at any time (`Alter`). A write
that fails keeps the buffer, as everywhere in this code.

`spoilt` is a history variable: the set of things that may have broken the packets
in the buffer since it was last empty. There are four, all of them steps of the
code and all listed under "Seen while modelling": a hash instead of a list of ops
(`map`), an op that is no map (`nomap`), a field that was found on the server
(`found`), and a lookup written over the packet a failed write kept, whether it
fails or not (`kept`). The actions go on in all cases, and the run reaches them all.
`SentIsWhole` and `LeftIsWhole` are stated for an empty `spoilt`, `SentAsAsked` also
after `kept`; with any cause more let in, TLC finds each of them violated.

### PersistentPool

A connection is a number, its fields `made` (host and port aside: `orig_login`
and the suffix of the constructor), `login`, `pid` (`persistent_id`) and
`stream`. `plist` and `pstreams` are the two kinds of entries of PHP's
`persistent_list`. `object` maps a variable of the script to its connection;
`Drop` is also the end of a script. `pc` is where a connect is: it can be
interrupted by nothing in the same process, but the server closes
streams between any two steps.

- `NameAgain` is the name a connect makes: `orig_login`, and `obj->suffix`, which
  is NULL. `Free` is what PHP does when a stream is freed: its name is gone, and
  whoever kept the pointer keeps it. Following such a pointer is undefined
  (`UseFreed`) and ends the model, so deadlock is not checked in its runs.
- A name is a sequence of pieces. `PidGen` puts login, bracket and suffix one behind
  the other as `pid_gen` does, without the closing bracket, which every caller cuts
  off (`len - 1`). Two logins have different names only if none contains a bracket:
  that is `LoginsAssumption`.
- One worker process, one server that accepts every login; an object always has
  a password; `authenticate` is called on an object that is connected. A
  greeting is missing only when the stream is dead or was greeted before.

## Runs

| Run | Properties | What it shows |
|---|---|---|
| `login` | `TypeOK` `Quiescent` `NamesAreFound` `NoSyncMismatch` `ImplementsRemoteCall` `RunsAuthenticated` `CallsAreBounded` `CallReturns` | with a password and every fault but a late greeting: at most once, nothing left over between calls, lookups read their own response, no request runs as guest, every method comes back, after a bounded number of steps |
| `guest` | `CallInv` `ReplyIsOwn` `AnswerMeansOneRun` `NoLeakedStream` | without a password, with packets sent twice and syncs that wrap: a method returns only its own reply, an answered request ran once, no stream is forgotten open |
| `schema_flush` | `SchemaTypeOK` `NoDanglingKeys` `CacheWasTrue` `NameMeansSpace` `LookupParses` `BatchIsComplete` | lookups, batches, flushes and DDL in any order: nothing freed stays in reach, what is cached was true since the last flush; lookups parse, also after a batch whose selects were cut off; a batch fails only if the definitions changed between its selects or exceed `Limit`, and otherwise leaves nothing to look up |
| `hash_schema` | `SchemaHashTypeOK` `ChainsWhole` `ShadowIsTrue` `NoSearchHangs` `FreedIsGone` `CalmFlushEmpties` `IsMap` | rows and flushes through resizes in parts: the table is a map, its shadow in step with it, no search has no end, a flush frees once and, when no resize runs into it, everything |
| `update` | `UpdateTypeOK` `SentIsWhole` `SentAsAsked` `LeftIsWhole` | lists of up to two ops, good and bad, with writes and lookups that fail: while nothing in `Spoils` has happened, whole packets with all the ops are sent, or none, and nothing half done is left |
| `pool` | `PoolTypeOK` `FreedByTwin` `LoginsKeptApart` `RunsAsLogin` | two objects over scripts, logins, persistent_ids, retries and closes on both sides: a pointer to a freed stream is left only by a connection of the same login or by an attempt that got no greeting; no stream for two logins; requests run as the login given last |
| `stale`, `late`, `schema_name`, `hash_flush`, `update_false`, `pool_suffix` | | the findings below |

**Bounds of the schema run.** Two spaces, two names, one index each, three
calls and two changes. A record goes
wrong by being overwritten half: a response takes over one key of a pair, the
other stays. That needs a lookup or batch, a change that moves a name to another
number, a second lookup, and a flush, which is three calls and two changes at
most; the old and the new owner of a name are two spaces. `Limit` is 1,
so that one space fits and the second is cut off; the build asks for 4096. A
name with the bytes of a number is part of `schema_name`
only: what holds with it all the same is proved (`NothingDangles`, `LookupsParse`).

**Bounds of the hash runs.** Sizes 3, 7 and 13 for the primes of the build, and
`Batch = 4` for its 256 slots: a resize of the table of 3 ends in the request that
starts it, one of 7 goes on for two, and the flush meets both. Seven keys
whose chains meet and wrap, four rows of which two share a number, added five times
in all, and two flushes: dirty slots fill up, nodes move in front of the walk, and the flush begins
before, in and after a resize.

**Bounds of the update runs.** Two ops: the first is written and the second
refused, or the first refused. Two field names, one of which is also that of
the space. `Cap = 9` cells hold a packet of two ops behind one that a failed write
left.

**Bounds of the pool runs.** Two connections and two streams, two logins, one
persistent_id and none, two attempts: two connections share a login or do
not, a connection's stream can be closed by the other, and a second attempt follows a
first that found a stream already greeted. One login is the beginning of the other,
which goes on with the persistent_id, so names that were told apart by less than the
bracket would meet. Three streams were checked once by
hand (3.2 million states) with the same result.

**Bounds of the connection runs.** Three calls and two or three streams.
The hazards are pairs: a call that leaves something (a packet in `value`, a reply
on a stream, a missing name) and a later call that meets it, with at most one
reconnect between them; three calls allow two such pairs to chain. `login` has
two attempts per connect and two streams, so the second attempt, or a reconnect,
is one more stream and not a third; `guest` has one attempt, three streams, all
methods. `SyncMod = 1000` is out of reach where wrapping is not the question;
`guest` sets it to 4: three calls with their lookups use more syncs than that, and
every fifth repeats the first. `NoLeakedStream` is checked with one attempt only,
the default of `tarantool.retry_count`: with two it does not hold, a late
greeting makes the second attempt overwrite `obj->stream`
(`tarantool.c:295-300`). `login` leaves late greetings out (`AllButLateGreetings`)
for the same reason: a stream whose greeting came after the code had given up on
it stays in `obj->stream`, and the next call runs on it as guest and takes the
greeting for its reply. That is finding `late`.

**Fairness.** `FairSpec` has weak fairness of the extension's own steps (PHP does
not stop inside a method), and of the server greeting and executing on a stream
that is alive. Nothing is assumed of the script or of faults. A read that waits
for a reply is released by the reply, by EOF, or, with the fault `timeout`, by
`request_timeout`.

## Findings

Six runs end with the violation of something the repository says of itself:

- `stale`: after a failed write, a guest object sends the old packet again in
  front of the next request, which then fails with a sync mismatch although the
  reconnect succeeded (`tarantool.c:139`).
- `late`: on a stream whose greeting came late, a query returns FALSE and raises
  nothing (`tarantool.c:442`).
- `schema_name`: a space whose name is four bytes long is mistaken for the space
  whose number these bytes are (`tarantool_schema.c:540`).
- `hash_flush`: a flush that meets the end of a resize goes on in the bigger table
  at the slot it was at in the smaller one; records that moved to lower
  slots stay in the schema (`tarantool_schema.c:168`, `mhash.h:456`). It takes
  more than 256 slots and a resize under way when the flush begins.
- `update_false`: an op on field -1, the last one, is taken for a failed lookup:
  update returns FALSE, raises nothing and sends nothing (`tarantool.c:867`).
- `pool_suffix`: two connections of one login with different persistent_ids get
  one stream, because a connect makes the stream's name without the suffix,
  which the constructor never stored (`tarantool.c:291`).

## Proofs

`TarantoolConnectionProofs` proves, for every number of calls and streams, every
retry count, every set of faults and methods, and every `SyncMod`:

- `TypeCorrect`, `CallInvariant`: `TypeOK` and `CallInv` are invariants;
- `ReplyOwn`: a method returns only the reply to its own request;
- `AnswerOneRun`: an answered request was executed exactly once;
- `CallBounded`: a call makes at most `4 * RetryCount + 16` blocking operations and
  EOF tests, whatever fails.

`ReplyIsOwn` and `AnswerMeansOneRun` are not inductive. Why they hold is `CallInv`: every sync
there is was handed out (`AllIssued`), so the sync a method takes is new to every
buffer, inbox and outbox; before its request is written there is no trace of the
call (`NotYetSent`); while `tarantool_step_recv` waits, the buffer is empty and
only the call's own request and reply carry the awaited sync (`Awaiting`), hence a
reply that matches is its own, and once it was answered nothing can execute it
again (`Answered`, `Settled`). `CallInv` is preserved action by action; the
lemmas group the actions by what they touch. TLC checks `CallInv` in run `guest`.
The assumptions are those named in `TarantoolConnection`.

`CallBounded` is the part of "every method comes back" that does not rest on
fairness. `StepsLeft` is what a call may still do: of the connect loop by `left`
and where `resume` says it goes on, of the batch by its responses, of the lookups by
`Missing`. Every step of the extension lowers it, no step of the server or the
network raises it. The invariant it needs, `Loops`, says that `resume` is set only
inside a connect or a batch, that `left` is within its loop, and that a lookup waits
only for a name that is missing; it is what keeps a call from connecting a third
time.

`TarantoolStreamProofs` proves what is on the object's stream, for the same
constants. All but `NoLeak` assume `Password`:

- `StreamInvariant`: `StreamInv` is inductive. A call that waits for `Due` replies
  has at most that many on a stream whose greeting it read, requests still
  to be executed included, and their syncs are the ones it waits for, each once;
- `StreamQuiet` (`Quiescent`): with nothing due the stream is empty;
- `LookupsFindNames` (`NamesAreFound`): a lookup compares no sync, but what it
  reads is its own response;
- `SyncsMatch`: `NoSyncMismatch` as long as `sync_counter` has not passed
  `SyncMod`. Beyond it the `unsigned long` counter and the `uint32_t` of the
  packet differ for ever, and every comparison fails;
- `NoLeak` (`NoLeakedStream`), for `RetryCount = 1`, the default, with or without
  a password. With two attempts it does not hold, as said above;
- `RequestsAuthenticated` (`RunsAuthenticated`): the invariant `Logins` says that a
  request of the script waits behind the login of its stream (`LoginFirst`) and
  that a stream in use had its login answered (`LoginTried`);
- `ObjectImplementsRemoteCall` (`ImplementsRemoteCall`): a step of the extension
  begins, skips or ends at most one call, a step of the server runs at most one
  request, and each is the step of `RemoteCall` the mapping says, or a stutter.
  It needs, beyond `StreamInv`, that at most one copy of a request can still be
  executed (`OneCopy`), that one which ran has none (`NotYetRun`), and that an
  outcome told the script agrees with what ran (`Told`).

`Password` is necessary. Without it what a failed write left in `obj->value` is sent
in front of the next request (finding `stale`): a request whose failure was
reported runs after all, and the stream carries a reply nobody awaits. With a
password the batch that follows every greeting overwrites the buffer
(`BufferSpent`). The last two theorems also assume that no greeting comes late:
a stream whose greeting came after the attempt gave up is used without a login
(finding `late`).

`SchemaCacheProofs` proves, for any spaces, indexes, names, bytes of numbers,
limit, and number of calls and changes:

- `CacheInvariant`: the inductive invariant `CacheInv`;
- `SchemaTypeCorrect`, `NothingDangles`, `LookupsParse`: the properties of that
  name follow from it.

`NoDanglingKeys` is not inductive: a flush could free a content that a third key
still leads to. `KeysInContent` excludes it (a key that leads to a content is the
content's own name or number, and both are deleted in the turn that frees it), and
`FreedIsOld` says that what comes later is never mistaken for what was freed.
`LookupParses` needs `Paired`: outside a flush the number of every record leads to
a record. `LastRow` justifies "the last row with a key stays" for sets of rows of
any size: names are distinct on the server (`RowsUnique`), so a key belongs to two
rows at most.

`SchemaTruthProofs` proves `CacheWasTrue` (`CacheTrue`) and `NameMeansSpace`
(`NamesMeanSpaces`) under the assumption `NoClash`, that no name is the bytes of a
number. Run `schema_name` shows what happens without it. The invariant
`TruthInv` says of every record and of every response on its way that its row was
true, and that an index table is older than the contents of later responses,
so no such content inherits one.
`BatchComplete` (`BatchIsComplete`) needs the same assumption. `BatchInv` follows
the batch from its first select on: while no definition changed, the rows on
their way are all the server has (`IsFiniteSet` of the numbers bounds them by `Limit`
only then), and a space added by the first response is still there when the second
adds its indexes.

`MHashProofs` proves, for every hash, list of sizes, batch, and order of requests
of any client:

- `HashInvariant`: `HashInv`, the types, `ChainsWhole`, `ShadowIsTrue` and what
  each step may count on (`Course`);
- `NodesAreReached`, `ShadowFollows`: the two parts by themselves;
- `TableIsMap`: the table implements `KeyMap`. A step of a resize is a stutter
  there, and the end of one exchanges the table for a shadow that holds
  the same nodes (`Swept` has reached every slot);
- `SearchesEnd` (`NoSearchHangs`): no search and no put goes round for ever, from
  the invariant `RoomInv`.

The argument of `SearchesEnd` is arithmetic. The sizes are primes, so the product
of an increment and a number of steps below the size is no multiple of it (`Euclid`),
and a search comes by every slot (`ProbesReachAll`): one slot neither in
use nor dirty ends every search (`CleanEnds`). That there is one is a matter of
counters: `n_dirty` bounds the slots touched (`Counted`), and is itself bounded by
`upper_bound`, or, while a resize goes on, exceeds it by at most one for every
batch swept (`Load`); what the shadow has and what is still to move exceed it by two at
most, since a node put in front of the sweep is counted when it is put and when it
is moved. The resize is then over before the table is full and before the
shadow needs a resize itself (`BatchKeepsUp`).

`SchemaHashProofs` proves `SchemaIsClient`, that the schema is such a client, and
from it and `SchemaInv`: `FreedNotReachable`, `SchemaTableIsMap`,
`SchemaSearchesEnd` and `CalmFlushIsComplete`. The last rests on a lemma that a table with no resize under way
keeps its nodes in their slots when one is deleted, so what the walk has passed is
empty and stays so.

`UpdateOpsProofs` proves, from the invariant `UpdateInv`, for any sequence of calls
and failures: `WholePacketsAreSent` and `NoHalfIsLeft`, from the moment the buffer
is empty until one of the four things of `Spoils` happens, and `AllOpsAreSent`, until
one of the three but `kept` does. They say nothing of what comes after, up to the
next empty buffer: there the code does send and leave broken packets. Up to there
`Sound` says what is in the buffer at every place of the call, behind any packets
failed writes left (`Begun`, `Listed`, `Complete`), and `Asked` what is there of the
ops whatever stands in front of them.

`PersistentPoolProofs` proves, for any number of objects, scripts, logins,
persistent_ids, attempts and streams, from `PoolInv`: `PoolTyped`, `LoginsApart`,
`RequestsRunAsLogin`, and with `FreedInv` besides: `OnlyTwinsDangle` (`FreedByTwin`).
That a name shows its login is a lemma about concatenated names (`LoginsTold`), and
needs `LoginsAssumption`. `RunsAsLogin` is not inductive. It rests on
`AliveInv`: every stream that is alive is held by a connection and found under the
name that connection makes again. Hence an attempt finds the stream it left
itself, a stream under a name is always somebody's, and a stream whose greeting
was already read when it is opened is shared, as is one that is taken without a
login (`LoginInv`). `FreedInv` adds that no name leads to a freed stream, and that a
second attempt which still has the stream of the first has one whose greeting nobody
read, or one of a connection with the same login (`Tried`).

Model-checked only: liveness (`CallReturns`, in run `login`). Liveness under
fairness and ENABLED are out of the prover's reach: `CallBounded` proves that a call
cannot go on for ever, and what TLC adds is that it is never stuck. Nothing here
needs induction over recursive definitions; where a proof needs a first step or a
least number, as the end of a search, it takes one by `LeastNat`.

## Seen while modelling

What the code does and no run is about:

- `close()` closes nothing (`tarantool.c:1321`); README.md:184 calls it an
  explicit close.
- After a connect that failed on the greeting, `connect()` returns TRUE on the
  stream left behind (`tarantool.c:300`, `1212`).
- An op that is no map, and a hash given instead of a list of ops, raise an
  exception, and the packet goes on with fewer ops than its header says
  (`tarantool.c:844-847`, `969-972`).
- A splice without `length` or `list` is read through a null pointer: the checks
  test `oparg` again (`tarantool.c:885-894`).
- The lookup of an op's field asks for the space of the field's name; when there
  is one, its request and response overwrite the packet, and the assertion of
  `php_tp_reencode_length` (`tarantool_proto.c:283`) can fail.
- When that lookup fails while `obj->value` still holds the packet of an earlier
  failed write, "rollback all written changes" (`tarantool.c:1615-1616`) sets the
  length back and not the bytes: `before_len` bytes of the lookup's request or
  response (`tarantool.c:802-813`) stay and go out in front of the next request.
  The properties of `UpdateOps` exclude it by name (cause `kept` of `spoilt`).
- With a persistent object and `tarantool.retry_count` of two or more, an attempt
  that fails leaves in `obj->stream` a stream PHP has freed. So does a close by
  another object on the same stream. `FreedByTwin` says there is no third way.
- A login with a bracket can have the name of another with a persistent_id: `u[x`
  alone and `u` with `x` (`tarantool.c:158-163`, `198`, `215`). `LoginsAssumption`
  leaves such logins out.
- The password is not part of the name a persistent connection is found by.

## Not modelled

- **MessagePack and the request encoders** (`tarantool_msgpack.c`, most of
  `tarantool_proto.c`): functions of one value, without state between calls. What
  could be stated is that the size announced is the size written, type by
  type; a model would repeat the two lines of each type. The encoder that does
  keep a packet open, update's, is `UpdateOps`.
- **The buffer of tp.h**: pointers that are set again in the function that moves
  them. What a script can observe of it, that a batch overwrites `obj->value`, is
  `AuthBatch` of `TarantoolConnection`.
- **Formats, parts of indexes, rows that do not parse**: data of the schema cache.
  `tarantool_schema_delete` is a flush after which nothing is left to look at.
- **Several servers and worker processes**: host and port are part of each
  name, and processes share no memory.
- **Iterator names, call options, types of replies**: tables of names.
- Start-up and INI registration, exception classes, message texts, `utils.c`, and
  the vendored msgpuck, sha1 and PMurHash.

What would come next: a composition of `PersistentPool` with
`TarantoolConnection`, where a reply that one script did not read meets the next.
