-------------------------- MODULE TarantoolConnection --------------------------
(***************************************************************************)
(* One non-persistent Tarantool object of a PHP script, its TCP streams,   *)
(* and the Tarantool server at their other end (src/src/tarantool.c,       *)
(* src/src/tarantool_network.c).                                           *)
(*                                                                         *)
(* PHP is single threaded: the script starts an API call, the extension    *)
(* blocks in it until it returns.  What interleaves with the call is the   *)
(* server and the network: greetings and replies that come late, a server  *)
(* that drops the stream, a write that fails half way.  A call is split at *)
(* every blocking operation (connect, write, read) and at every test of    *)
(* the stream for EOF; what happens between two of those is one action.    *)
(*                                                                         *)
(* A packet or a reply is a record: its kind, the sync number the          *)
(* extension put into it, and the number of the API call it was encoded    *)
(* for.  The call number is not on the wire: the code never reads it, the  *)
(* properties do.                                                          *)
(***************************************************************************)
EXTENDS Integers, Sequences, FiniteSets

CONSTANTS
    Kinds,       \* the API methods the script calls, a subset of AllKinds
    Password,    \* whether __construct was given a password
    RetryCount,  \* tarantool.retry_count
    Faults,      \* what may go wrong, a subset of AllFaults
    SyncMod,     \* values of the uint32_t sync of a packet (2^32 in the build)
    MaxCalls,    \* bound: API calls the script makes
    MaxSock      \* bound: TCP connections the server accepts

AllKinds == {"connect", "reconnect", "authenticate", "flush_schema", "close",
             "call", "insert", "select"}

(***************************************************************************)
(* "refuse": a connect(2) fails; "greeting": the greeting is not received  *)
(* in time; "alien": the peer answers with something else than a greeting; *)
(* "drop": the server closes the stream; "write": a write is cut short;    *)
(* "timeout": a reply is not received in time; "error": the server refuses *)
(* a request.                                                              *)
(***************************************************************************)
AllFaults == {"refuse", "greeting", "alien", "drop", "write", "timeout", "error"}

ASSUME KindsAssumption == Kinds \subseteq AllKinds
ASSUME FaultsAssumption == Faults \subseteq AllFaults
ASSUME PasswordAssumption == Password \in BOOLEAN
ASSUME RetryCountAssumption == RetryCount \in Nat \ {0}
ASSUME SyncModAssumption == SyncMod \in Nat \ {0}
ASSUME BoundsAssumption == MaxCalls \in Nat /\ MaxSock \in Nat

Calls == 1 .. MaxCalls
Sock == 1 .. MaxSock

VARIABLES
    \* the API call in progress
    call,          \* number of API calls started
    kind,          \* the method of the last one
    pc,            \* where it is blocked
    left,          \* `count` of the connect loop, `batch_count` of the batch
    resume,        \* where a successful connect or authenticate goes on
    batch,         \* `status` of __tarantool_authenticate
    mySync,        \* the sync the code will compare a reply with
    \* tarantool_connection
    stream,        \* obj->stream, 0 for NULL
    value,         \* obj->value up to its len: the packets it holds
    cache,         \* obj->schema: which definitions it holds
    passwd,        \* obj->passwd # NULL
    sync_counter,  \* TARANTOOL_G(sync_counter)
    \* the TCP connections and the server
    nextSock,      \* the next connection
    clientOpen,    \* connections whose client end is open
    alive,         \* connections whose server end is open
    hello,         \* what became of the greeting
    inbox,         \* requests sent and not yet executed
    outbox,        \* replies sent and not yet read
    session,       \* the user the server executes requests as: guest, the
                   \* login, or guest after a login it refused
    \* what the script and the server saw
    outcome,       \* how each API call ended
    answer,        \* the API call whose reply each call returned, 0 if none
    runs           \* how often the server executed each call's own request

callVars == <<call, kind, pc, left, resume, batch, mySync>>
connVars == <<stream, value, cache, passwd, sync_counter>>
netVars == <<nextSock, clientOpen, alive, hello, inbox, outbox, session>>
seenVars == <<outcome, answer, runs>>
vars == <<callVars, connVars, netVars, seenVars>>

PacketKinds == {"auth", "spaces", "indexes", "space", "index", "user"}
Packet == [kind : PacketKinds, sync : Nat, call : Calls]
Reply == [kind : PacketKinds, sync : Nat, call : Calls, code : {"ok", "error"}]
Names == {"space", "index"}

(***************************************************************************)
(* The exceptions a call can end with: "send" and "io" are the             *)
(* TarantoolIOExceptions of a write and of a connect or a read, "parse"    *)
(* the TarantoolParsingException, "client" the TarantoolClientError,       *)
(* "sync" the exception of a reply with another request's sync,            *)
(* "undefined" the exception of a name the schema does not hold.           *)
(* "silent" is FALSE without an exception.                                 *)
(***************************************************************************)
Failures == {"send", "io", "parse", "client", "sync", "undefined", "silent"}
Outcomes == {"none", "ok"} \union Failures
Places == {"idle", "demand", "open", "greet", "authSend", "auth", "ready",
           "lookup", "recv"}
Greetings == {"none", "sent", "bad", "read", "junk", "alien"}

(***************************************************************************)
(* The counters stay in their bounds: attempts, responses of the batch,    *)
(* calls and streams.                                                      *)
(***************************************************************************)
TypeOK ==
    /\ call \in 0 .. MaxCalls
    /\ kind \in AllKinds \union {"none"}
    /\ pc \in Places
    /\ left \in Nat
    /\ resume \in {"return", "demand", "ready"}
    /\ batch \in {"ok", "parse", "client"}
    /\ mySync \in Nat
    /\ stream \in 0 .. MaxSock
    /\ value \in Seq(Packet)
    /\ cache \subseteq Names
    /\ passwd \in BOOLEAN
    /\ sync_counter \in Nat
    /\ nextSock \in 1 .. MaxSock + 1
    /\ clientOpen \subseteq Sock
    /\ alive \in [Sock -> BOOLEAN]
    /\ hello \in [Sock -> Greetings]
    /\ inbox \in [Sock -> SUBSET Packet]
    /\ outbox \in [Sock -> Seq(Reply)]
    /\ session \in [Sock -> {"guest", "login", "refused"}]
    /\ outcome \in [Calls -> Outcomes]
    /\ answer \in [Calls -> 0 .. MaxCalls]
    /\ runs \in [Calls -> Nat]

(***************************************************************************)
(* __construct: no stream yet (it is opened on demand), an empty buffer    *)
(* and an empty schema.                                                    *)
(***************************************************************************)
Init ==
    /\ call = 0 /\ kind = "none" /\ pc = "idle" /\ left = 0
    /\ resume = "return" /\ batch = "ok" /\ mySync = 0
    /\ stream = 0 /\ value = <<>> /\ cache = {}
    /\ passwd = Password /\ sync_counter = 0
    /\ nextSock = 1 /\ clientOpen = {}
    /\ alive = [s \in Sock |-> FALSE]
    /\ hello = [s \in Sock |-> "none"]
    /\ inbox = [s \in Sock |-> {}]
    /\ outbox = [s \in Sock |-> <<>>]
    /\ session = [s \in Sock |-> "guest"]
    /\ outcome = [c \in Calls |-> "none"]
    /\ answer = [c \in Calls |-> 0]
    /\ runs = [c \in Calls |-> 0]
-----------------------------------------------------------------------------
(***************************************************************************)
(* What the client can observe of a stream.                                *)
(***************************************************************************)

(***************************************************************************)
(* A reply can be read from s, and it starts where the reader thinks.      *)
(***************************************************************************)
HasReply(s) == hello[s] = "read" /\ outbox[s] # <<>>

(***************************************************************************)
(* What comes next on s are the characters of a greeting nobody read, or   *)
(* of another protocol.  Each of them is a valid MessagePack integer: the  *)
(* reader takes the first for a package length, and finds no map after it. *)
(***************************************************************************)
HasJunk(s) == hello[s] \in {"sent", "bad", "junk", "alien"}

(***************************************************************************)
(* tntll_stream_read2 comes back with fewer bytes than it was asked for:   *)
(* the peer closed the stream, or the request timeout passed.  The first   *)
(* junk read from an unread greeting always finds enough bytes.            *)
(***************************************************************************)
ShortRead(s) ==
    /\ ~ HasReply(s)
    /\ hello[s] \notin {"sent", "bad"}
    /\ ~ alive[s] \/ "timeout" \in Faults \/ hello[s] \in {"junk", "alien"}

(***************************************************************************)
(* php_stream_eof: the peer closed the stream and nothing is left to read. *)
(* How much of a junk stream is left depends on the lengths read from it.  *)
(***************************************************************************)
EofPossible(s) == ~ alive[s] /\ outbox[s] = <<>> /\ hello[s] \notin {"sent", "bad"}
NoEofPossible(s) == alive[s] \/ outbox[s] # <<>> \/ hello[s] \notin {"none", "read"}

(***************************************************************************)
(* Faulty variant: obj->stream is forgotten and the stream stays open.     *)
(***************************************************************************)
ForgetStream == stream' = 0 /\ UNCHANGED <<clientOpen, outbox>>

(***************************************************************************)
(* tarantool_stream_close.  What the server has not executed yet stays in  *)
(* its inbox; what the client has not read is discarded.                   *)
(***************************************************************************)
CloseStream ==
    /\ stream' = 0
    /\ clientOpen' = clientOpen \ {stream}
    /\ outbox' = [s \in Sock |-> IF s = stream THEN <<>> ELSE outbox[s]]

(***************************************************************************)
(* The call returns: with the exception or the value the script sees, and  *)
(* with the API call whose reply that value is.                            *)
(***************************************************************************)
ReturnFrom(c, how, own) ==
    /\ pc' = "idle"
    /\ outcome' = [outcome EXCEPT ![c] = how]
    /\ answer' = [answer EXCEPT ![c] = own]
    /\ left' = 0 /\ resume' = "return" /\ batch' = "ok" /\ mySync' = 0
    /\ UNCHANGED runs

Return(how) == ReturnFrom(call, how, 0) /\ UNCHANGED <<call, kind>>

(***************************************************************************)
(* Writing `buf`, the new contents of obj->value (tarantool_stream_send).  *)
(* On success the packets are with the peer and the buffer is emptied; a   *)
(* peer that is gone loses them.  A write that is cut short has delivered  *)
(* a proper prefix; the stream is closed, and the buffer keeps all of it.  *)
(***************************************************************************)
Deliver(buf, n) ==
    inbox' = [s \in Sock |-> IF s = stream /\ alive[s]
                             THEN inbox[s] \union {buf[i] : i \in 1 .. n}
                             ELSE inbox[s]]

(***************************************************************************)
(* Faulty variant: the packets stay in the buffer after a good write too.  *)
(***************************************************************************)
SendKeepsBuffer(buf) ==
    /\ Deliver(buf, Len(buf))
    /\ value' = buf
    /\ UNCHANGED <<stream, clientOpen, outbox>>

SendSucceeds(buf) ==
    /\ Deliver(buf, Len(buf))
    /\ value' = <<>>
    /\ UNCHANGED <<stream, clientOpen, outbox>>

SendFails(buf) ==
    /\ "write" \in Faults \/ ~ alive[stream]
    /\ \E n \in 0 .. Len(buf) - 1 : Deliver(buf, n)
    /\ value' = buf
    /\ CloseStream
    /\ Return("send")

(***************************************************************************)
(* Faulty variant: the exception is raised and the stream is kept.         *)
(***************************************************************************)
FailReadKeepsStream ==
    /\ ShortRead(stream)
    /\ UNCHANGED <<stream, clientOpen, outbox>>
    /\ Return("io")

(***************************************************************************)
(* tarantool_stream_read fails: an exception, and the stream is closed.    *)
(***************************************************************************)
FailRead ==
    /\ ShortRead(stream)
    /\ CloseStream
    /\ Return("io")

(***************************************************************************)
(* The next reply has been read off the stream.                            *)
(***************************************************************************)
ConsumeReply == outbox' = [s \in Sock |-> IF s = stream THEN Tail(outbox[s]) ELSE outbox[s]]

(***************************************************************************)
(* A lookup or a batch takes the characters of an unread greeting for a    *)
(* response; the rest of them stays in front of what the server sends.     *)
(***************************************************************************)
ConsumeJunk == hello' = [hello EXCEPT ![stream] =
                            IF @ = "sent" THEN "junk"
                            ELSE IF @ = "bad" THEN "alien" ELSE @]

-----------------------------------------------------------------------------
(***************************************************************************)
(* __tarantool_connect                                                     *)
(***************************************************************************)
EnterConnect(next) ==
    /\ pc' = "open"
    /\ left' = RetryCount
    /\ resume' = next

(***************************************************************************)
(* A call that needs the stream goes on after a connect or a batch, the    *)
(* methods connect, reconnect and authenticate return.                     *)
(***************************************************************************)
Proceed ==
    IF resume = "return"
    THEN Return("ok")
    ELSE /\ pc' = resume
         /\ left' = 0 /\ resume' = "return" /\ batch' = "ok" /\ mySync' = 0
         /\ UNCHANGED <<call, kind, seenVars>>

(***************************************************************************)
(* tntll_stream_open succeeds: obj->stream is overwritten, whatever an     *)
(* earlier attempt left there.                                             *)
(***************************************************************************)
OpenSucceeds ==
    /\ pc = "open"
    /\ nextSock <= MaxSock
    /\ pc' = "greet"
    /\ left' = left - 1
    /\ stream' = nextSock
    /\ nextSock' = nextSock + 1
    /\ clientOpen' = clientOpen \union {nextSock}
    /\ alive' = [alive EXCEPT ![nextSock] = TRUE]
    /\ UNCHANGED <<call, kind, resume, batch, mySync, value, cache, passwd,
                   sync_counter, hello, inbox, outbox, session, seenVars>>

(***************************************************************************)
(* Faulty variants of NextAttempt: `count >= 0`, and no `--count`.         *)
(***************************************************************************)
NextAttemptLate(n) ==
    IF n < 0
    THEN Return("io")
    ELSE /\ pc' = "open"
         /\ left' = n
         /\ UNCHANGED <<call, kind, resume, batch, mySync, seenVars>>

NextAttemptForever(n) ==
    /\ pc' = "open"
    /\ left' = RetryCount
    /\ UNCHANGED <<call, kind, resume, batch, mySync, seenVars>>

(***************************************************************************)
(* An attempt failed: the next one, or the exception when `count` is 0.    *)
(***************************************************************************)
NextAttempt(n) ==
    IF n = 0
    THEN Return("io")
    ELSE /\ pc' = "open"
         /\ left' = n
         /\ UNCHANGED <<call, kind, resume, batch, mySync, seenVars>>

OpenFails ==
    /\ pc = "open"
    /\ "refuse" \in Faults \/ nextSock > MaxSock
    /\ NextAttempt(left - 1)
    /\ UNCHANGED <<connVars, netVars>>

(***************************************************************************)
(* Faulty variant: credentials are sent on the object's first stream only. *)
(***************************************************************************)
GreetingReadAuthOnce ==
    /\ pc = "greet"
    /\ hello[stream] = "sent"
    /\ hello' = [hello EXCEPT ![stream] = "read"]
    /\ IF passwd /\ stream = 1
       THEN /\ pc' = "authSend"
            /\ UNCHANGED <<call, kind, left, resume, batch, mySync, seenVars>>
       ELSE Proceed
    /\ UNCHANGED <<connVars, nextSock, clientOpen, alive, inbox, outbox, session>>

(***************************************************************************)
(* The 128 bytes of the greeting are there and say "Tarantool".            *)
(***************************************************************************)
GreetingRead ==
    /\ pc = "greet"
    /\ hello[stream] = "sent"
    /\ hello' = [hello EXCEPT ![stream] = "read"]
    /\ IF passwd
       THEN /\ pc' = "authSend"
            /\ UNCHANGED <<call, kind, left, resume, batch, mySync, seenVars>>
       ELSE Proceed
    /\ UNCHANGED <<connVars, nextSock, clientOpen, alive, inbox, outbox, session>>

(***************************************************************************)
(* Fewer than 128 bytes arrived: `continue`, and obj->stream stays set.    *)
(***************************************************************************)
GreetingShort ==
    /\ pc = "greet"
    /\ hello[stream] = "none"
    /\ ~ alive[stream] \/ "greeting" \in Faults
    /\ NextAttempt(left)
    /\ UNCHANGED <<connVars, netVars>>

(***************************************************************************)
(* "Bad greetings": `goto ioexception`, and obj->stream stays set.         *)
(***************************************************************************)
GreetingBad ==
    /\ pc = "greet"
    /\ hello[stream] = "bad"
    /\ hello' = [hello EXCEPT ![stream] = "alien"]
    /\ Return("io")
    /\ UNCHANGED <<connVars, nextSock, clientOpen, alive, inbox, outbox, session>>

Connect == OpenSucceeds \/ OpenFails \/ GreetingRead \/ GreetingShort \/ GreetingBad

-----------------------------------------------------------------------------
(***************************************************************************)
(* __tarantool_authenticate: the schema is flushed and three requests are  *)
(* encoded over whatever the buffer held.                                  *)
(***************************************************************************)
Fresh(k, n) == [kind |-> k, sync |-> sync_counter + n, call |-> call]
BatchSize == 3

(***************************************************************************)
(* Faulty variant: the batch is appended to what the buffer held.          *)
(***************************************************************************)
AuthBatchAppended == value \o <<Fresh("auth", 0), Fresh("spaces", 1), Fresh("indexes", 2)>>

AuthBatch == <<Fresh("auth", 0), Fresh("spaces", 1), Fresh("indexes", 2)>>

AuthSend ==
    /\ pc = "authSend" \/ (pc = "ready" /\ kind = "authenticate")
    /\ cache' = {}
    /\ sync_counter' = sync_counter + BatchSize
    /\ \/ /\ SendSucceeds(AuthBatch)
          /\ pc' = "auth"
          /\ left' = BatchSize
          /\ mySync' = sync_counter
          /\ batch' = "ok"
          /\ UNCHANGED <<call, kind, resume, seenVars>>
       \/ SendFails(AuthBatch)
    /\ UNCHANGED <<passwd, nextSock, alive, hello, session>>

(***************************************************************************)
(* A response of the batch is the answer to one of its two selects when it *)
(* carries that select's sync.                                             *)
(***************************************************************************)
AnswersBatch(r, n) == r.sync % SyncMod = (mySync + n) % SyncMod

(***************************************************************************)
(* `status` after response r.  A row of _index whose space the schema does *)
(* not hold makes tarantool_schema_add_indexes fail.                       *)
(***************************************************************************)
BatchStatus(r) ==
    IF batch # "ok" THEN batch
    ELSE IF r.code = "error" THEN "client"
    ELSE IF AnswersBatch(r, 2) /\ "space" \notin cache THEN "parse"
    ELSE "ok"

Learned(r) ==
    IF batch # "ok" \/ r.code = "error" THEN {}
    ELSE IF AnswersBatch(r, 1) THEN {"space"}
    ELSE IF AnswersBatch(r, 2) /\ "space" \in cache THEN {"index"}
    ELSE {}

(***************************************************************************)
(* Faulty variant: the first response that failed ends the batch.          *)
(***************************************************************************)
NextResponseEager(status) ==
    IF left > 1 /\ status = "ok"
    THEN /\ left' = left - 1
         /\ batch' = status
         /\ UNCHANGED <<call, kind, pc, resume, mySync, seenVars>>
    ELSE IF status = "ok" THEN Proceed ELSE Return(status)

(***************************************************************************)
(* All the responses are read, also after one that failed.                 *)
(***************************************************************************)
NextResponse(status) ==
    IF left > 1
    THEN /\ left' = left - 1
         /\ batch' = status
         /\ UNCHANGED <<call, kind, pc, resume, mySync, seenVars>>
    ELSE IF status = "ok" THEN Proceed ELSE Return(status)

AuthReply ==
    /\ pc = "auth"
    /\ HasReply(stream)
    /\ LET r == Head(outbox[stream])
       IN  /\ cache' = cache \union Learned(r)
           /\ NextResponse(BatchStatus(r))
    /\ ConsumeReply
    /\ UNCHANGED <<stream, value, passwd, sync_counter, nextSock, clientOpen,
                   alive, hello, inbox, session>>

AuthJunk ==
    /\ pc = "auth"
    /\ HasJunk(stream)
    /\ ConsumeJunk
    /\ NextResponse(IF batch = "ok" THEN "parse" ELSE batch)
    /\ UNCHANGED <<connVars, nextSock, clientOpen, alive, inbox, outbox, session>>

AuthShort ==
    /\ pc = "auth"
    /\ FailRead
    /\ UNCHANGED <<value, cache, passwd, sync_counter, nextSock, alive, hello,
                   inbox, session>>

Authenticate == AuthSend \/ AuthReply \/ AuthJunk \/ AuthShort

-----------------------------------------------------------------------------
(***************************************************************************)
(* TARANTOOL_CONNECT_ON_DEMAND                                             *)
(***************************************************************************)
DemandConnect ==
    /\ pc = "demand"
    /\ stream = 0
    /\ EnterConnect("demand")
    /\ UNCHANGED <<call, kind, batch, mySync, connVars, netVars, seenVars>>

DemandReconnect ==
    /\ pc = "demand"
    /\ stream # 0
    /\ EofPossible(stream)
    /\ CloseStream
    /\ EnterConnect("ready")
    /\ UNCHANGED <<call, kind, batch, mySync, value, cache, passwd, sync_counter,
                   nextSock, alive, hello, inbox, session, seenVars>>

DemandMet ==
    /\ pc = "demand"
    /\ stream # 0
    /\ NoEofPossible(stream)
    /\ pc' = "ready"
    /\ UNCHANGED <<call, kind, left, resume, batch, mySync, connVars, netVars, seenVars>>

Demand == DemandConnect \/ DemandReconnect \/ DemandMet

-----------------------------------------------------------------------------
(***************************************************************************)
(* get_spaceno_by_name and get_indexno_by_name: the names a method has to  *)
(* resolve, the space first; "insert" stands for the methods with a space  *)
(* and no index.                                                           *)
(***************************************************************************)
NamesOf(k) == IF k = "select" THEN Names ELSE IF k = "insert" THEN {"space"} ELSE {}
Missing == NamesOf(kind) \ cache
Wanted == IF "space" \in Missing THEN "space" ELSE "index"

(***************************************************************************)
(* A lookup is encoded over whatever the buffer held.                      *)
(***************************************************************************)
LookupBuffer == <<Fresh(Wanted, 0)>>

LookupSend ==
    /\ pc = "ready"
    /\ kind # "authenticate"
    /\ Missing # {}
    /\ sync_counter' = sync_counter + 1
    /\ \/ /\ SendSucceeds(LookupBuffer)
          /\ pc' = "lookup"
          /\ mySync' = sync_counter
          /\ UNCHANGED <<call, kind, left, resume, batch, seenVars>>
       \/ SendFails(LookupBuffer)
    /\ UNCHANGED <<cache, passwd, nextSock, alive, hello, session>>

(***************************************************************************)
(* The sync of the response is not looked at: its rows are added to the    *)
(* schema, and the name is looked up once more.  Only the answer to this   *)
(* lookup has the name in it.                                              *)
(***************************************************************************)
LookupReply ==
    /\ pc = "lookup"
    /\ HasReply(stream)
    /\ LET r == Head(outbox[stream])
       IN  \/ /\ r.code = "ok" /\ r.sync = mySync
              /\ cache' = cache \union {Wanted}
              /\ pc' = "ready"
              /\ mySync' = 0
              /\ UNCHANGED <<call, kind, left, resume, batch, seenVars>>
           \/ /\ r.code = "ok" /\ r.sync # mySync
              /\ Return("undefined")
              /\ UNCHANGED cache
           \/ /\ r.code = "error"
              /\ Return("client")
              /\ UNCHANGED cache
    /\ ConsumeReply
    /\ UNCHANGED <<stream, value, passwd, sync_counter, nextSock, clientOpen,
                   alive, hello, inbox, session>>

(***************************************************************************)
(* php_tp_response fails: an exception, and the stream stays open.         *)
(***************************************************************************)
LookupJunk ==
    /\ pc = "lookup"
    /\ HasJunk(stream)
    /\ ConsumeJunk
    /\ Return("parse")
    /\ UNCHANGED <<connVars, nextSock, clientOpen, alive, inbox, outbox, session>>

LookupShort ==
    /\ pc = "lookup"
    /\ FailRead
    /\ UNCHANGED <<value, cache, passwd, sync_counter, nextSock, alive, hello,
                   inbox, session>>

Lookup == LookupSend \/ LookupReply \/ LookupJunk \/ LookupShort

-----------------------------------------------------------------------------
(***************************************************************************)
(* The request of the method itself: php_tp_encode_* appends it to what    *)
(* the buffer holds.                                                       *)
(***************************************************************************)
RequestBuffer == Append(value, Fresh("user", 0))

RequestSend ==
    /\ pc = "ready"
    /\ kind # "authenticate"
    /\ Missing = {}
    /\ sync_counter' = sync_counter + 1
    /\ \/ /\ SendSucceeds(RequestBuffer)
          /\ pc' = "recv"
          /\ mySync' = sync_counter
          /\ UNCHANGED <<call, kind, left, resume, batch, seenVars>>
       \/ SendFails(RequestBuffer)
    /\ UNCHANGED <<cache, passwd, nextSock, alive, hello, session>>

(***************************************************************************)
(* Faulty variant: a comparison of the low bits only.                      *)
(***************************************************************************)
SyncMatchesLowBits(r) == r.sync % SyncMod = mySync % SyncMod

(***************************************************************************)
(* tarantool_step_recv compares the uint32_t sync of the reply with the    *)
(* unsigned long it took from the counter.                                 *)
(***************************************************************************)
SyncMatches(r) == r.sync % SyncMod = mySync

RecvReply ==
    /\ pc = "recv"
    /\ HasReply(stream)
    /\ LET r == Head(outbox[stream])
       IN  \/ /\ SyncMatches(r) /\ r.code = "ok"
              /\ ReturnFrom(call, "ok", r.call)
              /\ ConsumeReply
              /\ UNCHANGED <<call, kind, stream, clientOpen>>
           \/ /\ SyncMatches(r) /\ r.code = "error"
              /\ Return("client")
              /\ ConsumeReply
              /\ UNCHANGED <<stream, clientOpen>>
           \/ /\ ~ SyncMatches(r)
              /\ Return("sync")
              /\ CloseStream
    /\ UNCHANGED <<value, cache, passwd, sync_counter, nextSock, alive, hello,
                   inbox, session>>

(***************************************************************************)
(* The header is no map: no exception.  Junk further into a greeting may   *)
(* also fail php_mp_check, which raises one.                               *)
(***************************************************************************)
RecvJunk ==
    /\ pc = "recv"
    /\ HasJunk(stream)
    /\ \/ Return("silent")
       \/ hello[stream] # "sent" /\ Return("parse")
    /\ CloseStream
    /\ UNCHANGED <<value, cache, passwd, sync_counter, nextSock, alive, hello,
                   inbox, session>>

RecvShort ==
    /\ pc = "recv"
    /\ FailRead
    /\ UNCHANGED <<value, cache, passwd, sync_counter, nextSock, alive, hello,
                   inbox, session>>

Request == RequestSend \/ RecvReply \/ RecvJunk \/ RecvShort

-----------------------------------------------------------------------------
(***************************************************************************)
(* The script starts its next API call.                                    *)
(***************************************************************************)
Start(k) ==
    /\ pc = "idle"
    /\ call < MaxCalls
    /\ k \in Kinds
    /\ call' = call + 1
    /\ kind' = k

(***************************************************************************)
(* ping, call, evaluate ("call"), insert, replace, delete, update, upsert  *)
(* ("insert"), select; all begin with TARANTOOL_CONNECT_ON_DEMAND.         *)
(***************************************************************************)
StartRequest(k) ==
    /\ k \in {"call", "insert", "select"}
    /\ Start(k)
    /\ pc' = "demand"
    /\ UNCHANGED <<left, resume, batch, mySync, connVars, netVars, seenVars>>

(***************************************************************************)
(* authenticate(login, passwd) replaces the credentials first.             *)
(***************************************************************************)
StartAuthenticate ==
    /\ Start("authenticate")
    /\ passwd' = TRUE
    /\ pc' = "demand"
    /\ UNCHANGED <<left, resume, batch, mySync, stream, value, cache, sync_counter,
                   netVars, seenVars>>

(***************************************************************************)
(* connect() does nothing when there is a stream, whatever its state.      *)
(***************************************************************************)
StartConnect ==
    /\ Start("connect")
    /\ \/ /\ stream # 0
          /\ ReturnFrom(call + 1, "ok", 0)
       \/ /\ stream = 0
          /\ EnterConnect("return")
          /\ UNCHANGED <<batch, mySync, seenVars>>
    /\ UNCHANGED <<connVars, netVars>>

StartReconnect ==
    /\ Start("reconnect")
    /\ CloseStream
    /\ EnterConnect("return")
    /\ UNCHANGED <<batch, mySync, value, cache, passwd, sync_counter, nextSock, alive,
                   hello, inbox, session, seenVars>>

FlushSchema ==
    /\ Start("flush_schema")
    /\ cache' = {}
    /\ ReturnFrom(call + 1, "ok", 0)
    /\ UNCHANGED <<stream, value, passwd, sync_counter, netVars>>

(***************************************************************************)
(* close() returns TRUE and does nothing else.                             *)
(***************************************************************************)
Close ==
    /\ Start("close")
    /\ ReturnFrom(call + 1, "ok", 0)
    /\ UNCHANGED <<connVars, netVars>>

Script ==
    \/ \E k \in Kinds : StartRequest(k)
    \/ StartAuthenticate
    \/ StartConnect
    \/ StartReconnect
    \/ FlushSchema
    \/ Close

-----------------------------------------------------------------------------
(***************************************************************************)
(* The server, as src/ uses it.  It greets every connection, executes what *)
(* arrives on it and answers.  Requests of the user may yield and be       *)
(* overtaken by later ones; authentication and the selects from the system *)
(* spaces do not.  Packets are executed in the order of their syncs, which *)
(* is the order they were encoded in.                                      *)
(***************************************************************************)
Greet(s) ==
    /\ alive[s]
    /\ hello[s] = "none"
    /\ \/ hello' = [hello EXCEPT ![s] = "sent"]
       \/ "alien" \in Faults /\ hello' = [hello EXCEPT ![s] = "bad"]
    /\ UNCHANGED <<callVars, connVars, nextSock, clientOpen, alive, inbox, outbox,
                   session, seenVars>>

Codes == {"ok"} \union (IF "error" \in Faults THEN {"error"} ELSE {})

Execute(s) ==
    /\ alive[s]
    /\ hello[s] \in {"sent", "read", "junk"}
    /\ \E p \in inbox[s], code \in Codes :
        /\ \A q \in inbox[s] : q.sync < p.sync => q.kind = "user"
        /\ inbox' = [inbox EXCEPT ![s] = @ \ {p}]
        /\ outbox' = [outbox EXCEPT ![s] =
                        IF s \in clientOpen
                        THEN Append(@, [kind |-> p.kind, sync |-> p.sync,
                                        call |-> p.call, code |-> code])
                        ELSE @]
        /\ session' = [session EXCEPT ![s] =
                        IF p.kind # "auth" \/ @ = "login" THEN @
                        ELSE IF code = "ok" THEN "login" ELSE "refused"]
        /\ runs' = [runs EXCEPT ![p.call] = IF p.kind = "user" THEN @ + 1 ELSE @]
    /\ UNCHANGED <<callVars, connVars, nextSock, clientOpen, alive, hello, outcome, answer>>

(***************************************************************************)
(* The server closes s, or dies: the requests it has not executed are lost *)
(* and so may be its last replies.                                         *)
(***************************************************************************)
Drop(s) ==
    /\ "drop" \in Faults
    /\ alive[s]
    /\ s \in clientOpen
    /\ alive' = [alive EXCEPT ![s] = FALSE]
    /\ inbox' = [inbox EXCEPT ![s] = {}]
    /\ \E n \in 0 .. Len(outbox[s]) :
        outbox' = [outbox EXCEPT ![s] = SubSeq(@, 1, n)]
    /\ UNCHANGED <<callVars, connVars, nextSock, clientOpen, hello, session, seenVars>>

Server == \E s \in Sock : Greet(s) \/ Execute(s) \/ Drop(s)

(***************************************************************************)
(* The script has made all its calls.                                      *)
(***************************************************************************)
Finished == pc = "idle" /\ call = MaxCalls /\ UNCHANGED vars

Extension == Connect \/ Authenticate \/ Demand \/ Lookup \/ Request

Next == Script \/ Extension \/ Server \/ Finished

Spec == Init /\ [][Next]_vars

(***************************************************************************)
(* The extension does not stop in the middle of a call, and a server that  *)
(* is alive goes on serving.  Nothing obliges the script to start a call,  *)
(* or a fault to happen.                                                   *)
(***************************************************************************)
FairSpec ==
    /\ Spec
    /\ WF_vars(Extension)
    /\ \A s \in Sock : WF_vars(Greet(s)) /\ WF_vars(Execute(s))

-----------------------------------------------------------------------------
(***************************************************************************)
(* A method that returns data returns the server's answer to its own       *)
(* request: the sync comparison of tarantool_step_recv tells it from every *)
(* other reply that can be on the stream, also after the sync wrapped.     *)
(***************************************************************************)
ReplyIsOwn == \A c \in Calls : answer[c] \in {0, c}

(***************************************************************************)
(* Between two calls nothing is outstanding on a stream whose greeting was *)
(* read: every path that leaves a reply unread closes the stream.  The     *)
(* lookups depend on it, they do not compare syncs.                        *)
(***************************************************************************)
Quiescent ==
    pc = "idle" /\ stream # 0 /\ hello[stream] = "read"
        => inbox[stream] = {} /\ outbox[stream] = <<>>

(***************************************************************************)
(* A lookup reads its own response: an existing space or index is never    *)
(* reported as undefined.                                                  *)
(***************************************************************************)
NamesAreFound == \A c \in Calls : outcome[c] # "undefined"

(***************************************************************************)
(* An answer means one execution: the request of a call that returned data *)
(* is never executed again, although obj->value may be sent repeatedly.    *)
(***************************************************************************)
AnswerMeansOneRun == \A c \in Calls : answer[c] # 0 => runs[c] = 1

(***************************************************************************)
(* Why ReplyIsOwn and AnswerMeansOneRun hold, as an inductive invariant.   *)
(* Where a blocked call can be, and what its locals are then.              *)
(***************************************************************************)
Blocked ==
    /\ pc # "idle" => call \in Calls
    /\ pc = "open" => left >= 1
    /\ pc \in {"greet", "authSend", "auth", "ready", "lookup", "recv"} => stream \in Sock

(***************************************************************************)
(* Every packet and reply that exists carries a sync that was handed out,  *)
(* and belongs to a call that was started.                                 *)
(***************************************************************************)
Issued(p) == p.sync < sync_counter /\ p.call <= call

AllIssued ==
    /\ \A i \in 1 .. Len(value) : Issued(value[i])
    /\ \A s \in Sock : \A p \in inbox[s] : Issued(p)
    /\ \A s \in Sock : \A i \in 1 .. Len(outbox[s]) : Issued(outbox[s][i])

(***************************************************************************)
(* No request of call c can still reach the server.                        *)
(***************************************************************************)
IsRequestOf(p, c) == p.kind = "user" /\ p.call = c

Settled(c) ==
    /\ \A i \in 1 .. Len(value) : ~ IsRequestOf(value[i], c)
    /\ \A s \in Sock : \A p \in inbox[s] : ~ IsRequestOf(p, c)

(***************************************************************************)
(* Before the request is sent there is no trace of it.                     *)
(***************************************************************************)
NotYetSent ==
    pc \notin {"idle", "recv"} =>
        /\ Settled(call)
        /\ runs[call] = 0
        /\ \A s \in Sock : \A i \in 1 .. Len(outbox[s]) : ~ IsRequestOf(outbox[s][i], call)

(***************************************************************************)
(* While tarantool_step_recv waits, the buffer is empty, the sync it waits *)
(* for is the last one handed out, only its own request has it, and the    *)
(* request is either still to be executed or was executed once.            *)
(***************************************************************************)
IsOwn(p) == p.kind = "user" /\ p.call = call /\ p.sync = mySync

Awaiting ==
    pc = "recv" =>
        /\ value = <<>>
        /\ sync_counter = mySync + 1
        /\ \A s \in Sock : \A p \in inbox[s] :
              /\ p.sync = mySync => IsOwn(p)
              /\ IsRequestOf(p, call) => IsOwn(p) /\ s = stream /\ runs[call] = 0
        /\ \A s \in Sock : \A i \in 1 .. Len(outbox[s]) :
              /\ outbox[s][i].sync = mySync => IsOwn(outbox[s][i])
              /\ IsRequestOf(outbox[s][i], call) => runs[call] = 1

Answered ==
    \A c \in Calls :
        /\ answer[c] # 0 => answer[c] = c /\ runs[c] = 1 /\ Settled(c)
        /\ c > call => runs[c] = 0 /\ answer[c] = 0
        /\ c = call /\ pc # "idle" => answer[c] = 0

CallInv == TypeOK /\ Blocked /\ AllIssued /\ NotYetSent /\ Awaiting /\ Answered

(***************************************************************************)
(* "We can reconnect and everything will be ok"                            *)
(* (test/AssertTest.php:46): after a failure the next call opens a new     *)
(* stream and reads the reply to its own request from it.                  *)
(***************************************************************************)
NoSyncMismatch == \A c \in Calls : outcome[c] # "sync"

(***************************************************************************)
(* "False and raises `Exception` in case of error." (README.md, of every   *)
(* query method): no call fails without an exception.                      *)
(***************************************************************************)
NoSilentFailure == \A c \in Calls : outcome[c] # "silent"

(***************************************************************************)
(* Between two calls the object's stream is the only open one: a stream is *)
(* closed before obj->stream forgets it.                                   *)
(***************************************************************************)
NoLeakedStream == pc = "idle" => clientOpen \subseteq {stream}

(***************************************************************************)
(* With a password, the server executes no request of the script as guest  *)
(* unless it refused the login itself: no path leaves a usable stream that *)
(* nobody tried to authenticate.                                           *)
(***************************************************************************)
RunsAuthenticated ==
    [][\A s \in Sock, c \in Calls :
        runs'[c] # runs[c] /\ inbox'[s] # inbox[s] => session[s] # "guest"]_vars

(***************************************************************************)
(* Every call returns: the retry loop ends, the batch ends, a lookup is    *)
(* made once per name, and a read ends with data, EOF or the timeout.      *)
(***************************************************************************)
CallReturns == (pc # "idle") ~> (pc = "idle")

(***************************************************************************)
(* How many more blocking operations and tests for EOF the call can make   *)
(* before it returns.  A connect loop with n attempts left opens a stream  *)
(* and reads a greeting n times, writes one batch and reads its answers; a *)
(* lookup is a write and a read, and so is the request.  A call without a  *)
(* stream connects first; it may find that stream closed and reconnect.    *)
(***************************************************************************)
ReadySteps == 2 * Cardinality(Names) + 2
ConnectSteps(n) == 2 * n + BatchSize + 1
DemandSteps == ConnectSteps(RetryCount) + ReadySteps + 1
MaxSteps == ConnectSteps(RetryCount) + DemandSteps + 1

ResumeSteps ==
    CASE resume = "return" -> 0
      [] resume = "ready" -> ReadySteps
      [] resume = "demand" -> DemandSteps

StepsLeft ==
    CASE pc = "idle" -> 0
      [] pc = "demand" -> IF stream = 0 THEN MaxSteps ELSE DemandSteps
      [] pc = "open" -> ConnectSteps(left) + ResumeSteps
      [] pc = "greet" -> ConnectSteps(left) + 1 + ResumeSteps
      [] pc = "authSend" -> BatchSize + 1 + ResumeSteps
      [] pc = "auth" -> left + ResumeSteps
      [] pc = "ready" -> IF kind = "authenticate"
                         THEN BatchSize + 2
                         ELSE 2 * Cardinality(Missing) + 2
      [] pc = "lookup" -> 2 * Cardinality(Missing) + 1
      [] pc = "recv" -> 1

(***************************************************************************)
(* However its attempts, reads and writes fail, a call makes no more than  *)
(* MaxSteps steps: the connect loop is entered at most twice, the batch is *)
(* read once per connect, a lookup is not repeated, and nothing the server *)
(* or the network does gives a call more to do.                            *)
(***************************************************************************)
CallsAreBounded ==
    /\ [](StepsLeft \in 0 .. MaxSteps)
    /\ [][pc # "idle" =>
            /\ StepsLeft' <= StepsLeft
            /\ Extension => StepsLeft' < StepsLeft]_vars

(***************************************************************************)
(* What the script knows of call c, as RemoteCall names it.                *)
(***************************************************************************)
Phase(c) ==
    CASE c > call -> "new"
      [] c = call /\ pc # "idle" -> "pending"
      [] c <= call /\ ~ (c = call /\ pc # "idle") ->
            IF answer[c] # 0 THEN "answered"
            ELSE IF outcome[c] = "send" THEN "refused" ELSE "unknown"

Remote == INSTANCE RemoteCall WITH phase <- [c \in Calls |-> Phase(c)]

(***************************************************************************)
(* The object implements RemoteCall.  A packet that a failed write left in *)
(* obj->value is overwritten by the batch of the next connect before it    *)
(* can go out; without a password there is no batch.                       *)
(***************************************************************************)
ImplementsRemoteCall == Remote!Promise
=============================================================================
