-------------------------- MODULE TarantoolStreamProofs --------------------------
(***************************************************************************)
(* What is on the stream of a Tarantool object at every place where a call *)
(* can block, and what follows from it: the stream is quiet between two    *)
(* calls, lookups find their names, replies match, requests run            *)
(* authenticated, and the object implements RemoteCall.                    *)
(***************************************************************************)
EXTENDS TarantoolConnectionProofs

USE DEF Calls, Sock

(***************************************************************************)
(* A connection nobody accepted yet has carried nothing.                   *)
(***************************************************************************)
Unused(s) == ~ alive[s] /\ hello[s] = "none" /\ inbox[s] = {} /\ outbox[s] = <<>>

NewSockets ==
    /\ stream < nextSock
    /\ \A s \in Sock : s >= nextSock => Unused(s)

(***************************************************************************)
(* How many replies the call still waits for, and the sync of the first.   *)
(***************************************************************************)
Due == IF pc = "auth" THEN left ELSE IF pc \in {"lookup", "recv"} THEN 1 ELSE 0
First == IF pc = "auth" THEN mySync + BatchSize - left ELSE mySync

(***************************************************************************)
(* The object's stream, once its greeting was read: the replies on it and  *)
(* the requests before the server are the ones the call waits for, each of *)
(* them once; the batch is answered in the order of its syncs.             *)
(***************************************************************************)
Greeted == stream # 0 /\ hello[stream] = "read"

Pending ==
    /\ Len(outbox[stream]) <= Due
    /\ \A p \in inbox[stream] :
          First + Len(outbox[stream]) <= p.sync /\ p.sync < First + Due
    /\ \A p, q \in inbox[stream] : p.sync = q.sync => p = q

Expected ==
    /\ pc \in {"lookup", "recv"} =>
          \A i \in 1 .. Len(outbox[stream]) : outbox[stream][i].sync = mySync
    /\ pc = "auth" => \A p \in inbox[stream] : p.kind # "user"

(***************************************************************************)
(* With a password, nothing a failed write left in obj->value survives the *)
(* batch that follows the next greeting.                                   *)
(***************************************************************************)
BufferSpent == pc # "authSend" => value = <<>>

OnStream == Greeted => Pending /\ Expected /\ BufferSpent

(***************************************************************************)
(* Nothing was sent on a connection whose greeting is awaited.             *)
(***************************************************************************)
Greeting == pc = "greet" => inbox[stream] = {} /\ outbox[stream] = <<>> /\ hello[stream] # "read"

StreamInv == TypeInv /\ NewSockets /\ Greeting /\ passwd /\ OnStream

(***************************************************************************)
(* Sessions.  A request of the script waits behind the login of its        *)
(* stream, and the object's stream is only used after the login was        *)
(* answered; it is unread only while the greeting is awaited.              *)
(***************************************************************************)
Served(s) == hello[s] \notin {"bad", "alien"}

LoginAhead(s, p) == \E q \in inbox[s] : q.kind = "auth" /\ q.sync < p.sync

LoginFirst ==
    \A s \in Sock : \A p \in inbox[s] :
        p.kind = "user" /\ Served(s) /\ session[s] = "guest" => LoginAhead(s, p)

LoginTried ==
    Greeted /\ alive[stream] /\ session[stream] = "guest" =>
        \/ pc = "authSend"
        \/ pc = "auth" /\ \E q \in inbox[stream] : q.kind = "auth"

GreetingKnown ==
    stream # 0 /\ alive[stream] /\ pc # "greet" => hello[stream] \in {"read", "alien"}

Logins == LoginFirst /\ LoginTried /\ GreetingKnown

(***************************************************************************)
(* The promise.  A request that can be executed was not executed before,   *)
(* is there once, and belongs to a call the script was not told is over.   *)
(***************************************************************************)
Executable(s, p) == p \in inbox[s] /\ p.kind = "user" /\ Served(s)

OneCopy ==
    \A s, t \in Sock : \A p \in inbox[s], q \in inbox[t] :
        Executable(s, p) /\ Executable(t, q) /\ p.call = q.call => s = t /\ p = q

NotYetRun ==
    \A s \in Sock : \A p \in inbox[s] : Executable(s, p) =>
        runs[p.call] = 0 /\ outcome[p.call] # "send"

Told ==
    \A c \in Calls :
        /\ c > call \/ (c = call /\ pc # "idle") => outcome[c] = "none"
        /\ outcome[c] = "send" => runs[c] = 0
        /\ runs[c] \in {0, 1}

PromiseInv == CallInv /\ StreamInv /\ Logins /\ OneCopy /\ NotYetRun /\ Told

-----------------------------------------------------------------------------
(***************************************************************************)
(* How a step can treat the streams.  An action of the extension touches   *)
(* only the object's own.                                                  *)
(***************************************************************************)
OnlyStream ==
    /\ UNCHANGED <<alive, nextSock>>
    /\ \A s \in Sock : s # stream =>
          hello'[s] = hello[s] /\ inbox'[s] = inbox[s] /\ outbox'[s] = outbox[s]

LEMMA NewSocketsKept ==
    ASSUME TypeInv, NewSockets, OnlyStream, stream' \in {0, stream}
    PROVE  NewSockets'
<1>1. nextSock \in Nat /\ stream \in Nat /\ stream < nextSock /\ nextSock' = nextSock
  BY BoundsAssumption DEF TypeInv, TypeOK, NewSockets, OnlyStream
<1>2. ASSUME NEW s \in Sock, s >= nextSock
      PROVE  Unused(s)'
  <2>1. s # stream
    BY <1>1, <1>2
  <2>. QED BY <1>2, <2>1 DEF NewSockets, Unused, OnlyStream
<1>. QED BY <1>1, <1>2 DEF NewSockets

(***************************************************************************)
(* The stream is closed.                                                   *)
(***************************************************************************)
LEMMA ClosedStep ==
    ASSUME StreamInv, TypeInv', OnlyStream, stream' = 0, pc' # "greet", passwd'
    PROVE  StreamInv'
<1>1. NewSockets'
  BY NewSocketsKept DEF StreamInv
<1>. QED BY <1>1 DEF StreamInv, Greeting, OnStream, Greeted

(***************************************************************************)
(* The greeting of the stream is not read, before and after the step.      *)
(***************************************************************************)
LEMMA UnreadStep ==
    ASSUME StreamInv, TypeInv', OnlyStream, stream' = stream, hello'[stream] # "read",
           pc' # "greet", passwd'
    PROVE  StreamInv'
<1>1. NewSockets'
  BY NewSocketsKept DEF StreamInv
<1>. QED BY <1>1 DEF StreamInv, Greeting, OnStream, Greeted

(***************************************************************************)
(* Nothing moves on the streams, and no reply is awaited.                  *)
(***************************************************************************)
LEMMA QuietPending ==
    ASSUME TypeInv, stream # 0, Due = 0
    PROVE  Pending <=> inbox[stream] = {} /\ outbox[stream] = <<>>
<1>1. stream \in Sock
  <2>1. stream \in 0 .. MaxSock
    BY DEF TypeInv, TypeOK
  <2>. QED BY <2>1, BoundsAssumption
<1>2. outbox[stream] \in Seq(Reply) /\ \A p \in inbox[stream] : p.sync \in Nat
  BY <1>1, FieldTypes DEF TypeInv, TypeOK
<1>3. mySync \in Nat /\ pc # "auth" => First = mySync
  BY DEF TypeInv, TypeOK, First
<1>4. mySync \in Nat /\ left \in Nat /\ First \in Int
  BY DEF TypeInv, TypeOK, First, BatchSize
<1>5. Len(outbox[stream]) \in Nat /\ (Len(outbox[stream]) = 0 <=> outbox[stream] = <<>>)
  BY <1>2
<1>6. ASSUME Pending
      PROVE  inbox[stream] = {} /\ outbox[stream] = <<>>
  <2>1. Len(outbox[stream]) = 0
    BY <1>5, <1>6 DEF Pending
  <2>2. \A p \in inbox[stream] : First <= p.sync /\ p.sync < First
    BY <1>4, <1>6, <2>1 DEF Pending
  <2>. QED BY <1>2, <1>4, <1>5, <2>1, <2>2
<1>7. ASSUME inbox[stream] = {}, outbox[stream] = <<>>
      PROVE  Pending
  BY <1>7 DEF Pending
<1>. QED BY <1>6, <1>7

LEMMA CalmStep ==
    ASSUME StreamInv, TypeInv', UNCHANGED <<stream, value, netVars>>,
           pc \in {"idle", "demand", "open", "greet", "ready"},
           pc' \in {"idle", "demand", "open", "ready"}, passwd'
    PROVE  StreamInv'
<1>1. NewSockets'
  BY DEF StreamInv, NewSockets, Unused, netVars
<1>2. Due = 0 /\ Due' = 0
  BY DEF Due
<1>3. UNCHANGED <<hello, inbox, outbox>>
  BY DEF netVars
<1>4. OnStream'
  <2>. SUFFICES ASSUME Greeted PROVE (Pending /\ Expected /\ BufferSpent)'
    BY <1>3 DEF OnStream, Greeted
  <2>1. inbox[stream] = {} /\ outbox[stream] = <<>> /\ value = <<>>
    BY <1>2, QuietPending DEF StreamInv, OnStream, BufferSpent, Greeted
  <2>2. Pending'
    BY <1>2, <1>3, <2>1 DEF Pending
  <2>. QED BY <2>1, <2>2 DEF Expected, BufferSpent
<1>. QED BY <1>1, <1>4 DEF StreamInv, Greeting

(***************************************************************************)
(* The packets of buf are written, to a stream with an empty inbox.        *)
(***************************************************************************)
LEMMA FailedSendStep ==
    ASSUME StreamInv, TypeInv', NEW buf, SendFails(buf), UNCHANGED <<nextSock, alive, hello>>,
           passwd'
    PROVE  StreamInv'
<1>1. PICK n \in 0 .. Len(buf) - 1 : Deliver(buf, n)
  BY DEF SendFails
<1>2. OnlyStream /\ stream' = 0
  BY <1>1 DEF SendFails, Deliver, CloseStream, OnlyStream
<1>3. pc' = "idle"
  BY DEF SendFails, Return, ReturnFrom
<1>. QED BY <1>2, <1>3, ClosedStep

LEMMA FailedReadStep ==
    ASSUME StreamInv, TypeInv', FailRead, UNCHANGED <<nextSock, alive, hello, inbox>>,
           passwd'
    PROVE  StreamInv'
<1>1. OnlyStream /\ stream' = 0 /\ pc' = "idle"
  BY DEF FailRead, CloseStream, OnlyStream, Return, ReturnFrom
<1>. QED BY <1>1, ClosedStep

LEMMA SendOnlyStream ==
    ASSUME NEW buf, SendSucceeds(buf), UNCHANGED <<nextSock, alive, hello>>
    PROVE  OnlyStream /\ stream' = stream /\ value' = <<>>
BY DEF SendSucceeds, Deliver, OnlyStream

(***************************************************************************)
(* A write on a quiet stream whose greeting was read: the packets are what *)
(* the call now waits for.                                                 *)
(***************************************************************************)
LEMMA SentStep ==
    ASSUME StreamInv, TypeInv', NEW buf \in Seq(Packet), SendSucceeds(buf),
           UNCHANGED <<nextSock, alive, hello>>, passwd',
           pc \in {"authSend", "ready"}, pc' \in {"auth", "lookup", "recv"},
           mySync' = sync_counter,
           Greeted =>
              /\ Len(buf) = Due' /\ First' = sync_counter
              /\ \A i \in 1 .. Len(buf) : buf[i].sync = sync_counter + i - 1
              /\ pc' = "auth" => \A i \in 1 .. Len(buf) : buf[i].kind # "user"
    PROVE  StreamInv'
<1>1. OnlyStream /\ stream' = stream /\ value' = <<>>
  BY SendOnlyStream
<1>2. CASE ~ Greeted
  <2>1. stream # 0
    BY DEF StreamInv, TypeInv, Blocked, TypeOK
  <2>. QED BY <1>1, <1>2, <2>1, UnreadStep DEF Greeted
<1>3. CASE Greeted
  <2>1. stream \in Sock /\ stream # 0 /\ outbox' = outbox
    BY <1>3 DEF StreamInv, TypeInv, Blocked, SendSucceeds, Greeted
  <2>2. inbox[stream] = {} /\ outbox[stream] = <<>>
    <3>1. Due = 0
      BY DEF Due
    <3>. QED BY <1>3, <3>1, QuietPending DEF StreamInv, OnStream, Greeted
  <2>3. \A p \in inbox'[stream] : \E i \in 1 .. Len(buf) : p = buf[i]
    BY <2>1, <2>2 DEF SendSucceeds, Deliver
  <2>4. Len(buf) \in Nat /\ sync_counter \in Nat /\ Len(outbox'[stream]) = 0
    BY <2>1, <2>2 DEF StreamInv, TypeInv, TypeOK
  <2>5. Pending'
    <3>1. Len(outbox'[stream]) <= Due'
      BY <1>3, <2>4
    <3>2. ASSUME NEW p \in inbox'[stream]
          PROVE  First' + Len(outbox'[stream]) <= p.sync /\ p.sync < First' + Due'
      <4>1. PICK i \in 1 .. Len(buf) : p = buf[i]
        BY <2>3
      <4>. QED BY <1>3, <2>4, <4>1
    <3>3. ASSUME NEW p \in inbox'[stream], NEW q \in inbox'[stream], p.sync = q.sync
          PROVE  p = q
      <4>1. PICK i \in 1 .. Len(buf) : p = buf[i]
        BY <2>3
      <4>2. PICK j \in 1 .. Len(buf) : q = buf[j]
        BY <2>3
      <4>3. i = j
        BY <1>3, <2>4, <3>3, <4>1, <4>2
      <4>. QED BY <4>1, <4>2, <4>3
    <3>. QED BY <1>1, <3>1, <3>2, <3>3 DEF Pending
  <2>6. Expected'
    <3>1. pc' = "auth" => \A p \in inbox'[stream] : p.kind # "user"
      BY <1>3, <2>3
    <3>. QED BY <1>1, <2>4, <3>1 DEF Expected
  <2>7. NewSockets'
    BY <1>1, NewSocketsKept DEF StreamInv
  <2>. QED BY <1>1, <2>5, <2>6, <2>7 DEF StreamInv, Greeting, OnStream, BufferSpent
<1>. QED BY <1>2, <1>3

(***************************************************************************)
(* The next reply is read off the stream: the call waits for one less.     *)
(***************************************************************************)
LEMMA ReadStep ==
    ASSUME StreamInv, TypeInv', HasReply(stream), stream \in Sock, ConsumeReply,
           UNCHANGED <<stream, value, nextSock, alive, hello, inbox>>, passwd',
           pc \in {"auth", "lookup", "recv"}, pc' # "greet", pc' \notin {"lookup", "recv"},
           Due' = Due - 1, pc' = "auth" => pc = "auth" /\ First' = First + 1
    PROVE  StreamInv'
<1>1. Greeted /\ stream # 0
  BY DEF Greeted, HasReply
<1>2. OnlyStream
  BY DEF ConsumeReply, OnlyStream
<1>3. NewSockets'
  BY <1>2, NewSocketsKept DEF StreamInv
<1>4. outbox[stream] \in Seq(Reply) /\ outbox[stream] # <<>>
  BY DEF StreamInv, TypeInv, TypeOK, HasReply
<1>5. outbox'[stream] = Tail(outbox[stream])
  BY DEF ConsumeReply
<1>6. Len(outbox'[stream]) = Len(outbox[stream]) - 1 /\ Len(outbox[stream]) \in Nat
  BY <1>4, <1>5
<1>7. /\ Len(outbox[stream]) <= Due
      /\ \A p \in inbox[stream] : First + Len(outbox[stream]) <= p.sync /\ p.sync < First + Due
      /\ \A p, q \in inbox[stream] : p.sync = q.sync => p = q
      /\ pc = "auth" => \A p \in inbox[stream] : p.kind # "user"
      /\ value = <<>>
  BY <1>1 DEF StreamInv, OnStream, Pending, Expected, BufferSpent
<1>8. Due \in Nat /\ First \in Int /\ Due' \in Nat /\ First' \in Int
  BY DEF StreamInv, TypeInv, TypeOK, Due, First, BatchSize
<1>9. \A p \in inbox[stream] : p.sync \in Nat
  BY FieldTypes DEF StreamInv, TypeInv
<1>10. pc' # "auth" => Due' = 0
  BY DEF Due
<1>11. Pending'
  <2>1. Len(outbox'[stream]) <= Due'
    BY <1>6, <1>7, <1>8
  <2>2. ASSUME NEW p \in inbox[stream]
        PROVE  First' + Len(outbox'[stream]) <= p.sync /\ p.sync < First' + Due'
    <3>1. First + Len(outbox[stream]) <= p.sync /\ p.sync < First + Due /\ p.sync \in Nat
      BY <1>7, <1>9
    <3>2. CASE pc' = "auth"
      BY <1>6, <1>8, <3>1, <3>2
    <3>3. CASE pc' # "auth"
      <4>1. Due = 1 /\ Len(outbox[stream]) >= 1
        BY <1>6, <1>8, <1>10, <3>3, <1>4
      <4>. QED BY <1>6, <1>8, <3>1, <4>1
    <3>. QED BY <3>2, <3>3
  <2>. QED BY <1>7, <2>1, <2>2 DEF Pending
<1>12. Expected'
  BY <1>7 DEF Expected
<1>. QED BY <1>3, <1>7, <1>11, <1>12 DEF StreamInv, Greeting, OnStream, BufferSpent

(***************************************************************************)
(* A connection is opened, and its greeting is read.                       *)
(***************************************************************************)
LEMMA OpenStep ==
    ASSUME StreamInv, TypeInv', OpenSucceeds
    PROVE  StreamInv'
<1>1. /\ nextSock \in Sock /\ nextSock \in Nat /\ stream' = nextSock /\ nextSock' = nextSock + 1
      /\ alive' = [alive EXCEPT ![nextSock] = TRUE]
      /\ UNCHANGED <<passwd, hello, inbox, outbox>> /\ pc' = "greet"
  BY BoundsAssumption DEF StreamInv, TypeInv, TypeOK, OpenSucceeds
<1>2. Unused(nextSock)
  BY <1>1 DEF StreamInv, NewSockets
<1>3. NewSockets'
  <2>1. ASSUME NEW s \in Sock, s >= nextSock + 1
        PROVE  Unused(s)'
    <3>1. s # nextSock /\ s >= nextSock
      BY <1>1, <2>1
    <3>2. alive'[s] = alive[s]
      BY <1>1, <3>1 DEF StreamInv, TypeInv, TypeOK
    <3>. QED BY <1>1, <3>1, <3>2 DEF StreamInv, NewSockets, Unused
  <2>. QED BY <1>1, <2>1 DEF NewSockets
<1>4. hello'[stream'] = "none" /\ inbox'[stream'] = {} /\ outbox'[stream'] = <<>>
  BY <1>1, <1>2 DEF Unused
<1>. QED BY <1>1, <1>3, <1>4 DEF StreamInv, Greeting, OnStream, Greeted

LEMMA GreetingStep ==
    ASSUME StreamInv, TypeInv', GreetingRead
    PROVE  StreamInv'
<1>1. /\ pc = "greet" /\ pc' = "authSend" /\ passwd
      /\ UNCHANGED <<stream, value, passwd, nextSock, alive, inbox, outbox>>
      /\ hello' = [hello EXCEPT ![stream] = "read"]
  BY DEF StreamInv, GreetingRead, connVars
<1>2. stream \in Sock
  BY <1>1 DEF StreamInv, TypeInv, Blocked
<1>3. OnlyStream
  BY <1>1, <1>2 DEF StreamInv, TypeInv, TypeOK, OnlyStream
<1>4. NewSockets'
  BY <1>1, <1>3, NewSocketsKept DEF StreamInv
<1>5. inbox'[stream] = {} /\ outbox'[stream] = <<>>
  BY <1>1 DEF StreamInv, Greeting
<1>6. Due' = 0
  BY <1>1 DEF Due
<1>7. Pending'
  BY <1>1, <1>5, <1>6 DEF Pending
<1>. QED BY <1>1, <1>4, <1>7 DEF StreamInv, Greeting, OnStream, Expected, BufferSpent

-----------------------------------------------------------------------------
(***************************************************************************)
(* The server.                                                             *)
(***************************************************************************)
LEMMA GreetStep ==
    ASSUME StreamInv, TypeInv', NEW s \in Sock, Greet(s)
    PROVE  StreamInv'
<1>1. /\ UNCHANGED <<pc, left, mySync, stream, value, passwd, nextSock, alive, inbox, outbox>>
      /\ alive[s] /\ hello[s] = "none"
  BY DEF Greet, callVars, connVars
<1>2. \A t \in Sock : t # s => hello'[t] = hello[t]
  BY DEF Greet, StreamInv, TypeInv, TypeOK
<1>3. hello'[s] \in {"sent", "bad"}
  BY DEF Greet, StreamInv, TypeInv, TypeOK
<1>4. NewSockets'
  BY <1>1, <1>2 DEF StreamInv, NewSockets, Unused
<1>5. stream \in Sock => (hello'[stream] = "read" <=> hello[stream] = "read")
  BY <1>1, <1>2, <1>3
<1>6. stream # 0 => stream \in Sock
  BY BoundsAssumption DEF StreamInv, TypeInv, TypeOK
<1>7. Greeting'
  BY <1>1, <1>5 DEF StreamInv, Greeting, TypeInv, Blocked
<1>8. OnStream'
  BY <1>1, <1>5, <1>6 DEF StreamInv, OnStream, Greeted, Pending, Expected, BufferSpent, Due, First
<1>. QED BY <1>1, <1>4, <1>7, <1>8 DEF StreamInv

LEMMA DropStep ==
    ASSUME StreamInv, TypeInv', NEW s \in Sock, Drop(s)
    PROVE  StreamInv'
<1>1. /\ UNCHANGED <<pc, left, mySync, stream, value, passwd, nextSock, hello>>
      /\ alive[s]
      /\ alive' = [alive EXCEPT ![s] = FALSE]
      /\ inbox' = [inbox EXCEPT ![s] = {}]
  BY DEF Drop, callVars, connVars
<1>2. PICK n \in 0 .. Len(outbox[s]) : outbox' = [outbox EXCEPT ![s] = SubSeq(@, 1, n)]
  BY DEF Drop
<1>3. outbox[s] \in Seq(Reply) /\ outbox'[s] = SubSeq(outbox[s], 1, n)
  BY <1>2 DEF StreamInv, TypeInv, TypeOK
<1>4. /\ Len(outbox'[s]) = n /\ n \in Nat /\ n <= Len(outbox[s])
      /\ \A i \in 1 .. n : outbox'[s][i] = outbox[s][i]
  BY <1>3
<1>5. \A t \in Sock : t # s => inbox'[t] = inbox[t] /\ outbox'[t] = outbox[t] /\ alive'[t] = alive[t]
  BY <1>1, <1>2 DEF StreamInv, TypeInv, TypeOK
<1>6. inbox'[s] = {} /\ (outbox[s] = <<>> => outbox'[s] = <<>>)
  BY <1>1, <1>3, <1>4 DEF StreamInv, TypeInv, TypeOK
<1>7. NewSockets'
  BY <1>1, <1>5 DEF StreamInv, NewSockets, Unused
<1>8. Greeting'
  BY <1>1, <1>5, <1>6 DEF StreamInv, Greeting, TypeInv, Blocked
<1>9. OnStream'
  <2>. SUFFICES ASSUME Greeted PROVE (Pending /\ Expected /\ BufferSpent)'
    BY <1>1 DEF OnStream, Greeted
  <2>1. Pending /\ Expected /\ BufferSpent /\ stream \in Sock
    BY BoundsAssumption DEF StreamInv, OnStream, Greeted, TypeInv, TypeOK
  <2>2. UNCHANGED <<Due, First>> /\ Due \in Nat
    BY <1>1 DEF Due, First, StreamInv, TypeInv, TypeOK
  <2>3. CASE stream = s
    <3>1. Pending'
      BY <1>1, <1>4, <1>6, <2>1, <2>2, <2>3 DEF Pending
    <3>2. Expected'
      <4>1. 1 .. n \subseteq 1 .. Len(outbox[s])
        BY <1>4
      <4>. QED BY <1>1, <1>4, <1>6, <2>1, <2>3, <4>1 DEF Expected
    <3>. QED BY <1>1, <2>1, <3>1, <3>2 DEF BufferSpent
  <2>4. CASE stream # s
    BY <1>1, <1>5, <2>1, <2>2, <2>4 DEF Pending, Expected, BufferSpent
  <2>. QED BY <2>3, <2>4
<1>. QED BY <1>1, <1>7, <1>8, <1>9 DEF StreamInv

(***************************************************************************)
(* The packet the server executes is the first the call still waits for.   *)
(***************************************************************************)
LEMMA ExecuteStream ==
    ASSUME StreamInv, TypeInv', NEW s \in Sock, Execute(s)
    PROVE  StreamInv'
<1>1. /\ UNCHANGED <<pc, left, mySync, stream, value, passwd, nextSock, alive, hello>>
      /\ alive[s] /\ hello[s] \in {"sent", "read", "junk"}
  BY DEF Execute, callVars, connVars
<1>2. PICK p \in inbox[s], code \in Codes :
        /\ \A q \in inbox[s] : q.sync < p.sync => q.kind = "user"
        /\ inbox' = [inbox EXCEPT ![s] = @ \ {p}]
        /\ outbox' = [outbox EXCEPT ![s] =
                        IF s \in clientOpen
                        THEN Append(@, [kind |-> p.kind, sync |-> p.sync,
                                        call |-> p.call, code |-> code])
                        ELSE @]
  BY DEF Execute
<1>. DEFINE r == [kind |-> p.kind, sync |-> p.sync, call |-> p.call, code |-> code]
<1>3. r.sync = p.sync
  OBVIOUS
<1>4. outbox'[s] = outbox[s] \/ outbox'[s] = Append(outbox[s], r)
  BY <1>2 DEF StreamInv, TypeInv, TypeOK
<1>. HIDE DEF r
<1>5. inbox'[s] = inbox[s] \ {p}
  BY <1>2 DEF StreamInv, TypeInv, TypeOK
<1>6. \A t \in Sock : t # s => inbox'[t] = inbox[t] /\ outbox'[t] = outbox[t]
  BY <1>2 DEF StreamInv, TypeInv, TypeOK
<1>7. NewSockets'
  BY <1>1, <1>6 DEF StreamInv, NewSockets, Unused
<1>8. pc = "greet" => stream # s /\ stream \in Sock
  BY <1>2 DEF StreamInv, Greeting, TypeInv, Blocked
<1>9. Greeting'
  BY <1>1, <1>6, <1>8 DEF StreamInv, Greeting
<1>10. OnStream'
  <2>. SUFFICES ASSUME Greeted PROVE (Pending /\ Expected /\ BufferSpent)'
    BY <1>1 DEF OnStream, Greeted
  <2>1. Pending /\ Expected /\ BufferSpent /\ stream \in Sock
    BY BoundsAssumption DEF StreamInv, OnStream, Greeted, TypeInv, TypeOK
  <2>2. UNCHANGED <<Due, First>> /\ Due \in Nat /\ First \in Int /\ (Due # 0 => pc \in {"auth", "lookup", "recv"})
    BY <1>1 DEF Due, First, BatchSize, StreamInv, TypeInv, TypeOK
  <2>3. CASE stream # s
    BY <1>1, <1>6, <2>1, <2>2, <2>3 DEF Pending, Expected, BufferSpent
  <2>4. CASE stream = s
    <3>. DEFINE n == Len(outbox[s])
    <3>1. outbox[s] \in Seq(Reply) /\ n \in Nat /\ \A q \in inbox[s] : q.sync \in Nat
      <4>1. outbox[s] \in Seq(Reply)
        BY DEF StreamInv, TypeInv, TypeOK
      <4>2. \A q \in inbox[s] : q.sync \in Nat
        BY FieldTypes DEF StreamInv, TypeInv
      <4>. QED BY <4>1, <4>2
    <3>2. /\ n <= Due
          /\ \A q \in inbox[s] : First + n <= q.sync /\ q.sync < First + Due
          /\ \A q \in inbox[s] : q.sync = p.sync => q = p
          /\ \A q1, q2 \in inbox[s] : q1.sync = q2.sync => q1 = q2
      BY <2>1, <2>4 DEF Pending
    <3>3. \/ outbox'[s] = outbox[s] /\ Len(outbox'[s]) = n
          \/ /\ Len(outbox'[s]) = n + 1 /\ outbox'[s][n + 1] = r
             /\ \A i \in 1 .. n : outbox'[s][i] = outbox[s][i]
      BY <1>4, <3>1
    <3>4. Len(outbox'[s]) \in Nat /\ Len(outbox'[s]) <= n + 1
      BY <3>1, <3>3
    <3>. HIDE DEF n
    <3>5. n + 1 <= Due /\ First + n <= p.sync /\ p.sync < First + Due
      BY <2>2, <3>1, <3>2
    <3>6. ASSUME NEW q \in inbox'[s]
          PROVE  First + n + 1 <= q.sync /\ q.sync < First + Due
      <4>1. q \in inbox[s] /\ q # p
        BY <1>5
      <4>2. q.sync # p.sync /\ First + n <= q.sync /\ q.sync < First + Due
        BY <3>2, <4>1
      <4>3. CASE pc = "auth"
        <5>1. ~ (q.sync < p.sync)
          BY <1>2, <2>1, <2>4, <4>1, <4>3 DEF Expected
        <5>. QED BY <2>2, <3>1, <3>5, <4>1, <4>2, <5>1
      <4>4. CASE pc # "auth"
        <5>1. Due = 1
          BY <2>2, <3>1, <3>5, <4>4 DEF Due
        <5>. QED BY <2>2, <3>1, <3>5, <4>1, <4>2, <5>1
      <4>. QED BY <4>3, <4>4
    <3>7. Pending'
      <4>1. Len(outbox'[s]) <= Due
        BY <2>2, <3>1, <3>4, <3>5
      <4>2. ASSUME NEW q \in inbox'[s]
            PROVE  First + Len(outbox'[s]) <= q.sync /\ q.sync < First + Due
        <5>1. q.sync \in Nat
          BY <1>5, <3>1
        <5>. QED BY <2>2, <3>1, <3>4, <3>6, <5>1
      <4>3. \A q1, q2 \in inbox'[s] : q1.sync = q2.sync => q1 = q2
        BY <1>5, <3>2
      <4>. QED BY <1>1, <2>2, <2>4, <4>1, <4>2, <4>3 DEF Pending
    <3>8. Expected'
      <4>1. ASSUME pc \in {"lookup", "recv"}, NEW i \in 1 .. Len(outbox'[s])
            PROVE  outbox'[s][i].sync = mySync
        <5>1. Due = 1 /\ First = mySync /\ mySync \in Nat
          BY <4>1 DEF Due, First, StreamInv, TypeInv, TypeOK
        <5>2. p.sync = mySync
          BY <3>1, <3>5, <5>1
        <5>3. \A j \in 1 .. n : outbox[s][j].sync = mySync
          BY <2>1, <2>4, <4>1 DEF Expected, n
        <5>4. CASE outbox'[s] = outbox[s] /\ Len(outbox'[s]) = n
          BY <4>1, <5>3, <5>4
        <5>5. CASE /\ Len(outbox'[s]) = n + 1 /\ outbox'[s][n + 1] = r
                   /\ \A j \in 1 .. n : outbox'[s][j] = outbox[s][j]
          <6>1. i \in 1 .. n \/ i = n + 1
            BY <3>1, <4>1, <5>5
          <6>. QED BY <1>3, <5>2, <5>3, <5>5, <6>1
        <5>. QED BY <3>3, <5>4, <5>5
      <4>2. pc = "auth" => \A q \in inbox'[s] : q.kind # "user"
        BY <1>5, <2>1, <2>4 DEF Expected
      <4>. QED BY <1>1, <2>4, <4>1, <4>2 DEF Expected
    <3>. QED BY <1>1, <2>1, <3>7, <3>8 DEF BufferSpent
  <2>. QED BY <2>3, <2>4
<1>. QED BY <1>1, <1>7, <1>9, <1>10 DEF StreamInv

-----------------------------------------------------------------------------
(***************************************************************************)
(* Where a call goes on.                                                   *)
(***************************************************************************)
LEMMA ProceedPlaces ==
    ASSUME TypeInv, Proceed
    PROVE  pc' \in {"idle", "demand", "ready"}
BY DEF TypeInv, TypeOK, Proceed, Return, ReturnFrom

LEMMA AttemptPlaces ==
    ASSUME NEW n, NextAttempt(n)
    PROVE  pc' \in {"idle", "open"}
BY DEF NextAttempt, Return, ReturnFrom

LEMMA ResponsePlaces ==
    ASSUME TypeInv, pc = "auth", NEW status, NextResponse(status)
    PROVE  \/ left > 1 /\ pc' = "auth" /\ left' = left - 1 /\ mySync' = mySync
           \/ left <= 1 /\ pc' \in {"idle", "demand", "ready"}
<1>1. left \in Nat
  BY DEF TypeInv, TypeOK
<1>2. CASE left > 1
  BY <1>2 DEF NextResponse
<1>3. CASE ~ (left > 1)
  <2>1. Proceed \/ Return(status)
    BY <1>3 DEF NextResponse
  <2>2. pc' \in {"idle", "demand", "ready"}
    BY <2>1, ProceedPlaces DEF Return, ReturnFrom
  <2>. QED BY <1>1, <1>3, <2>2
<1>. QED BY <1>2, <1>3

(***************************************************************************)
(* What LookupJunk and AuthJunk leave of a greeting is never read as one.  *)
(***************************************************************************)
LEMMA JunkOnlyStream ==
    ASSUME TypeInv, stream \in Sock, HasJunk(stream), ConsumeJunk,
           UNCHANGED <<alive, nextSock, inbox, outbox>>
    PROVE  OnlyStream /\ hello'[stream] # "read"
BY DEF TypeInv, TypeOK, HasJunk, ConsumeJunk, OnlyStream

(***************************************************************************)
(* StreamInv, one lemma per group of actions.                              *)
(***************************************************************************)
LEMMA InitStream == Init /\ Password => StreamInv
<1>. SUFFICES ASSUME Init, Password PROVE StreamInv
  OBVIOUS
<1>1. TypeInv
  BY InitTyped
<1>2. NewSockets /\ Greeting /\ passwd /\ OnStream
  BY DEF Init, NewSockets, Unused, Greeting, OnStream, Greeted
<1>. QED BY <1>1, <1>2 DEF StreamInv

LEMMA ConnectStream == StreamInv /\ TypeInv' /\ Connect => StreamInv'
<1>. SUFFICES ASSUME StreamInv, TypeInv', Connect PROVE StreamInv'
  OBVIOUS
<1>1. CASE OpenSucceeds
  BY <1>1, OpenStep
<1>2. CASE OpenFails
  BY <1>2, AttemptPlaces, CalmStep DEF OpenFails, StreamInv, connVars
<1>3. CASE GreetingRead
  BY <1>3, GreetingStep
<1>4. CASE GreetingShort
  BY <1>4, AttemptPlaces, CalmStep DEF GreetingShort, StreamInv, connVars
<1>5. CASE GreetingBad
  <2>1. pc = "greet" /\ pc' = "idle" /\ UNCHANGED <<stream, passwd>>
        /\ UNCHANGED <<alive, nextSock, inbox, outbox>>
    BY <1>5 DEF GreetingBad, Return, ReturnFrom, connVars
  <2>2. stream \in Sock
    BY <2>1 DEF StreamInv, TypeInv, Blocked
  <2>3. OnlyStream /\ hello'[stream] # "read"
    BY <1>5, <2>1, <2>2 DEF GreetingBad, OnlyStream, StreamInv, TypeInv, TypeOK
  <2>. QED BY <2>1, <2>3, UnreadStep DEF StreamInv
<1>. QED BY <1>1, <1>2, <1>3, <1>4, <1>5 DEF Connect

LEMMA AuthBatchShape ==
    ASSUME TypeInv
    PROVE  /\ Len(AuthBatch) = BatchSize
           /\ \A i \in 1 .. Len(AuthBatch) :
                AuthBatch[i].sync = sync_counter + i - 1 /\ AuthBatch[i].kind # "user"
<1>1. sync_counter \in Nat
  BY DEF TypeInv, TypeOK
<1>2. /\ Len(AuthBatch) = 3
      /\ AuthBatch[1].sync = sync_counter + 0 /\ AuthBatch[1].kind = "auth"
      /\ AuthBatch[2].sync = sync_counter + 1 /\ AuthBatch[2].kind = "spaces"
      /\ AuthBatch[3].sync = sync_counter + 2 /\ AuthBatch[3].kind = "indexes"
  BY DEF AuthBatch, Fresh
<1>3. \A i \in 1 .. 3 : i = 1 \/ i = 2 \/ i = 3
  OBVIOUS
<1>. QED BY <1>1, <1>2, <1>3 DEF BatchSize

LEMMA AuthenticateStream == StreamInv /\ TypeInv' /\ Authenticate => StreamInv'
<1>. SUFFICES ASSUME StreamInv, TypeInv', Authenticate PROVE StreamInv'
  OBVIOUS
<1>1. CASE AuthSend
  <2>1. pc \in {"authSend", "ready"} /\ passwd' /\ UNCHANGED <<nextSock, alive, hello>>
    BY <1>1 DEF AuthSend, StreamInv
  <2>2. CASE SendSucceeds(AuthBatch) /\ pc' = "auth" /\ left' = BatchSize /\ mySync' = sync_counter
    <3>1. AuthBatch \in Seq(Packet)
      BY <2>1, BufferType DEF StreamInv
    <3>2. sync_counter \in Nat
      BY DEF StreamInv, TypeInv, TypeOK
    <3>3. Due' = BatchSize /\ First' = sync_counter
      BY <2>2, <3>2 DEF Due, First, BatchSize
    <3>. QED BY <2>1, <2>2, <3>1, <3>3, AuthBatchShape, SentStep DEF StreamInv
  <2>3. CASE SendFails(AuthBatch)
    BY <2>1, <2>3, FailedSendStep
  <2>. QED BY <1>1, <2>2, <2>3 DEF AuthSend
<1>2. CASE AuthReply
  <2>1. /\ pc = "auth" /\ HasReply(stream) /\ ConsumeReply /\ stream \in Sock
        /\ UNCHANGED <<stream, value, nextSock, alive, hello, inbox>> /\ passwd'
        /\ \E status : NextResponse(status)
    BY <1>2 DEF AuthReply, StreamInv, TypeInv, Blocked
  <2>2. left >= 1 /\ left \in Nat /\ mySync \in Nat
    <3>1. Greeted
      BY <2>1 DEF Greeted, HasReply
    <3>2. Len(outbox[stream]) <= left
      BY <2>1, <3>1 DEF StreamInv, OnStream, Pending, Due
    <3>3. outbox[stream] \in Seq(Reply) /\ outbox[stream] # <<>>
      BY <2>1 DEF HasReply, StreamInv, TypeInv, TypeOK
    <3>4. left \in Nat /\ mySync \in Nat
      BY DEF StreamInv, TypeInv, TypeOK
    <3>. QED BY <3>2, <3>3, <3>4
  <2>3. \/ left > 1 /\ pc' = "auth" /\ left' = left - 1 /\ mySync' = mySync
        \/ left <= 1 /\ pc' \in {"idle", "demand", "ready"}
    BY <2>1, ResponsePlaces DEF StreamInv
  <2>4. Due' = Due - 1
    BY <2>1, <2>2, <2>3 DEF Due
  <2>5. pc' = "auth" => First' = First + 1
    BY <2>1, <2>2, <2>3 DEF First, BatchSize
  <2>6. pc' # "greet" /\ pc' \notin {"lookup", "recv"}
    BY <2>3
  <2>. QED BY <2>1, <2>4, <2>5, <2>6, ReadStep
<1>3. CASE AuthJunk
  <2>1. /\ pc = "auth" /\ HasJunk(stream) /\ ConsumeJunk /\ stream \in Sock
        /\ UNCHANGED <<alive, nextSock, inbox, outbox, stream>> /\ passwd'
        /\ \E status : NextResponse(status)
    BY <1>3 DEF AuthJunk, StreamInv, TypeInv, Blocked, connVars
  <2>2. pc' # "greet"
    BY <2>1, ResponsePlaces DEF StreamInv
  <2>. QED BY <2>1, <2>2, JunkOnlyStream, UnreadStep DEF StreamInv
<1>4. CASE AuthShort
  BY <1>4, FailedReadStep DEF AuthShort, StreamInv
<1>. QED BY <1>1, <1>2, <1>3, <1>4 DEF Authenticate

LEMMA DemandStream == StreamInv /\ TypeInv' /\ Demand => StreamInv'
<1>. SUFFICES ASSUME StreamInv, TypeInv', Demand PROVE StreamInv'
  OBVIOUS
<1>1. CASE DemandConnect
  BY <1>1, CalmStep DEF DemandConnect, EnterConnect, StreamInv, connVars
<1>2. CASE DemandReconnect
  <2>1. OnlyStream /\ stream' = 0 /\ pc' = "open" /\ passwd'
    BY <1>2 DEF DemandReconnect, CloseStream, OnlyStream, EnterConnect, StreamInv
  <2>. QED BY <2>1, ClosedStep
<1>3. CASE DemandMet
  BY <1>3, CalmStep DEF DemandMet, StreamInv, connVars
<1>. QED BY <1>1, <1>2, <1>3 DEF Demand

LEMMA LookupStream == StreamInv /\ TypeInv' /\ Lookup => StreamInv'
<1>. SUFFICES ASSUME StreamInv, TypeInv', Lookup PROVE StreamInv'
  OBVIOUS
<1>1. CASE LookupSend
  <2>1. pc = "ready" /\ passwd' /\ UNCHANGED <<nextSock, alive, hello>>
    BY <1>1 DEF LookupSend, StreamInv
  <2>2. CASE SendSucceeds(LookupBuffer) /\ pc' = "lookup" /\ mySync' = sync_counter
    <3>1. LookupBuffer \in Seq(Packet)
      BY <2>1, BufferType DEF StreamInv
    <3>2. Due' = 1 /\ First' = sync_counter
      BY <2>2 DEF Due, First
    <3>3. sync_counter \in Nat
      BY DEF StreamInv, TypeInv, TypeOK
    <3>4. Len(LookupBuffer) = 1 /\ \A i \in 1 .. 1 : LookupBuffer[i].sync = sync_counter + i - 1
      BY <3>3 DEF LookupBuffer, Fresh
    <3>. QED BY <2>1, <2>2, <3>1, <3>2, <3>4, SentStep
  <2>3. CASE SendFails(LookupBuffer)
    BY <2>1, <2>3, FailedSendStep
  <2>. QED BY <1>1, <2>2, <2>3 DEF LookupSend
<1>2. CASE LookupReply
  <2>1. /\ pc = "lookup" /\ HasReply(stream) /\ ConsumeReply /\ stream \in Sock
        /\ UNCHANGED <<stream, value, nextSock, alive, hello, inbox>> /\ passwd'
        /\ pc' \in {"ready", "idle"}
    BY <1>2 DEF LookupReply, StreamInv, TypeInv, Blocked, Return, ReturnFrom
  <2>2. Due = 1 /\ Due' = 0
    BY <2>1 DEF Due
  <2>. QED BY <2>1, <2>2, ReadStep
<1>3. CASE LookupJunk
  <2>1. /\ pc = "lookup" /\ HasJunk(stream) /\ ConsumeJunk /\ stream \in Sock
        /\ UNCHANGED <<alive, nextSock, inbox, outbox, stream>> /\ passwd' /\ pc' = "idle"
    BY <1>3 DEF LookupJunk, StreamInv, TypeInv, Blocked, connVars, Return, ReturnFrom
  <2>. QED BY <2>1, JunkOnlyStream, UnreadStep DEF StreamInv
<1>4. CASE LookupShort
  BY <1>4, FailedReadStep DEF LookupShort, StreamInv
<1>. QED BY <1>1, <1>2, <1>3, <1>4 DEF Lookup

(***************************************************************************)
(* On a quiet stream the buffer holds nothing but the request itself.      *)
(***************************************************************************)
LEMMA RequestAlone ==
    ASSUME StreamInv, pc = "ready", Greeted
    PROVE  /\ value = <<>> /\ Len(RequestBuffer) = 1
           /\ \A i \in 1 .. Len(RequestBuffer) : RequestBuffer[i] = Fresh("user", 0)
<1>1. value = <<>>
  BY DEF StreamInv, OnStream, BufferSpent
<1>2. Len(value) = 0
  BY <1>1
<1>3. Len(RequestBuffer) = 1 /\ RequestBuffer[1] = Fresh("user", 0)
  BY <1>2, RequestBufferElements DEF StreamInv, TypeInv
<1>. QED BY <1>1, <1>3

LEMMA RequestStream == StreamInv /\ TypeInv' /\ Request => StreamInv'
<1>. SUFFICES ASSUME StreamInv, TypeInv', Request PROVE StreamInv'
  OBVIOUS
<1>1. CASE RequestSend
  <2>1. pc = "ready" /\ passwd' /\ UNCHANGED <<nextSock, alive, hello>>
    BY <1>1 DEF RequestSend, StreamInv
  <2>2. CASE SendSucceeds(RequestBuffer) /\ pc' = "recv" /\ mySync' = sync_counter
    <3>1. RequestBuffer \in Seq(Packet)
      BY <2>1, BufferType DEF StreamInv
    <3>2. Due' = 1 /\ First' = sync_counter
      BY <2>2 DEF Due, First
    <3>3. sync_counter \in Nat
      BY DEF StreamInv, TypeInv, TypeOK
    <3>4. Fresh("user", 0).sync = sync_counter
      BY <3>3 DEF Fresh
    <3>5. Greeted => /\ Len(RequestBuffer) = 1
                     /\ \A i \in 1 .. Len(RequestBuffer) : RequestBuffer[i].sync = sync_counter + i - 1
      <4>. SUFFICES ASSUME Greeted
                    PROVE  /\ Len(RequestBuffer) = 1
                           /\ \A i \in 1 .. Len(RequestBuffer) :
                                RequestBuffer[i].sync = sync_counter + i - 1
        OBVIOUS
      <4>1. Len(RequestBuffer) = 1 /\ \A i \in 1 .. Len(RequestBuffer) : RequestBuffer[i] = Fresh("user", 0)
        BY <2>1, RequestAlone
      <4>2. \A i \in 1 .. 1 : i = 1
        OBVIOUS
      <4>. QED BY <3>3, <3>4, <4>1, <4>2
    <3>. QED BY <2>1, <2>2, <3>1, <3>2, <3>5, SentStep
  <2>3. CASE SendFails(RequestBuffer)
    BY <2>1, <2>3, FailedSendStep
  <2>. QED BY <1>1, <2>2, <2>3 DEF RequestSend
<1>2. CASE RecvReply
  <2>1. /\ pc = "recv" /\ HasReply(stream) /\ stream \in Sock
        /\ UNCHANGED <<value, nextSock, alive, hello, inbox>> /\ passwd'
        /\ pc' = "idle"
        /\ (ConsumeReply /\ UNCHANGED stream) \/ CloseStream
    BY <1>2 DEF RecvReply, StreamInv, TypeInv, Blocked, Return, ReturnFrom
  <2>2. CASE ConsumeReply /\ UNCHANGED stream
    <3>1. Due = 1 /\ Due' = 0
      BY <2>1 DEF Due
    <3>. QED BY <2>1, <2>2, <3>1, ReadStep
  <2>3. CASE CloseStream
    <3>1. OnlyStream /\ stream' = 0
      BY <2>1, <2>3 DEF CloseStream, OnlyStream
    <3>. QED BY <2>1, <3>1, ClosedStep
  <2>. QED BY <2>1, <2>2, <2>3
<1>3. CASE RecvJunk
  <2>1. OnlyStream /\ stream' = 0 /\ pc' = "idle" /\ passwd'
    BY <1>3 DEF RecvJunk, CloseStream, OnlyStream, Return, ReturnFrom, StreamInv
  <2>. QED BY <2>1, ClosedStep
<1>4. CASE RecvShort
  BY <1>4, FailedReadStep DEF RecvShort, StreamInv
<1>. QED BY <1>1, <1>2, <1>3, <1>4 DEF Request

LEMMA ScriptStream == StreamInv /\ TypeInv' /\ Script => StreamInv'
<1>. SUFFICES ASSUME StreamInv, TypeInv', Script PROVE StreamInv'
  OBVIOUS
<1>1. CASE StartReconnect
  <2>1. OnlyStream /\ stream' = 0 /\ pc' = "open" /\ passwd'
    BY <1>1 DEF StartReconnect, CloseStream, OnlyStream, EnterConnect, StreamInv
  <2>. QED BY <2>1, ClosedStep
<1>2. CASE ~ StartReconnect
  <2>1. /\ pc = "idle" /\ pc' \in {"idle", "demand", "open"}
        /\ UNCHANGED <<stream, value, netVars>> /\ passwd'
    BY <1>2 DEF Script, StartRequest, StartAuthenticate, StartConnect, FlushSchema, Close,
                Start, EnterConnect, ReturnFrom, StreamInv, connVars
  <2>. QED BY <2>1, CalmStep
<1>. QED BY <1>1, <1>2

LEMMA NextStream == StreamInv /\ [Next]_vars => StreamInv'
<1>. SUFFICES ASSUME StreamInv, [Next]_vars PROVE StreamInv'
  OBVIOUS
<1>1. TypeInv'
  BY NextTyped DEF StreamInv
<1>2. CASE UNCHANGED vars
  BY <1>2
     DEF vars, callVars, connVars, netVars, seenVars, StreamInv, TypeInv, TypeOK, Blocked,
         NewSockets, Unused, Greeting, OnStream, Greeted, Pending, Expected, BufferSpent,
         Due, First
<1>3. CASE Server
  <2>1. PICK s \in Sock : Greet(s) \/ Execute(s) \/ Drop(s)
    BY <1>3 DEF Server
  <2>. QED BY <1>1, <2>1, GreetStep, ExecuteStream, DropStep
<1>. QED BY <1>1, <1>2, <1>3, ConnectStream, AuthenticateStream, DemandStream, LookupStream,
            RequestStream, ScriptStream
         DEF Next, Extension, Finished

(***************************************************************************)
(* The inductive invariant of the stream of an object that was given a     *)
(* password, with any faults, any retry count and after any number of      *)
(* reconnects: a call that waits for n replies has at most n replies and   *)
(* requests on a stream whose greeting it read, and they are its own.      *)
(***************************************************************************)
THEOREM StreamInvariant ==
    ASSUME Password
    PROVE  Spec => []StreamInv
<1>1. Init => StreamInv
  BY InitStream
<1>. QED BY <1>1, NextStream, PTL DEF Spec

(***************************************************************************)
(* Between two calls no reply is outstanding: every path of every method   *)
(* that leaves one unread closes the stream.                               *)
(***************************************************************************)
THEOREM StreamQuiet ==
    ASSUME Password
    PROVE  Spec => []Quiescent
<1>1. StreamInv => Quiescent
  <2>. SUFFICES ASSUME StreamInv, pc = "idle", Greeted
                PROVE  inbox[stream] = {} /\ outbox[stream] = <<>>
    BY DEF Quiescent, Greeted
  <2>1. Due = 0
    BY DEF Due
  <2>. QED BY <2>1, QuietPending DEF StreamInv, OnStream, Greeted
<1>. QED BY <1>1, StreamInvariant, PTL

LEMMA SmallMod ==
    ASSUME NEW n \in Nat, NEW m \in Nat, n < m
    PROVE  n % m = n
OBVIOUS

LEMMA CounterGrows ==
    ASSUME TypeInv, [Next]_vars
    PROVE  sync_counter' >= sync_counter
<1>1. sync_counter \in Nat
  BY DEF TypeInv, TypeOK
<1>2. \/ UNCHANGED sync_counter
      \/ sync_counter' = sync_counter + BatchSize
      \/ sync_counter' = sync_counter + 1
  <2>1. CASE Connect \/ Demand
    BY <2>1
       DEF Connect, OpenSucceeds, OpenFails, GreetingRead, GreetingShort, GreetingBad, connVars,
           Demand, DemandConnect, DemandReconnect, DemandMet
  <2>2. CASE Authenticate \/ Lookup \/ Request
    BY <2>2
       DEF Authenticate, AuthSend, AuthReply, AuthJunk, AuthShort, connVars,
           Lookup, LookupSend, LookupReply, LookupJunk, LookupShort,
           Request, RequestSend, RecvReply, RecvJunk, RecvShort
  <2>3. CASE Script
    BY <2>3
       DEF Script, StartRequest, StartAuthenticate, StartConnect, StartReconnect, FlushSchema,
           Close, connVars
  <2>4. CASE Server \/ Finished \/ UNCHANGED vars
    BY <2>4 DEF Server, Greet, Execute, Drop, Finished, vars, connVars
  <2>. QED BY <2>1, <2>2, <2>3, <2>4 DEF Next, Extension
<1>. QED BY <1>1, <1>2 DEF BatchSize

-----------------------------------------------------------------------------
(***************************************************************************)
(* The outcomes that would show a reply taken for another one.  Only two   *)
(* actions end a call with them.                                           *)
(***************************************************************************)
Outcome(how) == \E c \in Calls : outcome[c] = how

LEMMA OutcomeFrom ==
    ASSUME TypeInv, TypeInv', [Next]_vars, NEW how \in {"undefined", "sync"}, Outcome(how)'
    PROVE  \/ Outcome(how)
           \/ how = "undefined" /\ LookupReply
                /\ Head(outbox[stream]).code = "ok" /\ Head(outbox[stream]).sync # mySync
           \/ how = "sync" /\ RecvReply /\ ~ SyncMatches(Head(outbox[stream]))
<1>. SUFFICES ASSUME ~ Outcome(how)
              PROVE  \/ how = "undefined" /\ LookupReply
                          /\ Head(outbox[stream]).code = "ok" /\ Head(outbox[stream]).sync # mySync
                     \/ how = "sync" /\ RecvReply /\ ~ SyncMatches(Head(outbox[stream]))
  OBVIOUS
<1>1. PICK c \in Calls : outcome'[c] = how
  BY DEF Outcome
<1>2. outcome'[c] # outcome[c]
  BY <1>1 DEF Outcome
<1>3. ASSUME NEW d, NEW x, NEW own, ReturnFrom(d, x, own)
      PROVE  x = how
  BY <1>1, <1>2, <1>3 DEF ReturnFrom, TypeInv, TypeOK
<1>4. ASSUME NEW x, Return(x)
      PROVE  x = how
  BY <1>3, <1>4 DEF Return
<1>5. ASSUME Proceed
      PROVE  FALSE
  BY <1>2, <1>4, <1>5 DEF Proceed, seenVars
<1>6. ASSUME NEW n, NextAttempt(n)
      PROVE  FALSE
  BY <1>2, <1>4, <1>6 DEF NextAttempt, seenVars
<1>7. ASSUME NEW status, status \in {"ok", "parse", "client"}, NextResponse(status)
      PROVE  FALSE
  BY <1>2, <1>4, <1>5, <1>7 DEF NextResponse, seenVars
<1>8. ASSUME NEW buf, SendFails(buf)
      PROVE  FALSE
  BY <1>4, <1>8 DEF SendFails
<1>9. ASSUME FailRead
      PROVE  FALSE
  BY <1>4, <1>9 DEF FailRead
<1>10. ~ (UNCHANGED outcome)
  BY <1>2
<1>11. CASE Connect
  BY <1>4, <1>5, <1>6, <1>10, <1>11
     DEF Connect, OpenSucceeds, OpenFails, GreetingRead, GreetingShort, GreetingBad, seenVars
<1>12. CASE Authenticate
  <2>1. CASE AuthSend
    BY <1>8, <1>10, <2>1 DEF AuthSend, seenVars
  <2>2. CASE AuthReply
    <3>1. BatchStatus(Head(outbox[stream])) \in {"ok", "parse", "client"}
      BY DEF BatchStatus, TypeInv, TypeOK
    <3>. QED BY <1>7, <2>2, <3>1 DEF AuthReply
  <2>3. CASE AuthJunk
    <3>1. (IF batch = "ok" THEN "parse" ELSE batch) \in {"ok", "parse", "client"}
      BY DEF TypeInv, TypeOK
    <3>. QED BY <1>7, <2>3, <3>1 DEF AuthJunk
  <2>4. CASE AuthShort
    BY <1>9, <2>4 DEF AuthShort
  <2>. QED BY <1>12, <2>1, <2>2, <2>3, <2>4 DEF Authenticate
<1>13. CASE Demand
  BY <1>10, <1>13 DEF Demand, DemandConnect, DemandReconnect, DemandMet, seenVars
<1>14. CASE Lookup
  <2>1. CASE LookupSend
    BY <1>8, <1>10, <2>1 DEF LookupSend, seenVars
  <2>2. CASE LookupReply
    BY <1>4, <1>10, <2>2 DEF LookupReply, seenVars
  <2>3. CASE LookupJunk
    BY <1>4, <2>3 DEF LookupJunk
  <2>4. CASE LookupShort
    BY <1>9, <2>4 DEF LookupShort
  <2>. QED BY <1>14, <2>1, <2>2, <2>3, <2>4 DEF Lookup
<1>15. CASE Request
  <2>1. CASE RequestSend
    BY <1>8, <1>10, <2>1 DEF RequestSend, seenVars
  <2>2. CASE RecvReply
    BY <1>3, <1>4, <2>2 DEF RecvReply
  <2>3. CASE RecvJunk
    BY <1>4, <2>3 DEF RecvJunk
  <2>4. CASE RecvShort
    BY <1>9, <2>4 DEF RecvShort
  <2>. QED BY <1>15, <2>1, <2>2, <2>3, <2>4 DEF Request
<1>16. CASE Script
  BY <1>3, <1>10, <1>16
     DEF Script, StartRequest, StartAuthenticate, StartConnect, StartReconnect, FlushSchema,
         Close, seenVars
<1>17. CASE Server \/ Finished \/ UNCHANGED vars
  BY <1>10, <1>17 DEF Server, Greet, Execute, Drop, Finished, vars, seenVars
<1>. QED BY <1>11, <1>12, <1>13, <1>14, <1>15, <1>16, <1>17 DEF Next, Extension

(***************************************************************************)
(* The reply a lookup or a request reads has the sync it waits for.        *)
(***************************************************************************)
LEMMA NextReplyExpected ==
    ASSUME StreamInv, pc \in {"lookup", "recv"}, HasReply(stream)
    PROVE  Head(outbox[stream]).sync = mySync
<1>1. stream \in Sock /\ stream # 0
  BY DEF StreamInv, TypeInv, Blocked
<1>2. outbox[stream] \in Seq(Reply) /\ outbox[stream] # <<>>
  BY <1>1 DEF StreamInv, TypeInv, TypeOK, HasReply
<1>3. 1 \in 1 .. Len(outbox[stream]) /\ Head(outbox[stream]) = outbox[stream][1]
  BY <1>2
<1>. QED BY <1>1, <1>3 DEF StreamInv, OnStream, Expected, Greeted, HasReply

(***************************************************************************)
(* A lookup reads its own response, although it does not compare syncs: an *)
(* existing space or index is never reported as undefined.                 *)
(***************************************************************************)
THEOREM LookupsFindNames ==
    ASSUME Password
    PROVE  Spec => []NamesAreFound
<1>1. Init => NamesAreFound
  BY DEF Init, NamesAreFound
<1>2. StreamInv /\ StreamInv' /\ NamesAreFound /\ [Next]_vars => NamesAreFound'
  <2>. SUFFICES ASSUME StreamInv, StreamInv', NamesAreFound, [Next]_vars, Outcome("undefined")'
                PROVE  FALSE
    BY DEF NamesAreFound, Outcome
  <2>1. ~ Outcome("undefined")
    BY DEF NamesAreFound, Outcome
  <2>2. LookupReply /\ Head(outbox[stream]).sync # mySync
    BY <2>1, OutcomeFrom DEF StreamInv
  <2>. QED BY <2>2, NextReplyExpected DEF LookupReply
<1>. QED BY <1>1, <1>2, StreamInvariant, PTL DEF Spec

(***************************************************************************)
(* After any failure the next reply is the one asked for, as long as the   *)
(* counter of the syncs has not passed the range of the packets' uint32_t: *)
(* beyond it every comparison with the unsigned long fails.                *)
(***************************************************************************)
THEOREM SyncsMatch ==
    ASSUME Password
    PROVE  Spec => [](sync_counter <= SyncMod => NoSyncMismatch)
<1>. DEFINE Wrapped == NoSyncMismatch \/ sync_counter > SyncMod
<1>1. Init => Wrapped
  BY DEF Init, NoSyncMismatch
<1>2. CallInv /\ CallInv' /\ StreamInv /\ StreamInv' /\ Wrapped /\ [Next]_vars => Wrapped'
  <2>. SUFFICES ASSUME CallInv, CallInv', StreamInv, StreamInv', Wrapped, [Next]_vars
                PROVE  Wrapped'
    OBVIOUS
  <2>1. sync_counter' >= sync_counter
    BY CounterGrows DEF StreamInv
  <2>2. sync_counter \in Nat /\ sync_counter' \in Nat /\ SyncMod \in Nat /\ SyncMod > 0
    BY SyncModAssumption DEF StreamInv, TypeInv, TypeOK
  <2>3. CASE sync_counter > SyncMod
    BY <2>1, <2>2, <2>3
  <2>4. CASE NoSyncMismatch
    <3>. SUFFICES ASSUME Outcome("sync")' PROVE sync_counter' > SyncMod
      BY DEF NoSyncMismatch, Outcome
    <3>1. ~ Outcome("sync")
      BY <2>4 DEF NoSyncMismatch, Outcome
    <3>2. RecvReply /\ ~ SyncMatches(Head(outbox[stream]))
      BY <3>1, OutcomeFrom DEF StreamInv
    <3>3. pc = "recv" /\ HasReply(stream)
      BY <3>2 DEF RecvReply
    <3>4. Head(outbox[stream]).sync = mySync /\ mySync % SyncMod # mySync
      BY <3>2, <3>3, NextReplyExpected DEF SyncMatches
    <3>5. mySync \in Nat /\ sync_counter = mySync + 1
      BY <3>3 DEF CallInv, Awaiting, TypeOK
    <3>6. ~ (mySync < SyncMod)
      BY <2>2, <3>4, <3>5, SmallMod
    <3>. QED BY <2>1, <2>2, <3>5, <3>6
  <2>. QED BY <2>3, <2>4
<1>3. CallInv /\ Wrapped => (sync_counter <= SyncMod => NoSyncMismatch)
  BY SyncModAssumption DEF CallInv, TypeOK
<1>. QED BY <1>1, <1>2, <1>3, CallInvariant, StreamInvariant, PTL DEF Spec

-----------------------------------------------------------------------------
(***************************************************************************)
(* Streams are closed before the object forgets them, when a connect makes *)
(* one attempt: after a greeting that did not come the next attempt        *)
(* overwrites obj->stream.                                                 *)
(***************************************************************************)
OneStream ==
    /\ clientOpen \subseteq {stream}
    /\ pc = "greet" => left = 0
    /\ pc = "open" => left = 1 /\ stream = 0

LEMMA NextOneStream ==
    ASSUME RetryCount = 1, TypeInv, OneStream, [Next]_vars
    PROVE  OneStream'
<1>1. clientOpen \subseteq Sock /\ left \in Nat
  BY DEF TypeInv, TypeOK
<1>2. CloseStream => clientOpen' \subseteq {stream'}
  BY DEF CloseStream, OneStream
<1>3. UNCHANGED <<stream, clientOpen>> => clientOpen' \subseteq {stream'}
  BY DEF OneStream
<1>4. ASSUME NEW how, Return(how)
      PROVE  pc' \notin {"greet", "open"}
  BY <1>4 DEF Return, ReturnFrom
<1>5. CASE OpenSucceeds
  <2>1. stream = 0 /\ left = 1 /\ 0 \notin clientOpen
    BY <1>1, <1>5 DEF OpenSucceeds, OneStream
  <2>2. clientOpen = {}
    BY <2>1 DEF OneStream
  <2>. QED BY <1>5, <2>1, <2>2 DEF OpenSucceeds, OneStream
<1>6. CASE OpenFails
  <2>1. left - 1 = 0
    BY <1>6 DEF OpenFails, OneStream
  <2>. QED BY <1>3, <1>4, <1>6, <2>1 DEF OpenFails, NextAttempt, OneStream, connVars, netVars
<1>7. CASE GreetingRead
  <2>1. pc' \notin {"greet", "open"}
    <3>1. CASE passwd
      BY <1>7, <3>1 DEF GreetingRead
    <3>2. CASE ~ passwd
      BY <1>7, <3>2, ProceedPlaces DEF GreetingRead
    <3>. QED BY <3>1, <3>2
  <2>. QED BY <1>3, <1>7, <2>1 DEF GreetingRead, OneStream, connVars
<1>8. CASE GreetingShort
  <2>1. left = 0
    BY <1>8 DEF GreetingShort, OneStream
  <2>. QED BY <1>3, <1>4, <1>8, <2>1 DEF GreetingShort, NextAttempt, OneStream, connVars, netVars
<1>9. CASE GreetingBad
  BY <1>3, <1>4, <1>9 DEF GreetingBad, OneStream, connVars
<1>10. ASSUME NEW buf, SendFails(buf)
       PROVE  OneStream'
  BY <1>2, <1>4, <1>10 DEF SendFails, OneStream
<1>11. ASSUME FailRead
       PROVE  OneStream'
  BY <1>2, <1>4, <1>11 DEF FailRead, OneStream
<1>12. CASE Authenticate
  <2>1. CASE AuthSend
    BY <1>3, <1>10, <2>1 DEF AuthSend, SendSucceeds, OneStream
  <2>2. CASE AuthReply \/ AuthJunk
    <3>1. pc = "auth" /\ (\E status : NextResponse(status)) /\ UNCHANGED <<stream, clientOpen>>
      BY <2>2 DEF AuthReply, AuthJunk, connVars
    <3>2. pc' \notin {"greet", "open"}
      BY <3>1, ResponsePlaces
    <3>. QED BY <1>3, <3>1, <3>2 DEF OneStream
  <2>3. CASE AuthShort
    BY <1>11, <2>3 DEF AuthShort
  <2>. QED BY <1>12, <2>1, <2>2, <2>3 DEF Authenticate
<1>13. CASE Demand
  BY <1>2, <1>3, <1>13
     DEF Demand, DemandConnect, DemandReconnect, DemandMet, EnterConnect, CloseStream,
         OneStream, connVars, netVars
<1>14. CASE Lookup
  <2>1. CASE LookupSend
    BY <1>3, <1>10, <2>1 DEF LookupSend, SendSucceeds, OneStream
  <2>2. CASE LookupReply \/ LookupJunk
    BY <1>3, <1>4, <2>2 DEF LookupReply, LookupJunk, OneStream, connVars
  <2>3. CASE LookupShort
    BY <1>11, <2>3 DEF LookupShort
  <2>. QED BY <1>14, <2>1, <2>2, <2>3 DEF Lookup
<1>15. CASE Request
  <2>1. CASE RequestSend
    BY <1>3, <1>10, <2>1 DEF RequestSend, SendSucceeds, OneStream
  <2>2. CASE RecvReply \/ RecvJunk
    BY <1>2, <1>3, <2>2 DEF RecvReply, RecvJunk, Return, ReturnFrom, OneStream
  <2>3. CASE RecvShort
    BY <1>11, <2>3 DEF RecvShort
  <2>. QED BY <1>15, <2>1, <2>2, <2>3 DEF Request
<1>16. CASE Script
  <2>1. pc' # "greet"
    BY <1>16 DEF Script, StartRequest, StartAuthenticate, StartConnect, StartReconnect,
                 FlushSchema, Close, EnterConnect, ReturnFrom
  <2>2. pc' = "open" => left' = 1 /\ stream' = 0
    BY <1>16 DEF Script, StartRequest, StartAuthenticate, StartConnect, StartReconnect,
                 FlushSchema, Close, EnterConnect, ReturnFrom, CloseStream, connVars
  <2>3. UNCHANGED <<stream, clientOpen>> \/ CloseStream
    BY <1>16 DEF Script, StartRequest, StartAuthenticate, StartConnect, StartReconnect,
                 FlushSchema, Close, connVars, netVars
  <2>. QED BY <1>2, <1>3, <2>1, <2>2, <2>3 DEF OneStream
<1>17. CASE Server \/ Finished \/ UNCHANGED vars
  <2>1. UNCHANGED <<pc, left, stream, clientOpen>>
    BY <1>17 DEF Server, Greet, Execute, Drop, Finished, vars, callVars, connVars, netVars
  <2>. QED BY <2>1 DEF OneStream
<1>. QED BY <1>5, <1>6, <1>7, <1>8, <1>9, <1>12, <1>13, <1>14, <1>15, <1>16, <1>17
         DEF Next, Extension, Connect

(***************************************************************************)
(* With tarantool.retry_count = 1 the object leaks no connection: between  *)
(* two calls its stream is the only open one, whatever went wrong.         *)
(***************************************************************************)
THEOREM NoLeak ==
    ASSUME RetryCount = 1
    PROVE  Spec => []NoLeakedStream
<1>1. Init => OneStream
  BY DEF Init, OneStream
<1>2. OneStream => NoLeakedStream
  BY DEF OneStream, NoLeakedStream
<1>. QED BY <1>1, <1>2, NextOneStream, TypeInvariant, PTL DEF Spec

(***************************************************************************)
(* Only the server makes progress in `runs`.                               *)
(***************************************************************************)
LEMMA ReturnRuns == \A d, how, own : ReturnFrom(d, how, own) => runs' = runs
BY DEF ReturnFrom

LEMMA RunsOnlyGrowInExecute ==
    ASSUME Next, runs' # runs
    PROVE  \E s \in Sock : Execute(s)
<1>1. \A how : Return(how) => runs' = runs
  BY ReturnRuns DEF Return
<1>2. Proceed => runs' = runs
  BY <1>1 DEF Proceed, seenVars
<1>3. \A n : NextAttempt(n) => runs' = runs
  BY <1>1 DEF NextAttempt, seenVars
<1>4. \A status : NextResponse(status) => runs' = runs
  BY <1>1, <1>2 DEF NextResponse, seenVars
<1>5. \A buf : SendFails(buf) => runs' = runs
  BY <1>1 DEF SendFails
<1>6. FailRead => runs' = runs
  BY <1>1 DEF FailRead
<1>7. Connect => runs' = runs
  BY <1>1, <1>2, <1>3
     DEF Connect, OpenSucceeds, OpenFails, GreetingRead, GreetingShort, GreetingBad, seenVars
<1>8. Authenticate => runs' = runs
  BY <1>4, <1>5, <1>6 DEF Authenticate, AuthSend, AuthReply, AuthJunk, AuthShort, seenVars
<1>9. Demand => runs' = runs
  BY DEF Demand, DemandConnect, DemandReconnect, DemandMet, seenVars
<1>10. Lookup => runs' = runs
  BY <1>1, <1>5, <1>6 DEF Lookup, LookupSend, LookupReply, LookupJunk, LookupShort, seenVars
<1>11. Request => runs' = runs
  BY <1>1, <1>5, <1>6, ReturnRuns
     DEF Request, RequestSend, RecvReply, RecvJunk, RecvShort, seenVars
<1>12. Script => runs' = runs
  BY ReturnRuns
     DEF Script, StartRequest, StartAuthenticate, StartConnect, StartReconnect, FlushSchema,
         Close, seenVars
<1>13. Server => runs' = runs \/ \E s \in Sock : Execute(s)
  BY DEF Server, Greet, Drop, seenVars
<1>14. Finished => runs' = runs
  BY DEF Finished, vars, seenVars
<1>. QED BY <1>7, <1>8, <1>9, <1>10, <1>11, <1>12, <1>13, <1>14 DEF Next, Extension

LEMMA QuietPendingNext ==
    ASSUME TypeInv', stream' # 0, Due' = 0, Pending'
    PROVE  inbox'[stream'] = {} /\ outbox'[stream'] = <<>>
<1>1. stream' \in Sock
  <2>1. stream' \in 0 .. MaxSock
    BY DEF TypeInv, TypeOK
  <2>. QED BY <2>1, BoundsAssumption
<1>2. outbox'[stream'] \in Seq(Reply) /\ \A p \in inbox'[stream'] : p.sync \in Nat
  <2>1. outbox'[stream'] \in Seq(Reply) /\ inbox'[stream'] \in SUBSET Packet
    BY <1>1 DEF TypeInv, TypeOK
  <2>. QED BY <2>1 DEF Packet
<1>3. First' \in Int
  BY DEF TypeInv, TypeOK, First, BatchSize
<1>4. Len(outbox'[stream']) = 0
  BY <1>2 DEF Pending
<1>5. \A p \in inbox'[stream'] : First' <= p.sync /\ p.sync < First'
  BY <1>3, <1>4 DEF Pending
<1>. QED BY <1>2, <1>3, <1>4, <1>5

-----------------------------------------------------------------------------
(***************************************************************************)
(* Sessions: LoginFirst, LoginTried and GreetingKnown, when no greeting    *)
(* comes late.                                                             *)
(***************************************************************************)
LEMMA StreamIsSock ==
    ASSUME TypeInv, stream # 0
    PROVE  stream \in Sock
<1>1. stream \in 0 .. MaxSock
  BY DEF TypeInv, TypeOK
<1>. QED BY <1>1, BoundsAssumption

LEMMA LoginFirstKept ==
    ASSUME LoginFirst, UNCHANGED <<inbox, session>>, \A s \in Sock : Served(s)' => Served(s)
    PROVE  LoginFirst'
BY DEF LoginFirst, LoginAhead

LEMMA LoginFirstSent ==
    ASSUME TypeInv, LoginFirst, NEW buf, NEW n \in 0 .. Len(buf), Len(buf) \in Nat, Deliver(buf, n),
           UNCHANGED <<session, hello>>,
           alive[stream] /\ Served(stream) /\ session[stream] = "guest" =>
              \A i \in 1 .. Len(buf) : buf[i].kind # "user"
    PROVE  LoginFirst'
<1>. SUFFICES ASSUME NEW s \in Sock, NEW p \in inbox'[s], p.kind = "user", Served(s),
                     session[s] = "guest"
              PROVE  \E q \in inbox'[s] : q.kind = "auth" /\ q.sync < p.sync
  BY DEF LoginFirst, LoginAhead, Served
<1>1. inbox[s] \subseteq inbox'[s]
  BY DEF Deliver
<1>2. CASE p \in inbox[s]
  BY <1>1, <1>2 DEF LoginFirst, LoginAhead
<1>3. CASE p \notin inbox[s]
  <2>1. s = stream /\ alive[s] /\ \E i \in 1 .. n : p = buf[i]
    BY <1>3 DEF Deliver
  <2>2. 1 .. n \subseteq 1 .. Len(buf)
    OBVIOUS
  <2>. QED BY <2>1, <2>2
<1>. QED BY <1>2, <1>3

LEMMA TriedCalm ==
    ASSUME LoginTried, UNCHANGED <<stream, alive, hello, session>>, pc \notin {"authSend", "auth"}
    PROVE  LoginTried'
BY DEF LoginTried, Greeted

LEMMA KnownCalm ==
    ASSUME GreetingKnown, UNCHANGED <<stream, alive, hello>>, pc # "greet"
    PROVE  GreetingKnown'
BY DEF GreetingKnown

LEMMA LoginsCalm ==
    ASSUME Logins, UNCHANGED <<stream, alive, hello, inbox, session>>,
           pc \notin {"authSend", "auth", "greet"}
    PROVE  Logins'
BY LoginFirstKept, TriedCalm, KnownCalm DEF Logins, Served

LEMMA LoginsClosed ==
    ASSUME Logins, stream' = 0, UNCHANGED <<hello, inbox, session>>
    PROVE  Logins'
BY LoginFirstKept DEF Logins, Served, LoginTried, GreetingKnown, Greeted

LEMMA LoginsSendFails ==
    ASSUME TypeInv, Logins, NEW buf \in Seq(Packet), SendFails(buf), UNCHANGED <<session, hello>>,
           alive[stream] /\ Served(stream) /\ session[stream] = "guest" =>
              \A i \in 1 .. Len(buf) : buf[i].kind # "user"
    PROVE  Logins'
<1>1. PICK n \in 0 .. Len(buf) - 1 : Deliver(buf, n)
  BY DEF SendFails
<1>2. n \in 0 .. Len(buf) /\ Len(buf) \in Nat
  OBVIOUS
<1>3. LoginFirst'
  BY <1>1, <1>2, LoginFirstSent DEF Logins
<1>4. stream' = 0
  BY DEF SendFails, CloseStream
<1>. QED BY <1>3, <1>4 DEF Logins, LoginTried, GreetingKnown, Greeted

LEMMA LoginsSendSucceeds ==
    ASSUME TypeInv, Logins, NEW buf \in Seq(Packet), SendSucceeds(buf),
           UNCHANGED <<session, hello, alive>>, pc = "ready",
           alive[stream] /\ Served(stream) /\ session[stream] = "guest" =>
              \A i \in 1 .. Len(buf) : buf[i].kind # "user"
    PROVE  Logins'
<1>1. Deliver(buf, Len(buf)) /\ Len(buf) \in 0 .. Len(buf) /\ Len(buf) \in Nat /\ UNCHANGED stream
  BY DEF SendSucceeds
<1>2. LoginFirst'
  BY <1>1, LoginFirstSent DEF Logins
<1>. QED BY <1>1, <1>2, TriedCalm, KnownCalm DEF Logins

(***************************************************************************)
(* A call that is about to send is on a stream whose login was answered,   *)
(* or on one the server does not serve.                                    *)
(***************************************************************************)
LEMMA ReadyLoggedIn ==
    ASSUME TypeInv, Logins, pc = "ready", alive[stream], Served(stream)
    PROVE  session[stream] # "guest"
<1>1. stream \in Sock /\ stream # 0
  BY DEF TypeInv, Blocked
<1>2. hello[stream] = "read"
  BY <1>1 DEF Logins, GreetingKnown, Served
<1>. QED BY <1>1, <1>2 DEF Logins, LoginTried, Greeted

LEMMA ServedKept ==
    ASSUME TypeInv, stream \in Sock, ConsumeJunk
    PROVE  \A s \in Sock : Served(s)' => Served(s)
BY DEF TypeInv, TypeOK, ConsumeJunk, Served

LEMMA LoginsJunk ==
    ASSUME TypeInv, Logins, stream \in Sock, HasJunk(stream), ConsumeJunk, pc # "greet",
           UNCHANGED <<stream, alive, inbox, session>>
    PROVE  Logins'
<1>1. LoginFirst'
  BY ServedKept, LoginFirstKept DEF Logins
<1>2. hello'[stream] # "read"
  BY DEF TypeInv, TypeOK, ConsumeJunk, HasJunk
<1>3. hello[stream] = "alien" => hello'[stream] = "alien"
  BY DEF TypeInv, TypeOK, ConsumeJunk
<1>4. GreetingKnown'
  BY <1>3 DEF Logins, GreetingKnown, HasJunk
<1>. QED BY <1>1, <1>2, <1>4 DEF Logins, LoginTried, Greeted

LEMMA ConnectLogins ==
    ASSUME "greeting" \notin Faults, StreamInv, TypeInv', Logins, Connect
    PROVE  Logins'
<1>1. CASE OpenSucceeds
  <2>1. pc' = "greet" /\ UNCHANGED <<hello, inbox, session>>
    BY <1>1 DEF OpenSucceeds
  <2>2. StreamInv'
    BY <1>1, OpenStep
  <2>3. ~ Greeted'
    BY <2>1, <2>2 DEF StreamInv, Greeting, Greeted
  <2>. QED BY <2>1, <2>3, LoginFirstKept DEF Logins, Served, LoginTried, GreetingKnown
<1>2. CASE OpenFails
  BY <1>2, LoginsCalm DEF OpenFails, connVars, netVars
<1>3. CASE GreetingRead
  <2>1. /\ pc = "greet" /\ pc' = "authSend" /\ hello' = [hello EXCEPT ![stream] = "read"]
        /\ UNCHANGED <<stream, inbox, session>> /\ hello[stream] = "sent"
    BY <1>3 DEF GreetingRead, StreamInv, connVars
  <2>2. stream \in Sock
    BY <2>1 DEF StreamInv, TypeInv, Blocked
  <2>3. hello'[stream] = "read" /\ \A s \in Sock : Served(s)' => Served(s)
    BY <2>1, <2>2 DEF StreamInv, TypeInv, TypeOK, Served
  <2>. QED BY <2>1, <2>3, LoginFirstKept DEF Logins, LoginTried, GreetingKnown
<1>4. CASE GreetingShort
  <2>1. /\ ~ alive[stream] /\ UNCHANGED <<stream, alive, hello, inbox, session>>
    BY <1>4 DEF GreetingShort, connVars, netVars
  <2>. QED BY <2>1, LoginFirstKept DEF Logins, Served, LoginTried, GreetingKnown
<1>5. CASE GreetingBad
  <2>1. /\ pc = "greet" /\ hello' = [hello EXCEPT ![stream] = "alien"]
        /\ UNCHANGED <<stream, inbox, session>>
    BY <1>5 DEF GreetingBad, connVars
  <2>2. stream \in Sock
    BY <2>1 DEF StreamInv, TypeInv, Blocked
  <2>3. hello'[stream] = "alien" /\ \A s \in Sock : Served(s)' => Served(s)
    BY <2>1, <2>2 DEF StreamInv, TypeInv, TypeOK, Served
  <2>. QED BY <2>1, <2>3, LoginFirstKept DEF Logins, LoginTried, GreetingKnown, Greeted
<1>. QED BY <1>1, <1>2, <1>3, <1>4, <1>5 DEF Connect

LEMMA AuthenticateLogins ==
    ASSUME StreamInv, StreamInv', Logins, Authenticate
    PROVE  Logins'
<1>1. CASE AuthSend
  <2>1. /\ pc \in {"authSend", "ready"} /\ UNCHANGED <<alive, hello, session>> /\ stream \in Sock
        /\ AuthBatch \in Seq(Packet)
    BY <1>1, BufferType DEF AuthSend, StreamInv, TypeInv, Blocked
  <2>2. /\ \A i \in 1 .. Len(AuthBatch) : AuthBatch[i].kind # "user"
        /\ Len(AuthBatch) = 3
    BY AuthBatchShape DEF StreamInv, BatchSize
  <2>3. CASE SendSucceeds(AuthBatch) /\ pc' = "auth"
    <3>1. UNCHANGED stream /\ Deliver(AuthBatch, 3) /\ 3 \in 0 .. Len(AuthBatch)
      BY <2>2, <2>3 DEF SendSucceeds
    <3>2. LoginFirst'
      <4>1. TypeInv /\ LoginFirst
        BY DEF StreamInv, Logins
      <4>2. Len(AuthBatch) \in Nat
        BY <2>2
      <4>. QED BY <2>1, <2>2, <3>1, <4>1, <4>2, LoginFirstSent
    <3>3. alive[stream] => AuthBatch[1] \in inbox'[stream]
      BY <2>1, <3>1 DEF Deliver
    <3>4. AuthBatch[1].kind = "auth"
      BY DEF AuthBatch, Fresh
    <3>5. LoginTried'
      BY <2>1, <2>3, <3>1, <3>3, <3>4 DEF LoginTried
    <3>6. GreetingKnown'
      BY <2>1, <3>1, KnownCalm DEF Logins
    <3>. QED BY <3>2, <3>5, <3>6 DEF Logins
  <2>4. CASE SendFails(AuthBatch)
    BY <2>1, <2>2, <2>4, LoginsSendFails DEF StreamInv
  <2>. QED BY <1>1, <2>3, <2>4 DEF AuthSend
<1>2. CASE AuthReply
  <2>1. /\ pc = "auth" /\ UNCHANGED <<stream, alive, hello, inbox, session>>
        /\ \E status : NextResponse(status)
    BY <1>2 DEF AuthReply
  <2>2. \/ pc' = "auth"
        \/ pc' \in {"idle", "demand", "ready"}
    BY <2>1, ResponsePlaces DEF StreamInv
  <2>3. LoginTried'
    <3>1. CASE pc' = "auth"
      BY <2>1, <3>1 DEF Logins, LoginTried, Greeted
    <3>2. CASE pc' \in {"idle", "demand", "ready"} /\ Greeted
      <4>1. Due' = 0 /\ Greeted' /\ stream' # 0
        BY <2>1, <3>2 DEF Due, Greeted
      <4>2. inbox' [stream'] = {}
        BY <4>1, QuietPendingNext DEF StreamInv, OnStream
      <4>. QED BY <2>1, <3>2, <4>2 DEF Logins, LoginTried, Greeted
    <3>3. CASE ~ Greeted
      BY <2>1, <3>3 DEF LoginTried, Greeted
    <3>. QED BY <2>2, <3>1, <3>2, <3>3
  <2>. QED BY <2>1, <2>3, LoginFirstKept, KnownCalm DEF Logins, Served
<1>3. CASE AuthJunk
  <2>1. /\ pc = "auth" /\ HasJunk(stream) /\ ConsumeJunk
        /\ UNCHANGED <<stream, alive, inbox, session>> /\ stream \in Sock
    BY <1>3 DEF AuthJunk, connVars, StreamInv, TypeInv, Blocked
  <2>. QED BY <2>1, LoginsJunk DEF StreamInv
<1>4. CASE AuthShort
  BY <1>4, LoginsClosed DEF AuthShort, FailRead, CloseStream
<1>. QED BY <1>1, <1>2, <1>3, <1>4 DEF Authenticate

LEMMA DemandLogins ==
    ASSUME Logins, Demand
    PROVE  Logins'
<1>1. CASE DemandReconnect
  BY <1>1, LoginsClosed DEF DemandReconnect, CloseStream
<1>2. CASE DemandConnect \/ DemandMet
  BY <1>2, LoginsCalm DEF DemandConnect, DemandMet, connVars, netVars
<1>. QED BY <1>1, <1>2 DEF Demand

LEMMA LookupLogins ==
    ASSUME TypeInv, Logins, Lookup
    PROVE  Logins'
<1>1. CASE LookupSend
  <2>1. pc = "ready" /\ UNCHANGED <<alive, hello, session>> /\ LookupBuffer \in Seq(Packet)
    BY <1>1, BufferType DEF LookupSend
  <2>2. \A i \in 1 .. Len(LookupBuffer) : LookupBuffer[i].kind # "user"
    BY DEF LookupBuffer, Fresh, Wanted
  <2>3. CASE SendSucceeds(LookupBuffer)
    BY <2>1, <2>2, <2>3, LoginsSendSucceeds
  <2>4. CASE SendFails(LookupBuffer)
    BY <2>1, <2>2, <2>4, LoginsSendFails
  <2>. QED BY <1>1, <2>3, <2>4 DEF LookupSend
<1>2. CASE LookupReply
  BY <1>2, LoginsCalm DEF LookupReply
<1>3. CASE LookupJunk
  <2>1. /\ pc = "lookup" /\ HasJunk(stream) /\ ConsumeJunk
        /\ UNCHANGED <<stream, alive, inbox, session>> /\ stream \in Sock
    BY <1>3 DEF LookupJunk, connVars, TypeInv, Blocked
  <2>. QED BY <2>1, LoginsJunk
<1>4. CASE LookupShort
  BY <1>4, LoginsClosed DEF LookupShort, FailRead, CloseStream
<1>. QED BY <1>1, <1>2, <1>3, <1>4 DEF Lookup

LEMMA RequestLogins ==
    ASSUME TypeInv, Logins, Request
    PROVE  Logins'
<1>1. CASE RequestSend
  <2>1. pc = "ready" /\ UNCHANGED <<alive, hello, session>> /\ RequestBuffer \in Seq(Packet)
    BY <1>1, BufferType DEF RequestSend
  <2>2. ~ (alive[stream] /\ Served(stream) /\ session[stream] = "guest")
    BY <2>1, ReadyLoggedIn
  <2>3. CASE SendSucceeds(RequestBuffer)
    BY <2>1, <2>2, <2>3, LoginsSendSucceeds
  <2>4. CASE SendFails(RequestBuffer)
    BY <2>1, <2>2, <2>4, LoginsSendFails
  <2>. QED BY <1>1, <2>3, <2>4 DEF RequestSend
<1>2. CASE RecvReply
  <2>1. /\ pc = "recv" /\ UNCHANGED <<alive, hello, inbox, session>>
        /\ UNCHANGED stream \/ stream' = 0
    BY <1>2 DEF RecvReply, CloseStream
  <2>. QED BY <2>1, LoginsCalm, LoginsClosed
<1>3. CASE RecvJunk
  BY <1>3, LoginsClosed DEF RecvJunk, CloseStream
<1>4. CASE RecvShort
  BY <1>4, LoginsClosed DEF RecvShort, FailRead, CloseStream
<1>. QED BY <1>1, <1>2, <1>3, <1>4 DEF Request

LEMMA ScriptLogins ==
    ASSUME Logins, Script
    PROVE  Logins'
<1>1. pc = "idle" /\ UNCHANGED <<alive, hello, inbox, session>> /\ (UNCHANGED stream \/ stream' = 0)
  BY DEF Script, StartRequest, StartAuthenticate, StartConnect, StartReconnect, FlushSchema,
         Close, Start, CloseStream, connVars, netVars
<1>. QED BY <1>1, LoginsCalm, LoginsClosed

(***************************************************************************)
(* The server executes a request of the script only after the login that   *)
(* was sent before it.                                                     *)
(***************************************************************************)
LEMMA ExecuteLogins ==
    ASSUME TypeInv, Logins, NEW s \in Sock, Execute(s)
    PROVE  Logins'
<1>1. /\ UNCHANGED <<pc, stream, alive, hello>>
  BY DEF Execute, callVars, connVars
<1>2. PICK p \in inbox[s], code \in Codes :
        /\ \A q \in inbox[s] : q.sync < p.sync => q.kind = "user"
        /\ inbox' = [inbox EXCEPT ![s] = @ \ {p}]
        /\ session' = [session EXCEPT ![s] =
                        IF p.kind # "auth" \/ @ = "login" THEN @
                        ELSE IF code = "ok" THEN "login" ELSE "refused"]
  BY DEF Execute
<1>3. inbox'[s] = inbox[s] \ {p} /\ \A t \in Sock : t # s => inbox'[t] = inbox[t] /\ session'[t] = session[t]
  BY <1>2 DEF TypeInv, TypeOK
<1>4. /\ p.kind = "auth" => session'[s] # "guest"
      /\ p.kind # "auth" => session'[s] = session[s]
  BY <1>2 DEF TypeInv, TypeOK
<1>5. LoginFirst'
  <2>. SUFFICES ASSUME NEW t \in Sock, NEW q \in inbox'[t], q.kind = "user", Served(t),
                       session'[t] = "guest"
                PROVE  \E a \in inbox'[t] : a.kind = "auth" /\ a.sync < q.sync
    BY <1>1 DEF LoginFirst, LoginAhead, Served
  <2>1. CASE t # s
    BY <1>3, <2>1 DEF Logins, LoginFirst, LoginAhead
  <2>2. CASE t = s
    BY <1>3, <1>4, <2>2 DEF Logins, LoginFirst, LoginAhead
  <2>. QED BY <2>1, <2>2
<1>6. LoginTried'
  <2>1. CASE stream = s
    BY <1>1, <1>3, <1>4, <2>1 DEF Logins, LoginTried, Greeted
  <2>2. CASE stream # s /\ stream # 0
    BY <1>1, <1>3, <2>2, StreamIsSock DEF Logins, LoginTried, Greeted
  <2>3. CASE stream = 0
    BY <1>1, <2>3 DEF LoginTried, Greeted
  <2>. QED BY <2>1, <2>2, <2>3
<1>. QED BY <1>1, <1>5, <1>6 DEF Logins, GreetingKnown

LEMMA ServerLogins ==
    ASSUME TypeInv, Logins, Server
    PROVE  Logins'
<1>. SUFFICES ASSUME NEW s \in Sock, Greet(s) \/ Execute(s) \/ Drop(s)
              PROVE  Logins'
  BY DEF Server
<1>1. CASE Greet(s)
  <2>1. UNCHANGED <<pc, stream, alive, inbox, session>> /\ alive[s] /\ hello[s] = "none"
    BY <1>1 DEF Greet, callVars, connVars
  <2>2. /\ hello'[s] \in {"sent", "bad"}
        /\ \A t \in Sock : t # s => hello'[t] = hello[t]
    BY <1>1 DEF Greet, TypeInv, TypeOK
  <2>3. \A t \in Sock : Served(t)' => Served(t)
    BY <2>1, <2>2 DEF Served
  <2>4. LoginTried' /\ GreetingKnown'
    <3>1. CASE stream = s
      BY <2>1, <2>2, <3>1 DEF Logins, LoginTried, GreetingKnown, Greeted
    <3>2. CASE stream # s /\ stream # 0
      BY <2>1, <2>2, <3>2, StreamIsSock DEF Logins, LoginTried, GreetingKnown, Greeted
    <3>3. CASE stream = 0
      BY <2>1, <3>3 DEF LoginTried, GreetingKnown, Greeted
    <3>. QED BY <3>1, <3>2, <3>3
  <2>. QED BY <2>1, <2>3, <2>4, LoginFirstKept DEF Logins
<1>2. CASE Execute(s)
  BY <1>2, ExecuteLogins
<1>3. CASE Drop(s)
  <2>1. UNCHANGED <<pc, stream, hello, session>>
    BY <1>3 DEF Drop, callVars, connVars
  <2>2. /\ inbox'[s] = {} /\ ~ alive'[s]
        /\ \A t \in Sock : t # s => inbox'[t] = inbox[t] /\ alive'[t] = alive[t]
    BY <1>3 DEF Drop, TypeInv, TypeOK
  <2>3. LoginFirst'
    <3>1. ASSUME NEW t \in Sock, NEW q \in inbox'[t], q.kind = "user", Served(t)',
                 session'[t] = "guest"
          PROVE  LoginAhead(t, q)'
      <4>1. t # s
        BY <2>2, <3>1
      <4>2. inbox'[t] = inbox[t] /\ session'[t] = session[t] /\ Served(t)
        BY <2>1, <2>2, <3>1, <4>1 DEF Served
      <4>3. LoginAhead(t, q)
        BY <3>1, <4>2 DEF Logins, LoginFirst
      <4>. QED BY <4>2, <4>3 DEF LoginAhead
    <3>. QED BY <3>1 DEF LoginFirst
  <2>4. LoginTried' /\ GreetingKnown'
    <3>1. CASE stream = s
      BY <2>1, <2>2, <3>1 DEF LoginTried, GreetingKnown
    <3>2. CASE stream # s /\ stream # 0
      BY <2>1, <2>2, <3>2, StreamIsSock DEF Logins, LoginTried, GreetingKnown, Greeted
    <3>3. CASE stream = 0
      BY <2>1, <3>3 DEF LoginTried, GreetingKnown, Greeted
    <3>. QED BY <3>1, <3>2, <3>3
  <2>. QED BY <2>3, <2>4 DEF Logins
<1>. QED BY <1>1, <1>2, <1>3

LEMMA NextLogins ==
    ASSUME "greeting" \notin Faults, StreamInv, StreamInv', Logins, [Next]_vars
    PROVE  Logins'
<1>1. TypeInv /\ TypeInv'
  BY DEF StreamInv
<1>2. CASE UNCHANGED vars
  BY <1>2 DEF vars, callVars, connVars, netVars, seenVars, Logins, LoginFirst, LoginAhead,
              Served, LoginTried, GreetingKnown, Greeted
<1>. QED BY <1>1, <1>2, ConnectLogins, AuthenticateLogins, DemandLogins, LookupLogins,
            RequestLogins, ScriptLogins, ServerLogins
         DEF Next, Extension, Finished

(***************************************************************************)
(* With a password, and when no greeting comes late, the server executes   *)
(* no request of the script before it answered the login of that stream:   *)
(* on the first connect, after every reconnect, and after every failure.   *)
(***************************************************************************)
THEOREM RequestsAuthenticated ==
    ASSUME Password, "greeting" \notin Faults
    PROVE  Spec => RunsAuthenticated
<1>1. Init => Logins
  BY DEF Init, Logins, LoginFirst, LoginTried, GreetingKnown, Greeted
<1>2. StreamInv /\ Logins /\ [Next]_vars =>
        [\A s \in Sock, c \in Calls :
            runs'[c] # runs[c] /\ inbox'[s] # inbox[s] => session[s] # "guest"]_vars
  <2>. SUFFICES ASSUME StreamInv, Logins, Next, NEW s \in Sock, NEW c \in Calls,
                       runs'[c] # runs[c], inbox'[s] # inbox[s]
                PROVE  session[s] # "guest"
    OBVIOUS
  <2>1. PICK t \in Sock : Execute(t)
    BY RunsOnlyGrowInExecute DEF StreamInv
  <2>2. PICK p \in inbox[t], code \in Codes :
          /\ \A q \in inbox[t] : q.sync < p.sync => q.kind = "user"
          /\ inbox' = [inbox EXCEPT ![t] = @ \ {p}]
          /\ runs' = [runs EXCEPT ![p.call] = IF p.kind = "user" THEN @ + 1 ELSE @]
    BY <2>1 DEF Execute
  <2>3. s = t
    BY <2>2 DEF StreamInv, TypeInv, TypeOK
  <2>4. p.kind = "user"
    BY <2>2 DEF StreamInv, TypeInv, TypeOK
  <2>5. Served(t)
    BY <2>1 DEF Execute, Served
  <2>6. \A q \in inbox[t] : ~ (q.kind = "auth" /\ q.sync < p.sync)
    BY <2>2
  <2>. QED BY <2>3, <2>4, <2>5, <2>6 DEF Logins, LoginFirst, LoginAhead
<1>3. StreamInv /\ StreamInv' /\ Logins /\ [Next]_vars => Logins'
  BY NextLogins
<1>. QED BY <1>1, <1>2, <1>3, StreamInvariant, PTL DEF Spec, RunsAuthenticated

-----------------------------------------------------------------------------
(***************************************************************************)
(* What the script sees of a step: nothing, the start of a call, a call    *)
(* that returns at once, or the end of the call in progress.               *)
(***************************************************************************)
Within == UNCHANGED <<call, outcome, answer, runs>> /\ (pc = "idle" <=> pc' = "idle")

Begins ==
    /\ pc = "idle" /\ pc' # "idle"
    /\ call < MaxCalls /\ call' = call + 1
    /\ UNCHANGED <<outcome, answer, runs>>

Skips == pc = "idle" /\ call < MaxCalls /\ call' = call + 1 /\ ReturnFrom(call + 1, "ok", 0)

Ends ==
    /\ pc # "idle" /\ UNCHANGED call
    /\ \E how, own :
        /\ ReturnFrom(call, how, own)
        /\ how = "send" => pc \in {"authSend", "ready"} /\ own = 0

LEMMA SeenSteps ==
    ASSUME TypeInv, [Next]_vars
    PROVE  Within \/ Begins \/ Skips \/ Ends \/ \E s \in Sock : Execute(s)
<1>1. ASSUME NEW how, Return(how), pc # "idle",
             how = "send" => pc \in {"authSend", "ready"}
      PROVE  Ends
  BY <1>1 DEF Return, Ends
<1>2. ASSUME Proceed, pc # "idle"
      PROVE  Ends \/ Within
  BY <1>1, <1>2 DEF Proceed, Within, seenVars, TypeInv, TypeOK
<1>3. ASSUME NEW n, NextAttempt(n), pc # "idle"
      PROVE  Ends \/ Within
  BY <1>1, <1>3 DEF NextAttempt, Within, seenVars
<1>4. ASSUME NEW status \in {"ok", "parse", "client"}, NextResponse(status), pc # "idle"
      PROVE  Ends \/ Within
  BY <1>1, <1>2, <1>4 DEF NextResponse, Within, seenVars
<1>5. ASSUME NEW buf, SendFails(buf), pc \in {"authSend", "ready"}
      PROVE  Ends
  BY <1>1, <1>5 DEF SendFails
<1>6. ASSUME FailRead, pc # "idle"
      PROVE  Ends
  BY <1>1, <1>6 DEF FailRead
<1>7. CASE Connect
  BY <1>1, <1>2, <1>3, <1>7
     DEF Connect, OpenSucceeds, OpenFails, GreetingRead, GreetingShort, GreetingBad, Within,
         seenVars
<1>8. CASE Authenticate
  <2>1. CASE AuthSend
    BY <1>5, <2>1 DEF AuthSend, Within, seenVars
  <2>2. CASE AuthReply
    <3>1. BatchStatus(Head(outbox[stream])) \in {"ok", "parse", "client"}
      BY DEF BatchStatus, TypeInv, TypeOK
    <3>. QED BY <1>4, <2>2, <3>1 DEF AuthReply
  <2>3. CASE AuthJunk
    <3>1. (IF batch = "ok" THEN "parse" ELSE batch) \in {"ok", "parse", "client"}
      BY DEF TypeInv, TypeOK
    <3>. QED BY <1>4, <2>3, <3>1 DEF AuthJunk
  <2>4. CASE AuthShort
    BY <1>6, <2>4 DEF AuthShort
  <2>. QED BY <1>8, <2>1, <2>2, <2>3, <2>4 DEF Authenticate
<1>9. CASE Demand
  BY <1>9 DEF Demand, DemandConnect, DemandReconnect, DemandMet, EnterConnect, Within, seenVars
<1>10. CASE Lookup
  <2>1. CASE LookupSend
    BY <1>5, <2>1 DEF LookupSend, Within, seenVars
  <2>2. CASE LookupReply
    BY <1>1, <2>2 DEF LookupReply, Within, seenVars
  <2>3. CASE LookupJunk
    BY <1>1, <2>3 DEF LookupJunk
  <2>4. CASE LookupShort
    BY <1>6, <2>4 DEF LookupShort
  <2>. QED BY <1>10, <2>1, <2>2, <2>3, <2>4 DEF Lookup
<1>11. CASE Request
  <2>1. CASE RequestSend
    BY <1>5, <2>1 DEF RequestSend, Within, seenVars
  <2>2. CASE RecvReply
    <3>1. ASSUME ReturnFrom(call, "ok", Head(outbox[stream]).call), UNCHANGED call
          PROVE  Ends
      BY <2>2, <3>1 DEF RecvReply, Ends
    <3>. QED BY <1>1, <2>2, <3>1 DEF RecvReply
  <2>3. CASE RecvJunk
    BY <1>1, <2>3 DEF RecvJunk
  <2>4. CASE RecvShort
    BY <1>6, <2>4 DEF RecvShort
  <2>. QED BY <1>11, <2>1, <2>2, <2>3, <2>4 DEF Request
<1>12. CASE Script
  BY <1>12
     DEF Script, StartRequest, StartAuthenticate, StartConnect, StartReconnect, FlushSchema,
         Close, Start, EnterConnect, Begins, Skips, seenVars
<1>13. CASE Server \/ Finished \/ UNCHANGED vars
  BY <1>13 DEF Server, Greet, Drop, Finished, vars, callVars, seenVars, Within
<1>. QED BY <1>7, <1>8, <1>9, <1>10, <1>11, <1>12, <1>13 DEF Next, Extension

(***************************************************************************)
(* A connection the server does not serve is never served again.           *)
(***************************************************************************)
LEMMA ServedBefore ==
    ASSUME TypeInv, [Next]_vars
    PROVE  \A s \in Sock : Served(s)' => Served(s)
<1>1. CASE Connect
  BY <1>1 DEF Connect, OpenSucceeds, OpenFails, GreetingRead, GreetingShort, GreetingBad, netVars,
              TypeInv, TypeOK, Blocked, Served
<1>2. ASSUME ConsumeJunk, pc \in {"auth", "lookup"}
      PROVE  \A s \in Sock : Served(s)' => Served(s)
  BY <1>2, ServedKept DEF TypeInv, Blocked
<1>3. CASE Authenticate \/ Lookup \/ Request
  BY <1>2, <1>3
     DEF Authenticate, AuthSend, AuthReply, AuthJunk, AuthShort,
         Lookup, LookupSend, LookupReply, LookupJunk, LookupShort,
         Request, RequestSend, RecvReply, RecvJunk, RecvShort, Served
<1>4. CASE Demand \/ Script \/ Finished \/ UNCHANGED vars
  BY <1>4
     DEF Demand, DemandConnect, DemandReconnect, DemandMet,
         Script, StartRequest, StartAuthenticate, StartConnect, StartReconnect, FlushSchema,
         Close, Finished, vars, netVars, Served
<1>5. CASE Server
  BY <1>5 DEF Server, Greet, Execute, Drop, TypeInv, TypeOK, Served
<1>. QED BY <1>1, <1>3, <1>4, <1>5 DEF Next, Extension

(***************************************************************************)
(* A packet that is new on a connection was just written.                  *)
(***************************************************************************)
Written(buf, n, s, p) == s = stream /\ alive[s] /\ \E i \in 1 .. n : p = buf[i]

LEMMA NewlyDelivered ==
    ASSUME NEW buf, NEW s \in Sock, NEW p \in inbox'[s], p \notin inbox[s],
           SendSucceeds(buf) \/ SendFails(buf)
    PROVE  \/ SendSucceeds(buf) /\ Written(buf, Len(buf), s, p)
           \/ \E n \in 0 .. Len(buf) - 1 : Written(buf, n, s, p)
<1>1. ASSUME NEW n, Deliver(buf, n)
      PROVE  Written(buf, n, s, p)
  BY <1>1 DEF Deliver, Written
<1>. QED BY <1>1 DEF SendSucceeds, SendFails

LEMMA NewPackets ==
    ASSUME TypeInv, [Next]_vars, NEW s \in Sock, NEW p \in inbox'[s], p \notin inbox[s]
    PROVE  \E buf \in Seq(Packet) :
              /\ \/ AuthSend /\ buf = AuthBatch
                 \/ LookupSend /\ buf = LookupBuffer
                 \/ RequestSend /\ buf = RequestBuffer
              /\ \/ SendSucceeds(buf) /\ Written(buf, Len(buf), s, p)
                 \/ \E n \in 0 .. Len(buf) - 1 : Written(buf, n, s, p)
<1>1. CASE AuthSend
  <2>1. SendSucceeds(AuthBatch) \/ SendFails(AuthBatch)
    BY <1>1 DEF AuthSend
  <2>2. AuthBatch \in Seq(Packet)
    BY <1>1, BufferType DEF AuthSend
  <2>. QED BY <1>1, <2>1, <2>2, NewlyDelivered
<1>2. CASE LookupSend
  <2>1. SendSucceeds(LookupBuffer) \/ SendFails(LookupBuffer)
    BY <1>2 DEF LookupSend
  <2>2. LookupBuffer \in Seq(Packet)
    BY <1>2, BufferType DEF LookupSend
  <2>. QED BY <1>2, <2>1, <2>2, NewlyDelivered
<1>3. CASE RequestSend
  <2>1. SendSucceeds(RequestBuffer) \/ SendFails(RequestBuffer)
    BY <1>3 DEF RequestSend
  <2>2. RequestBuffer \in Seq(Packet)
    BY <1>3, BufferType DEF RequestSend
  <2>. QED BY <1>3, <2>1, <2>2, NewlyDelivered
<1>4. CASE Server
  <2>1. PICK t \in Sock : Greet(t) \/ Execute(t) \/ Drop(t)
    BY <1>4 DEF Server
  <2>2. inbox \in [Sock -> SUBSET Packet]
    BY DEF TypeInv, TypeOK
  <2>3. \E rest : rest \subseteq inbox[t] /\ inbox' = [inbox EXCEPT ![t] = rest]
    <3>1. CASE Greet(t)
      BY <2>2, <3>1 DEF Greet
    <3>2. CASE Execute(t)
      <4>1. PICK q \in inbox[t] : inbox' = [inbox EXCEPT ![t] = @ \ {q}]
        BY <3>2 DEF Execute
      <4>. QED BY <4>1
    <3>3. CASE Drop(t)
      BY <3>3 DEF Drop
    <3>. QED BY <2>1, <3>1, <3>2, <3>3
  <2>. QED BY <2>2, <2>3
<1>5. ~ (UNCHANGED inbox)
  OBVIOUS
<1>6. CASE Connect \/ Demand \/ Script \/ Finished \/ UNCHANGED vars
  BY <1>5, <1>6
     DEF Connect, OpenSucceeds, OpenFails, GreetingRead, GreetingShort, GreetingBad,
         Demand, DemandConnect, DemandReconnect, DemandMet,
         Script, StartRequest, StartAuthenticate, StartConnect, StartReconnect, FlushSchema,
         Close, Finished, vars, netVars
<1>7. CASE \/ AuthReply \/ AuthJunk \/ AuthShort \/ LookupReply \/ LookupJunk \/ LookupShort
           \/ RecvReply \/ RecvJunk \/ RecvShort
  BY <1>5, <1>7
     DEF AuthReply, AuthJunk, AuthShort, LookupReply, LookupJunk, LookupShort,
         RecvReply, RecvJunk, RecvShort
<1>. QED BY <1>1, <1>2, <1>3, <1>4, <1>6, <1>7 DEF Next, Extension, Authenticate, Lookup, Request

(***************************************************************************)
(* The only request that becomes executable is the call's own, written on  *)
(* a stream that holds nothing else of it.                                 *)
(***************************************************************************)
Sends(s, p) ==
    pc = "ready" /\ pc' = "recv" /\ UNCHANGED call /\ s = stream /\ p = Fresh("user", 0)

LEMMA NewlyExecutable ==
    ASSUME StreamInv, Logins, [Next]_vars, NEW s \in Sock, NEW p, Executable(s, p)'
    PROVE  Executable(s, p) \/ Sends(s, p)
<1>1. p \in inbox'[s] /\ p.kind = "user" /\ Served(s)
  BY ServedBefore DEF Executable, StreamInv
<1>2. CASE p \in inbox[s]
  BY <1>1, <1>2 DEF Executable
<1>3. CASE p \notin inbox[s]
  <2>1. PICK buf \in Seq(Packet) :
          /\ \/ AuthSend /\ buf = AuthBatch
             \/ LookupSend /\ buf = LookupBuffer
             \/ RequestSend /\ buf = RequestBuffer
          /\ \/ SendSucceeds(buf) /\ Written(buf, Len(buf), s, p)
             \/ \E n \in 0 .. Len(buf) - 1 : Written(buf, n, s, p)
    BY <1>1, <1>3, NewPackets DEF StreamInv
  <2>2. Len(buf) \in Nat
    OBVIOUS
  <2>3. s = stream /\ alive[s] /\ \E i \in 1 .. Len(buf) : p = buf[i]
    BY <2>1, <2>2 DEF Written
  <2>4. ~ (AuthSend /\ buf = AuthBatch)
    BY <1>1, <2>3, AuthBatchShape DEF StreamInv
  <2>5. ~ (LookupSend /\ buf = LookupBuffer)
    BY <1>1, <2>3 DEF LookupBuffer, Fresh, Wanted
  <2>6. RequestSend /\ buf = RequestBuffer
    BY <2>1, <2>4, <2>5
  <2>7. pc = "ready"
    BY <2>6 DEF RequestSend
  <2>8. Greeted
    <3>1. stream # 0
      BY <2>7 DEF StreamInv, TypeInv, Blocked
    <3>2. hello[stream] \in {"read", "alien"}
      BY <2>3, <2>7, <3>1 DEF Logins, GreetingKnown
    <3>. QED BY <1>1, <2>3, <3>1, <3>2 DEF Served, Greeted
  <2>9. Len(buf) = 1 /\ \A i \in 1 .. Len(buf) : buf[i] = Fresh("user", 0)
    BY <2>6, <2>7, <2>8, RequestAlone
  <2>10. ~ \E n \in 0 .. Len(buf) - 1 : Written(buf, n, s, p)
    BY <2>9 DEF Written
  <2>11. SendSucceeds(buf)
    BY <2>1, <2>10
  <2>12. stream # 0 /\ UNCHANGED stream
    BY <2>8, <2>11 DEF Greeted, SendSucceeds
  <2>13. ~ SendFails(buf)
    BY <2>12 DEF SendFails, CloseStream
  <2>14. pc' = "recv" /\ UNCHANGED call
    BY <2>6, <2>13 DEF RequestSend
  <2>. QED BY <2>3, <2>7, <2>9, <2>14 DEF Sends
<1>. QED BY <1>2, <1>3

(***************************************************************************)
(* PromiseInv is inductive, one lemma per part.                            *)
(***************************************************************************)
LEMMA NothingOfTheCall ==
    ASSUME CallInv, pc \notin {"idle", "recv"}
    PROVE  /\ runs[call] = 0
           /\ \A s \in Sock : \A p : Executable(s, p) => p.call # call
BY DEF CallInv, NotYetSent, Settled, IsRequestOf, Executable

LEMMA OneCopyKept ==
    ASSUME PromiseInv, [Next]_vars
    PROVE  OneCopy'
<1>. SUFFICES ASSUME NEW s \in Sock, NEW t \in Sock, NEW p \in inbox'[s], NEW q \in inbox'[t],
                     Executable(s, p)', Executable(t, q)', p.call = q.call
              PROVE  s = t /\ p = q
  BY DEF OneCopy
<1>1. Executable(s, p) \/ Sends(s, p)
  BY NewlyExecutable DEF PromiseInv
<1>2. Executable(t, q) \/ Sends(t, q)
  BY NewlyExecutable DEF PromiseInv
<1>3. CASE Executable(s, p) /\ Executable(t, q)
  BY <1>3 DEF PromiseInv, OneCopy, Executable
<1>4. ASSUME NEW u \in Sock, NEW v \in Sock, NEW x, NEW y, Executable(u, x), Sends(v, y)
      PROVE  x.call # y.call
  <2>1. pc = "ready" /\ y.call = call
    BY <1>4 DEF Sends, Fresh
  <2>. QED BY <1>4, <2>1, NothingOfTheCall DEF PromiseInv
<1>5. CASE Sends(s, p) /\ Sends(t, q)
  BY <1>5 DEF Sends
<1>. QED BY <1>1, <1>2, <1>3, <1>4, <1>5

LEMMA NotYetRunKept ==
    ASSUME PromiseInv, TypeInv', [Next]_vars
    PROVE  NotYetRun'
<1>. SUFFICES ASSUME NEW s \in Sock, NEW p \in inbox'[s], Executable(s, p)'
              PROVE  runs'[p.call] = 0 /\ outcome'[p.call] # "send"
  BY DEF NotYetRun
<1>1. p.call \in Calls /\ call \in Nat
  <2>1. p \in Packet
    BY DEF TypeInv, TypeOK
  <2>2. call \in Nat
    BY BoundsAssumption DEF PromiseInv, StreamInv, TypeInv, TypeOK
  <2>. QED BY <2>1, <2>2 DEF Packet
<1>2. Executable(s, p) \/ Sends(s, p)
  BY NewlyExecutable DEF PromiseInv
<1>3. runs[p.call] = 0 /\ outcome[p.call] # "send"
  <2>1. CASE Executable(s, p)
    BY <2>1 DEF PromiseInv, NotYetRun, Executable
  <2>2. CASE Sends(s, p)
    <3>1. pc = "ready" /\ p.call = call
      BY <2>2 DEF Sends, Fresh
    <3>. QED BY <1>1, <3>1, NothingOfTheCall DEF PromiseInv, Told
  <2>. QED BY <1>2, <2>1, <2>2
<1>4. CASE \E t \in Sock : Execute(t)
  <2>1. PICK t \in Sock : Execute(t)
    BY <1>4
  <2>2. PICK q \in inbox[t] :
          /\ inbox' = [inbox EXCEPT ![t] = @ \ {q}]
          /\ runs' = [runs EXCEPT ![q.call] = IF q.kind = "user" THEN @ + 1 ELSE @]
    BY <2>1 DEF Execute
  <2>3. Executable(s, p) /\ UNCHANGED outcome
    BY <1>2, <2>1 DEF Execute, callVars, Sends
  <2>4. p # q \/ s # t
    BY <2>2 DEF PromiseInv, StreamInv, TypeInv, TypeOK
  <2>5. q.kind = "user" => Executable(t, q)
    BY <2>1 DEF Execute, Executable, Served
  <2>6. q.kind = "user" => q.call # p.call
    BY <2>3, <2>4, <2>5 DEF PromiseInv, OneCopy, Executable
  <2>7. runs'[p.call] = runs[p.call]
    BY <1>1, <2>2, <2>6 DEF PromiseInv, StreamInv, TypeInv, TypeOK
  <2>. QED BY <1>3, <2>3, <2>7
<1>5. CASE Within \/ Begins
  BY <1>3, <1>5 DEF Within, Begins
<1>6. CASE Skips
  BY <1>1, <1>3, <1>6 DEF Skips, ReturnFrom, PromiseInv, StreamInv, TypeInv, TypeOK
<1>7. CASE Ends
  <2>1. PICK how, own : ReturnFrom(call, how, own) /\ (how = "send" => pc \in {"authSend", "ready"})
    BY <1>7 DEF Ends
  <2>2. UNCHANGED runs /\ pc' = "idle" /\ outcome' = [outcome EXCEPT ![call] = how]
    BY <2>1 DEF ReturnFrom
  <2>3. Executable(s, p)
    BY <1>2, <2>2 DEF Sends
  <2>4. how = "send" => p.call # call
    BY <2>1, <2>3, NothingOfTheCall DEF PromiseInv
  <2>. QED BY <1>1, <1>3, <2>2, <2>4 DEF PromiseInv, StreamInv, TypeInv, TypeOK
<1>. QED BY <1>4, <1>5, <1>6, <1>7, SeenSteps DEF PromiseInv, StreamInv

LEMMA ToldKept ==
    ASSUME PromiseInv, [Next]_vars
    PROVE  Told'
<1>1. TypeInv /\ outcome \in [Calls -> Outcomes] /\ runs \in [Calls -> Nat] /\ call \in Nat
  BY BoundsAssumption DEF PromiseInv, StreamInv, TypeInv, TypeOK
<1>2. CASE \E t \in Sock : Execute(t)
  <2>1. PICK t \in Sock : Execute(t)
    BY <1>2
  <2>2. PICK q \in inbox[t] :
          runs' = [runs EXCEPT ![q.call] = IF q.kind = "user" THEN @ + 1 ELSE @]
    BY <2>1 DEF Execute
  <2>3. UNCHANGED <<call, pc, outcome>>
    BY <2>1 DEF Execute, callVars
  <2>4. q.kind = "user" => Executable(t, q)
    BY <2>1 DEF Execute, Executable, Served
  <2>5. q.kind = "user" => runs[q.call] = 0 /\ outcome[q.call] # "send"
    BY <2>4 DEF PromiseInv, NotYetRun
  <2>6. \A c \in Calls : runs'[c] = runs[c] \/ (runs'[c] = 1 /\ outcome[c] # "send")
    BY <1>1, <2>2, <2>5
  <2>. QED BY <2>3, <2>6 DEF PromiseInv, Told
<1>3. CASE Within
  BY <1>3 DEF Within, PromiseInv, Told
<1>4. CASE Begins
  BY <1>1, <1>4 DEF Begins, PromiseInv, Told
<1>5. CASE Skips
  BY <1>1, <1>5 DEF Skips, ReturnFrom, PromiseInv, Told
<1>6. CASE Ends
  <2>1. PICK how, own : ReturnFrom(call, how, own) /\ (how = "send" => pc \in {"authSend", "ready"})
    BY <1>6 DEF Ends
  <2>2. UNCHANGED <<runs, call>> /\ pc' = "idle" /\ outcome' = [outcome EXCEPT ![call] = how]
    BY <1>6, <2>1 DEF ReturnFrom, Ends
  <2>3. how = "send" => runs[call] = 0
    BY <2>1, NothingOfTheCall DEF PromiseInv
  <2>. QED BY <1>1, <2>2, <2>3 DEF PromiseInv, Told
<1>. QED BY <1>1, <1>2, <1>3, <1>4, <1>5, <1>6, SeenSteps

LEMMA NextPromise ==
    ASSUME "greeting" \notin Faults, PromiseInv, [Next]_vars
    PROVE  PromiseInv'
<1>1. CallInv'
  BY NextInv DEF PromiseInv
<1>2. StreamInv'
  BY NextStream DEF PromiseInv
<1>3. Logins'
  BY <1>2, NextLogins DEF PromiseInv
<1>4. TypeInv'
  BY <1>2 DEF StreamInv
<1>. QED BY <1>1, <1>2, <1>3, <1>4, OneCopyKept, NotYetRunKept, ToldKept DEF PromiseInv

-----------------------------------------------------------------------------
(***************************************************************************)
(* The phase of each call, and how each step changes it.                   *)
(***************************************************************************)
Over(c) == IF answer[c] # 0 THEN "answered" ELSE IF outcome[c] = "send" THEN "refused" ELSE "unknown"

LEMMA PhaseOf ==
    ASSUME NEW c \in Calls, call \in Nat
    PROVE  /\ c > call => Phase(c) = "new"
           /\ c = call /\ pc # "idle" => Phase(c) = "pending"
           /\ c <= call /\ ~ (c = call /\ pc # "idle") => Phase(c) = Over(c)
BY DEF Phase, Over

LEMMA PhaseNext ==
    ASSUME NEW c \in Calls, call' \in Nat
    PROVE  /\ c > call' => Phase(c)' = "new"
           /\ c = call' /\ pc' # "idle" => Phase(c)' = "pending"
           /\ c <= call' /\ ~ (c = call' /\ pc' # "idle") => Phase(c)' = Over(c)'
BY DEF Phase, Over

LEMMA WithinStutters ==
    ASSUME PromiseInv, PromiseInv', Within, NEW c \in Calls
    PROVE  Phase(c)' = Phase(c)
BY DEF Within, Phase

(***************************************************************************)
(* A step that moves one call's phase is the step of RemoteCall.           *)
(***************************************************************************)
LEMMA MoveOf ==
    ASSUME NEW d \in Calls, NEW from, NEW to, Phase(d) = from, Phase(d)' = to,
           \A c \in Calls : c # d => Phase(c)' = Phase(c), UNCHANGED runs
    PROVE  Remote!Move(d, from, to)
BY DEF Remote!Move

LEMMA IdleNotPending ==
    ASSUME call \in Nat, pc = "idle", NEW d \in Calls
    PROVE  Phase(d) # "pending"
BY PhaseOf DEF Over

LEMMA BeginsPromise ==
    ASSUME PromiseInv, PromiseInv', Begins
    PROVE  \E c \in Calls : Remote!Begin(c)
<1>1. call \in Nat /\ call' = call + 1 /\ call + 1 \in Calls
  BY BoundsAssumption DEF PromiseInv, StreamInv, TypeInv, TypeOK, Begins
<1>2. PICK d \in Calls : d = call + 1
  BY <1>1
<1>3. Phase(d) = "new"
  BY <1>1, <1>2, PhaseOf
<1>4. Phase(d)' = "pending"
  BY <1>1, <1>2, PhaseNext DEF Begins
<1>5. ASSUME NEW c \in Calls, c # d
      PROVE  Phase(c)' = Phase(c)
  BY <1>1, <1>2, <1>5 DEF Begins, Phase
<1>6. Remote!Move(d, "new", "pending")
  BY <1>3, <1>4, <1>5, MoveOf DEF Begins
<1>. QED BY <1>1, <1>6, IdleNotPending DEF Remote!Begin, Begins

LEMMA SkipsPromise ==
    ASSUME PromiseInv, PromiseInv', Skips
    PROVE  \E c \in Calls : Remote!Skip(c)
<1>1. call \in Nat /\ call' = call + 1 /\ call + 1 \in Calls /\ pc' = "idle" /\ UNCHANGED runs
  BY BoundsAssumption DEF PromiseInv, StreamInv, TypeInv, TypeOK, Skips, ReturnFrom
<1>2. PICK d \in Calls : d = call + 1
  BY <1>1
<1>3. /\ outcome'[d] = "ok" /\ answer'[d] = 0
      /\ \A c \in Calls : c # d => outcome'[c] = outcome[c] /\ answer'[c] = answer[c]
  BY <1>2 DEF PromiseInv, StreamInv, TypeInv, TypeOK, Skips, ReturnFrom
<1>4. Phase(d) = "new"
  BY <1>1, <1>2, PhaseOf
<1>5. Phase(d)' = "unknown"
  <2>1. Over(d)' = "unknown"
    BY <1>3 DEF Over
  <2>. QED BY <1>1, <1>2, <2>1, PhaseNext
<1>6. ASSUME NEW c \in Calls, c # d
      PROVE  Phase(c)' = Phase(c)
  BY <1>1, <1>2, <1>3, <1>6 DEF Skips, Phase
<1>7. Remote!Move(d, "new", "unknown")
  BY <1>1, <1>4, <1>5, <1>6, MoveOf
<1>. QED BY <1>1, <1>7, IdleNotPending DEF Remote!Skip, Skips

LEMMA EndsPromise ==
    ASSUME PromiseInv, PromiseInv', Ends
    PROVE  \E c \in Calls : Remote!Answer(c) \/ Remote!Refuse(c) \/ Remote!GiveUp(c)
<1>1. PICK how, own :
        ReturnFrom(call, how, own) /\ (how = "send" => pc \in {"authSend", "ready"} /\ own = 0)
  BY DEF Ends
<1>2. call \in Nat /\ call' = call /\ call \in Calls /\ pc # "idle" /\ pc' = "idle" /\ UNCHANGED runs
  BY <1>1, BoundsAssumption
     DEF PromiseInv, StreamInv, TypeInv, TypeOK, Blocked, Ends, ReturnFrom
<1>3. /\ outcome'[call] = how /\ answer'[call] = own
      /\ \A c \in Calls : c # call => outcome'[c] = outcome[c] /\ answer'[c] = answer[c]
  BY <1>1, <1>2 DEF PromiseInv, StreamInv, TypeInv, TypeOK, ReturnFrom
<1>4. Phase(call) = "pending"
  BY <1>2, PhaseOf
<1>5. Phase(call)' = Over(call)'
  BY <1>2, PhaseNext
<1>6. ASSUME NEW c \in Calls, c # call
      PROVE  Phase(c)' = Phase(c)
  BY <1>2, <1>3, <1>6 DEF Phase
<1>7. Remote!Move(call, "pending", Over(call)')
  BY <1>2, <1>4, <1>5, <1>6, MoveOf
<1>8. CASE own # 0
  <2>1. runs[call] = 1
    BY <1>2, <1>3, <1>8 DEF PromiseInv, CallInv, Answered
  <2>2. Over(call)' = "answered"
    BY <1>2, <1>3, <1>8 DEF Over
  <2>. QED BY <1>2, <1>7, <2>1, <2>2 DEF Remote!Answer
<1>9. CASE own = 0 /\ how = "send"
  <2>1. runs[call] = 0
    BY <1>1, <1>9, NothingOfTheCall DEF PromiseInv
  <2>2. Over(call)' = "refused"
    BY <1>2, <1>3, <1>9 DEF Over
  <2>. QED BY <1>2, <1>7, <2>1, <2>2 DEF Remote!Refuse
<1>10. CASE own = 0 /\ how # "send"
  <2>1. Over(call)' = "unknown"
    BY <1>2, <1>3, <1>10 DEF Over
  <2>. QED BY <1>2, <1>7, <2>1 DEF Remote!GiveUp
<1>. QED BY <1>8, <1>9, <1>10

LEMMA ExecutePromise ==
    ASSUME PromiseInv, PromiseInv', NEW s \in Sock, Execute(s)
    PROVE  \/ \E c \in Calls : Remote!Run(c)
           \/ UNCHANGED runs /\ \A c \in Calls : Phase(c)' = Phase(c)
<1>1. PICK p \in inbox[s] :
        runs' = [runs EXCEPT ![p.call] = IF p.kind = "user" THEN @ + 1 ELSE @]
  BY DEF Execute
<1>2. UNCHANGED <<call, pc, outcome, answer>>
  BY DEF Execute, callVars
<1>3. \A c \in Calls : Phase(c)' = Phase(c)
  BY <1>2 DEF Phase
<1>4. p.call \in Calls /\ call \in Nat /\ runs \in [Calls -> Nat]
  <2>1. inbox[s] \in SUBSET Packet /\ runs \in [Calls -> Nat]
    BY DEF PromiseInv, StreamInv, TypeInv, TypeOK
  <2>2. call \in Nat
    BY BoundsAssumption DEF PromiseInv, StreamInv, TypeInv, TypeOK
  <2>. QED BY <2>1, <2>2 DEF Packet
<1>5. CASE p.kind # "user"
  BY <1>1, <1>3, <1>4, <1>5
<1>6. CASE p.kind = "user"
  <2>1. Executable(s, p)
    BY <1>6 DEF Execute, Executable, Served
  <2>2. runs[p.call] = 0 /\ outcome[p.call] # "send"
    BY <2>1 DEF PromiseInv, NotYetRun
  <2>3. answer[p.call] = 0
    BY <1>4, <1>6 DEF PromiseInv, CallInv, Answered, Settled, IsRequestOf
  <2>4. p.call <= call
    BY DEF PromiseInv, CallInv, AllIssued, Issued
  <2>5. Phase(p.call) \in {"pending", "unknown"}
    BY <1>4, <2>2, <2>3, <2>4, PhaseOf DEF Over
  <2>6. runs' = [runs EXCEPT ![p.call] = 1]
    BY <1>1, <1>4, <1>6, <2>2
  <2>. QED BY <1>3, <1>4, <2>2, <2>5, <2>6 DEF Remote!Run
<1>. QED BY <1>5, <1>6

(***************************************************************************)
(* The object implements RemoteCall: of every request the server executes  *)
(* at most one copy, an answer means it ran once, a failed write that it   *)
(* will never run; whatever fails, however often the object reconnects.    *)
(***************************************************************************)
THEOREM ObjectImplementsRemoteCall ==
    ASSUME Password, "greeting" \notin Faults
    PROVE  Spec => ImplementsRemoteCall
<1>1. Init => PromiseInv
  <2>. SUFFICES ASSUME Init PROVE PromiseInv
    OBVIOUS
  <2>1. CallInv /\ StreamInv
    BY InitInv, InitStream
  <2>. QED BY <2>1
           DEF Init, PromiseInv, Logins, LoginFirst, LoginTried, GreetingKnown, Greeted,
               OneCopy, NotYetRun, Told
<1>2. Init => Remote!PromiseInit
  <2>. SUFFICES ASSUME Init PROVE Remote!PromiseInit
    OBVIOUS
  <2>1. \A c \in Calls : Phase(c) = "new"
    BY PhaseOf DEF Init
  <2>. QED BY <2>1 DEF Init, Remote!PromiseInit
<1>3. PromiseInv /\ [Next]_vars => PromiseInv'
  BY NextPromise
<1>4. PromiseInv /\ PromiseInv' /\ [Next]_vars =>
        [Remote!PromiseNext]_<<[c \in Calls |-> Phase(c)], runs>>
  <2>. SUFFICES ASSUME PromiseInv, PromiseInv', [Next]_vars
                PROVE  \/ Remote!PromiseNext
                       \/ UNCHANGED runs /\ \A c \in Calls : Phase(c)' = Phase(c)
    OBVIOUS
  <2>1. CASE Within
    BY <2>1, WithinStutters DEF Within
  <2>2. CASE Begins
    BY <2>2, BeginsPromise DEF Remote!PromiseNext
  <2>3. CASE Skips
    BY <2>3, SkipsPromise DEF Remote!PromiseNext
  <2>4. CASE Ends
    BY <2>4, EndsPromise DEF Remote!PromiseNext
  <2>5. CASE \E s \in Sock : Execute(s)
    BY <2>5, ExecutePromise DEF Remote!PromiseNext
  <2>. QED BY <2>1, <2>2, <2>3, <2>4, <2>5, SeenSteps DEF PromiseInv, StreamInv
<1>. QED BY <1>1, <1>2, <1>3, <1>4, PTL DEF Spec, ImplementsRemoteCall, Remote!Promise
=============================================================================
