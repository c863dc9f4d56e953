---------------------- MODULE TarantoolConnectionProofs ----------------------
(***************************************************************************)
(* Proofs about TarantoolConnection, for every set of methods and faults,  *)
(* every retry count, every width of the sync and any number of calls and  *)
(* connections.                                                            *)
(***************************************************************************)
EXTENDS TarantoolConnection, FiniteSetTheorems, TLAPS

TypeInv == TypeOK /\ Blocked

USE DEF Calls, Sock

-----------------------------------------------------------------------------
(***************************************************************************)
(* Facts about the building blocks of the actions, for the type invariant. *)
(***************************************************************************)
LEMMA ReturnType ==
    ASSUME TypeInv, NEW c \in Calls, NEW how \in Outcomes, NEW own \in 0 .. MaxCalls,
           ReturnFrom(c, how, own)
    PROVE  /\ pc' = "idle" /\ left' \in Nat /\ resume' = "return" /\ batch' = "ok"
           /\ mySync' \in Nat
           /\ outcome' \in [Calls -> Outcomes]
           /\ answer' \in [Calls -> 0 .. MaxCalls]
           /\ runs' = runs
BY DEF ReturnFrom, TypeInv, TypeOK

LEMMA CloseStreamType ==
    ASSUME TypeInv, CloseStream
    PROVE  /\ stream' = 0
           /\ clientOpen' \subseteq Sock
           /\ outbox' \in [Sock -> Seq(Reply)]
BY BoundsAssumption DEF CloseStream, TypeInv, TypeOK

LEMMA DeliverType ==
    ASSUME TypeInv, NEW buf \in Seq(Packet), NEW n \in 0 .. Len(buf), Deliver(buf, n)
    PROVE  inbox' \in [Sock -> SUBSET Packet]
<1>1. \A i \in 1 .. n : buf[i] \in Packet
  OBVIOUS
<1>. QED BY <1>1 DEF Deliver, TypeInv, TypeOK

LEMMA ConsumeReplyType ==
    ASSUME TypeInv, HasReply(stream), stream \in Sock, ConsumeReply
    PROVE  outbox' \in [Sock -> Seq(Reply)] /\ Head(outbox[stream]) \in Reply
<1>1. outbox[stream] \in Seq(Reply) /\ outbox[stream] # <<>>
  BY DEF HasReply, TypeInv, TypeOK
<1>2. Tail(outbox[stream]) \in Seq(Reply) /\ Head(outbox[stream]) \in Reply
  BY <1>1
<1>. QED BY <1>2 DEF ConsumeReply, TypeInv, TypeOK

LEMMA ConsumeJunkType ==
    ASSUME TypeInv, ConsumeJunk
    PROVE  hello' \in [Sock -> Greetings]
BY DEF ConsumeJunk, TypeInv, TypeOK, Greetings

(***************************************************************************)
(* A write: buf is what the buffer is given, pcs where the call goes on.   *)
(***************************************************************************)
LEMMA SendFailsType ==
    ASSUME TypeInv, pc # "idle", NEW buf \in Seq(Packet), SendFails(buf)
    PROVE  /\ pc' = "idle" /\ left' \in Nat /\ resume' = "return" /\ batch' = "ok"
           /\ mySync' \in Nat /\ call' = call /\ kind' = kind
           /\ outcome' \in [Calls -> Outcomes]
           /\ answer' \in [Calls -> 0 .. MaxCalls]
           /\ runs' = runs
           /\ stream' = 0 /\ value' \in Seq(Packet)
           /\ clientOpen' \subseteq Sock
           /\ outbox' \in [Sock -> Seq(Reply)]
           /\ inbox' \in [Sock -> SUBSET Packet]
<1>1. PICK n \in 0 .. Len(buf) - 1 : Deliver(buf, n)
  BY DEF SendFails
<1>2. n \in 0 .. Len(buf)
  OBVIOUS
<1>3. call \in Calls
  BY DEF TypeInv, Blocked
<1>4. "send" \in Outcomes /\ 0 \in 0 .. MaxCalls
  BY BoundsAssumption DEF Outcomes, Failures
<1>5. ReturnFrom(call, "send", 0) /\ call' = call /\ kind' = kind /\ CloseStream /\ value' = buf
  BY DEF SendFails, Return
<1>. QED BY <1>1, <1>2, <1>3, <1>4, <1>5, ReturnType, CloseStreamType, DeliverType

LEMMA SendSucceedsType ==
    ASSUME TypeInv, NEW buf \in Seq(Packet), SendSucceeds(buf)
    PROVE  /\ UNCHANGED <<stream, clientOpen, outbox>>
           /\ value' \in Seq(Packet)
           /\ inbox' \in [Sock -> SUBSET Packet]
<1>1. Len(buf) \in 0 .. Len(buf)
  OBVIOUS
<1>. QED BY <1>1, DeliverType DEF SendSucceeds

LEMMA BufferType ==
    ASSUME TypeInv, pc # "idle"
    PROVE  /\ AuthBatch \in Seq(Packet)
           /\ LookupBuffer \in Seq(Packet)
           /\ RequestBuffer \in Seq(Packet)
<1>1. call \in Calls /\ sync_counter \in Nat /\ value \in Seq(Packet)
  BY DEF TypeInv, TypeOK, Blocked
<1>2. \A k \in PacketKinds, n \in Nat : Fresh(k, n) \in Packet
  BY <1>1 DEF Fresh, Packet
<1>3. Wanted \in PacketKinds
  BY DEF Wanted, PacketKinds
<1>4. {"auth", "spaces", "indexes", "user"} \subseteq PacketKinds
  BY DEF PacketKinds
<1>5. AuthBatch \in Seq(Packet)
  BY <1>2, <1>4 DEF AuthBatch
<1>. QED BY <1>1, <1>2, <1>3, <1>4, <1>5 DEF LookupBuffer, RequestBuffer

(***************************************************************************)
(* Where a call goes on after a connect, a batch or a failed attempt.      *)
(***************************************************************************)
LEMMA ReturnFits ==
    ASSUME TypeInv, pc # "idle", NEW how \in Outcomes, Return(how)
    PROVE  /\ pc' = "idle" /\ left' \in Nat /\ resume' = "return" /\ batch' = "ok"
           /\ mySync' \in Nat /\ call' = call /\ kind' = kind
           /\ outcome' \in [Calls -> Outcomes]
           /\ answer' \in [Calls -> 0 .. MaxCalls]
           /\ runs' = runs
<1>1. call \in Calls /\ 0 \in 0 .. MaxCalls
  BY BoundsAssumption DEF TypeInv, Blocked
<1>. QED BY <1>1, ReturnType DEF Return

LEMMA ProceedType ==
    ASSUME TypeInv, pc # "idle", Proceed
    PROVE  /\ pc' \in {"idle", "demand", "ready"} /\ left' \in Nat /\ resume' = "return"
           /\ batch' = "ok" /\ mySync' \in Nat /\ call' = call /\ kind' = kind
           /\ outcome' \in [Calls -> Outcomes]
           /\ answer' \in [Calls -> 0 .. MaxCalls]
           /\ runs' = runs
<1>1. "ok" \in Outcomes
  BY DEF Outcomes
<1>2. CASE resume = "return"
  BY <1>1, <1>2, ReturnFits DEF Proceed
<1>3. CASE resume # "return"
  BY <1>3 DEF Proceed, TypeInv, TypeOK, seenVars
<1>. QED BY <1>2, <1>3

LEMMA NextAttemptType ==
    ASSUME TypeInv, pc # "idle", NEW n \in Nat, NextAttempt(n)
    PROVE  /\ pc' \in {"idle", "open"} /\ left' \in Nat /\ (pc' = "open" => left' >= 1)
           /\ resume' \in {"return", "demand", "ready"}
           /\ batch' \in {"ok", "parse", "client"} /\ mySync' \in Nat
           /\ call' = call /\ kind' = kind
           /\ outcome' \in [Calls -> Outcomes]
           /\ answer' \in [Calls -> 0 .. MaxCalls]
           /\ runs' = runs
<1>1. "io" \in Outcomes
  BY DEF Outcomes, Failures
<1>2. CASE n = 0
  BY <1>1, <1>2, ReturnFits DEF NextAttempt
<1>3. CASE n # 0
  BY <1>3 DEF NextAttempt, TypeInv, TypeOK, seenVars
<1>. QED BY <1>2, <1>3

LEMMA NextResponseType ==
    ASSUME TypeInv, pc = "auth", NEW status \in {"ok", "parse", "client"}, NextResponse(status)
    PROVE  /\ pc' \in {"idle", "demand", "ready", "auth"} /\ left' \in Nat
           /\ resume' \in {"return", "demand", "ready"}
           /\ batch' \in {"ok", "parse", "client"} /\ mySync' \in Nat
           /\ call' = call /\ kind' = kind
           /\ outcome' \in [Calls -> Outcomes]
           /\ answer' \in [Calls -> 0 .. MaxCalls]
           /\ runs' = runs
<1>1. status \in Outcomes
  BY DEF Outcomes, Failures
<1>2. CASE left > 1
  BY <1>2 DEF NextResponse, TypeInv, TypeOK, seenVars
<1>3. CASE ~ (left > 1) /\ status = "ok"
  BY <1>3, ProceedType DEF NextResponse
<1>4. CASE ~ (left > 1) /\ status # "ok"
  BY <1>1, <1>4, ReturnFits DEF NextResponse
<1>. QED BY <1>2, <1>3, <1>4

-----------------------------------------------------------------------------
(***************************************************************************)
(* The type invariant, one lemma per group of actions.                     *)
(***************************************************************************)
LEMMA InitTyped == Init => TypeInv
BY PasswordAssumption, BoundsAssumption
   DEF Init, TypeInv, TypeOK, Blocked, Places, Greetings, Outcomes

LEMMA ConnectTyped == TypeInv /\ Connect => TypeInv'
<1>. SUFFICES ASSUME TypeInv, Connect PROVE TypeInv'
  OBVIOUS
<1>1. CASE OpenSucceeds
  <2>1. left \in Nat /\ left >= 1 /\ pc = "open" /\ nextSock \in Sock
    BY <1>1 DEF OpenSucceeds, TypeInv, TypeOK, Blocked
  <2>2. left - 1 \in Nat
    BY <2>1
  <2>3. TypeOK'
    BY <1>1, <2>1, <2>2, BoundsAssumption
       DEF OpenSucceeds, TypeInv, TypeOK, seenVars, Places
  <2>4. Blocked'
    BY <1>1, <2>1 DEF OpenSucceeds, TypeInv, Blocked
  <2>. QED BY <2>3, <2>4 DEF TypeInv
<1>2. CASE OpenFails
  <2>1. left - 1 \in Nat /\ pc = "open"
    BY <1>2 DEF OpenFails, TypeInv, TypeOK, Blocked
  <2>2. NextAttempt(left - 1) /\ UNCHANGED <<connVars, netVars>>
    BY <1>2 DEF OpenFails
  <2>. QED BY <2>1, <2>2, NextAttemptType
           DEF TypeInv, TypeOK, Blocked, connVars, netVars, Places
<1>3. CASE GreetingRead
  <2>1. pc = "greet" /\ stream \in Sock /\ call \in Calls
    BY <1>3 DEF GreetingRead, TypeInv, Blocked
  <2>2. hello' \in [Sock -> Greetings]
    BY <1>3 DEF GreetingRead, TypeInv, TypeOK, Greetings
  <2>3. UNCHANGED <<connVars, nextSock, clientOpen, alive, inbox, outbox, session>>
    BY <1>3 DEF GreetingRead
  <2>4. CASE passwd
    BY <1>3, <2>1, <2>2, <2>3, <2>4
       DEF GreetingRead, TypeInv, TypeOK, Blocked, connVars, seenVars, Places
  <2>5. CASE ~ passwd
    <3>1. Proceed
      BY <1>3, <2>5 DEF GreetingRead
    <3>. QED BY <3>1, <2>1, <2>2, <2>3, ProceedType
             DEF TypeInv, TypeOK, Blocked, connVars, Places
  <2>. QED BY <2>4, <2>5
<1>4. CASE GreetingShort
  <2>1. left \in Nat /\ pc = "greet" /\ NextAttempt(left) /\ UNCHANGED <<connVars, netVars>>
    BY <1>4 DEF GreetingShort, TypeInv, TypeOK
  <2>. QED BY <2>1, NextAttemptType
           DEF TypeInv, TypeOK, Blocked, connVars, netVars, Places
<1>5. CASE GreetingBad
  <2>1. "io" \in Outcomes /\ pc # "idle" /\ Return("io")
    BY <1>5 DEF GreetingBad, Outcomes, Failures
  <2>2. hello' \in [Sock -> Greetings]
    BY <1>5 DEF GreetingBad, TypeInv, TypeOK, Greetings
  <2>3. UNCHANGED <<connVars, nextSock, clientOpen, alive, inbox, outbox, session>>
    BY <1>5 DEF GreetingBad
  <2>. QED BY <2>1, <2>2, <2>3, ReturnFits
           DEF TypeInv, TypeOK, Blocked, connVars, Places
<1>. QED BY <1>1, <1>2, <1>3, <1>4, <1>5 DEF Connect

LEMMA CloseTyped ==
    ASSUME TypeInv, pc # "idle", NEW how \in Outcomes, Return(how), CloseStream,
           UNCHANGED <<value, cache, passwd, sync_counter, nextSock, alive, hello,
                       inbox, session>>
    PROVE  TypeInv'
<1>1. /\ pc' = "idle" /\ left' \in Nat /\ resume' = "return" /\ batch' = "ok"
      /\ mySync' \in Nat /\ call' = call /\ kind' = kind
      /\ outcome' \in [Calls -> Outcomes]
      /\ answer' \in [Calls -> 0 .. MaxCalls]
      /\ runs' = runs
  BY ReturnFits
<1>2. stream' = 0 /\ clientOpen' \subseteq Sock /\ outbox' \in [Sock -> Seq(Reply)]
  BY CloseStreamType
<1>. QED BY <1>1, <1>2, BoundsAssumption DEF TypeInv, TypeOK, Blocked, Places

LEMMA FailReadTyped ==
    ASSUME TypeInv, pc # "idle", FailRead,
           UNCHANGED <<value, cache, passwd, sync_counter, nextSock, alive, hello,
                       inbox, session>>
    PROVE  TypeInv'
<1>1. "io" \in Outcomes /\ CloseStream /\ Return("io")
  BY DEF FailRead, Outcomes, Failures
<1>. QED BY <1>1, CloseTyped

LEMMA SendFailsTyped ==
    ASSUME TypeInv, pc # "idle", NEW buf \in Seq(Packet), SendFails(buf),
           cache' \subseteq Names, sync_counter' \in Nat,
           UNCHANGED <<passwd, nextSock, alive, hello, session>>
    PROVE  TypeInv'
<1>1. /\ pc' = "idle" /\ left' \in Nat /\ resume' = "return" /\ batch' = "ok"
      /\ mySync' \in Nat /\ call' = call /\ kind' = kind
      /\ outcome' \in [Calls -> Outcomes]
      /\ answer' \in [Calls -> 0 .. MaxCalls]
      /\ runs' = runs
      /\ stream' = 0 /\ value' \in Seq(Packet)
      /\ clientOpen' \subseteq Sock
      /\ outbox' \in [Sock -> Seq(Reply)]
      /\ inbox' \in [Sock -> SUBSET Packet]
  BY SendFailsType
<1>. QED BY <1>1, BoundsAssumption DEF TypeInv, TypeOK, Blocked, Places

LEMMA AuthenticateTyped == TypeInv /\ Authenticate => TypeInv'
<1>. SUFFICES ASSUME TypeInv, Authenticate PROVE TypeInv'
  OBVIOUS
<1>1. CASE AuthSend
  <2>1. pc # "idle" /\ stream \in Sock /\ call \in Calls
    BY <1>1 DEF AuthSend, TypeInv, Blocked
  <2>2. AuthBatch \in Seq(Packet)
    BY <2>1, BufferType
  <2>3. /\ cache' = {} /\ sync_counter' \in Nat
        /\ UNCHANGED <<passwd, nextSock, alive, hello, session>>
    BY <1>1 DEF AuthSend, TypeInv, TypeOK, BatchSize
  <2>4. CASE /\ SendSucceeds(AuthBatch)
             /\ pc' = "auth" /\ left' = BatchSize /\ mySync' = sync_counter /\ batch' = "ok"
             /\ UNCHANGED <<call, kind, resume, seenVars>>
    BY <2>1, <2>2, <2>3, <2>4, SendSucceedsType
       DEF TypeInv, TypeOK, Blocked, seenVars, Places, BatchSize
  <2>5. CASE SendFails(AuthBatch)
    <3>1. cache' \subseteq Names
      BY <2>3
    <3>. QED BY <2>1, <2>2, <2>3, <2>5, <3>1, SendFailsTyped
  <2>. QED BY <1>1, <2>4, <2>5 DEF AuthSend
<1>2. CASE AuthReply
  <2>. DEFINE r == Head(outbox[stream])
  <2>1. pc = "auth" /\ stream \in Sock /\ call \in Calls /\ HasReply(stream) /\ ConsumeReply
    BY <1>2 DEF AuthReply, TypeInv, Blocked
  <2>2. cache' \subseteq Names
    BY <1>2 DEF AuthReply, Learned, TypeInv, TypeOK, Names
  <2>3. BatchStatus(r) \in {"ok", "parse", "client"} /\ NextResponse(BatchStatus(r))
    BY <1>2 DEF AuthReply, BatchStatus, TypeInv, TypeOK
  <2>4. UNCHANGED <<stream, value, passwd, sync_counter, nextSock, clientOpen,
                    alive, hello, inbox, session>>
    BY <1>2 DEF AuthReply
  <2>5. outbox' \in [Sock -> Seq(Reply)]
    BY <2>1, ConsumeReplyType
  <2>. HIDE DEF r
  <2>. QED BY <2>1, <2>2, <2>3, <2>4, <2>5, NextResponseType
           DEF TypeInv, TypeOK, Blocked, Places
<1>3. CASE AuthJunk
  <2>. DEFINE st == IF batch = "ok" THEN "parse" ELSE batch
  <2>1. pc = "auth" /\ stream \in Sock /\ call \in Calls /\ ConsumeJunk
    BY <1>3 DEF AuthJunk, TypeInv, Blocked
  <2>2. st \in {"ok", "parse", "client"} /\ NextResponse(st)
    BY <1>3 DEF AuthJunk, TypeInv, TypeOK
  <2>3. UNCHANGED <<connVars, nextSock, clientOpen, alive, inbox, outbox, session>>
    BY <1>3 DEF AuthJunk
  <2>. HIDE DEF st
  <2>. QED BY <2>1, <2>2, <2>3, NextResponseType, ConsumeJunkType
           DEF TypeInv, TypeOK, Blocked, connVars, Places
<1>4. CASE AuthShort
  BY <1>4, FailReadTyped DEF AuthShort
<1>. QED BY <1>1, <1>2, <1>3, <1>4 DEF Authenticate

LEMMA DemandTyped == TypeInv /\ Demand => TypeInv'
<1>. SUFFICES ASSUME TypeInv, Demand PROVE TypeInv'
  OBVIOUS
<1>1. CASE DemandConnect
  BY <1>1, RetryCountAssumption
     DEF DemandConnect, EnterConnect, TypeInv, TypeOK, Blocked, connVars, netVars,
         seenVars, Places
<1>2. CASE DemandReconnect
  <2>1. stream' = 0 /\ clientOpen' \subseteq Sock /\ outbox' \in [Sock -> Seq(Reply)]
    BY <1>2, CloseStreamType DEF DemandReconnect
  <2>. QED BY <1>2, <2>1, RetryCountAssumption, BoundsAssumption
           DEF DemandReconnect, EnterConnect, TypeInv, TypeOK, Blocked, seenVars, Places
<1>3. CASE DemandMet
  <2>1. stream \in Sock
    BY <1>3 DEF DemandMet, TypeInv, TypeOK
  <2>. QED BY <1>3, <2>1
           DEF DemandMet, TypeInv, TypeOK, Blocked, connVars, netVars, seenVars, Places
<1>. QED BY <1>1, <1>2, <1>3 DEF Demand

LEMMA LookupTyped == TypeInv /\ Lookup => TypeInv'
<1>. SUFFICES ASSUME TypeInv, Lookup PROVE TypeInv'
  OBVIOUS
<1>1. CASE LookupSend
  <2>1. pc # "idle" /\ stream \in Sock /\ call \in Calls
    BY <1>1 DEF LookupSend, TypeInv, Blocked
  <2>2. LookupBuffer \in Seq(Packet)
    BY <2>1, BufferType
  <2>3. /\ cache' \subseteq Names /\ sync_counter' \in Nat
        /\ UNCHANGED <<cache, passwd, nextSock, alive, hello, session>>
    BY <1>1 DEF LookupSend, TypeInv, TypeOK
  <2>4. CASE /\ SendSucceeds(LookupBuffer)
             /\ pc' = "lookup" /\ mySync' = sync_counter
             /\ UNCHANGED <<call, kind, left, resume, batch, seenVars>>
    BY <2>1, <2>2, <2>3, <2>4, SendSucceedsType
       DEF TypeInv, TypeOK, Blocked, seenVars, Places
  <2>5. CASE SendFails(LookupBuffer)
    BY <2>1, <2>2, <2>3, <2>5, SendFailsTyped
  <2>. QED BY <1>1, <2>4, <2>5 DEF LookupSend
<1>2. CASE LookupReply
  <2>1. pc = "lookup" /\ stream \in Sock /\ call \in Calls /\ HasReply(stream) /\ ConsumeReply
    BY <1>2 DEF LookupReply, TypeInv, Blocked
  <2>2. UNCHANGED <<stream, value, passwd, sync_counter, nextSock, clientOpen,
                    alive, hello, inbox, session>>
    BY <1>2 DEF LookupReply
  <2>3. outbox' \in [Sock -> Seq(Reply)]
    BY <2>1, ConsumeReplyType
  <2>4. Wanted \in Names /\ {"undefined", "client"} \subseteq Outcomes
    BY DEF Wanted, Names, Outcomes, Failures
  <2>5. CASE /\ cache' = cache \union {Wanted} /\ pc' = "ready" /\ mySync' = 0
             /\ UNCHANGED <<call, kind, left, resume, batch, seenVars>>
    BY <2>1, <2>2, <2>3, <2>4, <2>5 DEF TypeInv, TypeOK, Blocked, seenVars, Places
  <2>6. ASSUME NEW how \in {"undefined", "client"}, Return(how), cache' = cache
        PROVE  TypeInv'
    BY <2>1, <2>2, <2>3, <2>4, <2>6, ReturnFits DEF TypeInv, TypeOK, Blocked, Places
  <2>. QED BY <1>2, <2>5, <2>6 DEF LookupReply
<1>3. CASE LookupJunk
  <2>1. pc = "lookup" /\ ConsumeJunk /\ Return("parse") /\ "parse" \in Outcomes
    BY <1>3 DEF LookupJunk, Outcomes, Failures
  <2>2. UNCHANGED <<connVars, nextSock, clientOpen, alive, inbox, outbox, session>>
    BY <1>3 DEF LookupJunk
  <2>. QED BY <2>1, <2>2, ReturnFits, ConsumeJunkType
           DEF TypeInv, TypeOK, Blocked, connVars, Places
<1>4. CASE LookupShort
  BY <1>4, FailReadTyped DEF LookupShort
<1>. QED BY <1>1, <1>2, <1>3, <1>4 DEF Lookup

LEMMA RequestTyped == TypeInv /\ Request => TypeInv'
<1>. SUFFICES ASSUME TypeInv, Request PROVE TypeInv'
  OBVIOUS
<1>1. CASE RequestSend
  <2>1. pc # "idle" /\ stream \in Sock /\ call \in Calls
    BY <1>1 DEF RequestSend, TypeInv, Blocked
  <2>2. RequestBuffer \in Seq(Packet)
    BY <2>1, BufferType
  <2>3. /\ cache' \subseteq Names /\ sync_counter' \in Nat
        /\ UNCHANGED <<cache, passwd, nextSock, alive, hello, session>>
    BY <1>1 DEF RequestSend, TypeInv, TypeOK
  <2>4. CASE /\ SendSucceeds(RequestBuffer)
             /\ pc' = "recv" /\ mySync' = sync_counter
             /\ UNCHANGED <<call, kind, left, resume, batch, seenVars>>
    BY <2>1, <2>2, <2>3, <2>4, SendSucceedsType
       DEF TypeInv, TypeOK, Blocked, seenVars, Places
  <2>5. CASE SendFails(RequestBuffer)
    BY <2>1, <2>2, <2>3, <2>5, SendFailsTyped
  <2>. QED BY <1>1, <2>4, <2>5 DEF RequestSend
<1>2. CASE RecvReply
  <2>. DEFINE r == Head(outbox[stream])
  <2>1. pc = "recv" /\ stream \in Sock /\ call \in Calls /\ HasReply(stream)
    BY <1>2 DEF RecvReply, TypeInv, Blocked
  <2>2. UNCHANGED <<value, cache, passwd, sync_counter, nextSock, alive, hello,
                    inbox, session>>
    BY <1>2 DEF RecvReply
  <2>3. {"ok", "client", "sync"} \subseteq Outcomes
    BY DEF Outcomes, Failures
  <2>4. CASE ReturnFrom(call, "ok", r.call) /\ ConsumeReply
             /\ UNCHANGED <<call, kind, stream, clientOpen>>
    <3>1. outbox' \in [Sock -> Seq(Reply)] /\ r \in Reply
      BY <2>1, <2>4, ConsumeReplyType
    <3>2. r.call \in 0 .. MaxCalls
      BY <3>1 DEF Reply
    <3>. HIDE DEF r
    <3>. QED BY <2>1, <2>2, <2>3, <2>4, <3>1, <3>2, ReturnType
             DEF TypeInv, TypeOK, Blocked, Places
  <2>5. CASE Return("client") /\ ConsumeReply /\ UNCHANGED <<stream, clientOpen>>
    <3>1. outbox' \in [Sock -> Seq(Reply)]
      BY <2>1, <2>5, ConsumeReplyType
    <3>. QED BY <2>1, <2>2, <2>3, <2>5, <3>1, ReturnFits
             DEF TypeInv, TypeOK, Blocked, Places
  <2>6. CASE Return("sync") /\ CloseStream
    BY <2>1, <2>2, <2>3, <2>6, CloseTyped
  <2>. QED BY <1>2, <2>4, <2>5, <2>6 DEF RecvReply
<1>3. CASE RecvJunk
  <2>1. pc # "idle" /\ CloseStream /\ {"silent", "parse"} \subseteq Outcomes
    BY <1>3 DEF RecvJunk, Outcomes, Failures
  <2>2. UNCHANGED <<value, cache, passwd, sync_counter, nextSock, alive, hello,
                    inbox, session>>
    BY <1>3 DEF RecvJunk
  <2>3. PICK how \in {"silent", "parse"} : Return(how)
    BY <1>3 DEF RecvJunk
  <2>. QED BY <2>1, <2>2, <2>3, CloseTyped
<1>4. CASE RecvShort
  BY <1>4, FailReadTyped DEF RecvShort
<1>. QED BY <1>1, <1>2, <1>3, <1>4 DEF Request

LEMMA ScriptTyped == TypeInv /\ Script => TypeInv'
<1>. SUFFICES ASSUME TypeInv, Script PROVE TypeInv'
  OBVIOUS
<1>. USE KindsAssumption, BoundsAssumption, RetryCountAssumption
<1>1. ASSUME NEW k \in Kinds, Start(k)
      PROVE  /\ pc = "idle" /\ call' \in Calls /\ call' = call + 1 /\ call + 1 \in Calls
             /\ kind' \in AllKinds
  BY <1>1 DEF Start, TypeInv, TypeOK
<1>8. ASSUME NEW k \in Kinds, Start(k), ReturnFrom(call + 1, "ok", 0), cache' \subseteq Names,
             UNCHANGED <<stream, value, passwd, sync_counter, netVars>>
      PROVE  TypeInv'
  <2>1. "ok" \in Outcomes /\ 0 \in 0 .. MaxCalls
    BY DEF Outcomes
  <2>2. /\ pc' = "idle" /\ left' \in Nat /\ resume' = "return" /\ batch' = "ok"
        /\ mySync' \in Nat
        /\ outcome' \in [Calls -> Outcomes]
        /\ answer' \in [Calls -> 0 .. MaxCalls]
        /\ runs' = runs
    BY <1>1, <1>8, <2>1, ReturnType
  <2>3. call' \in 0 .. MaxCalls /\ kind' \in AllKinds \union {"none"}
    BY <1>1, <1>8
  <2>4. TypeOK'
    BY SMTT(60), <1>8, <2>2, <2>3 DEF TypeInv, TypeOK, netVars, Places
  <2>. QED BY <2>2, <2>4 DEF TypeInv, Blocked
<1>2. ASSUME NEW k \in Kinds, StartRequest(k)
      PROVE  TypeInv'
  <2>1. Start(k)
    BY <1>2 DEF StartRequest
  <2>. QED BY <1>1, <1>2, <2>1
           DEF StartRequest, TypeInv, TypeOK, Blocked, connVars, netVars, seenVars, Places
<1>3. CASE StartAuthenticate
  <2>1. Start("authenticate") /\ "authenticate" \in Kinds
    BY <1>3 DEF StartAuthenticate, Start
  <2>. QED BY <1>1, <1>3, <2>1
           DEF StartAuthenticate, TypeInv, TypeOK, Blocked, netVars, seenVars, Places
<1>4. CASE StartConnect
  <2>1. Start("connect") /\ "connect" \in Kinds /\ UNCHANGED <<connVars, netVars>>
    BY <1>4 DEF StartConnect, Start
  <2>2. CASE ReturnFrom(call + 1, "ok", 0)
    <3>1. cache' \subseteq Names
      BY <2>1 DEF TypeInv, TypeOK, connVars
    <3>. QED BY <1>8, <2>1, <2>2, <3>1 DEF connVars
  <2>3. CASE EnterConnect("return") /\ UNCHANGED <<batch, mySync, seenVars>>
    BY <1>1, <2>1, <2>3
       DEF EnterConnect, TypeInv, TypeOK, Blocked, connVars, netVars, seenVars, Places
  <2>. QED BY <1>4, <2>2, <2>3 DEF StartConnect
<1>5. CASE StartReconnect
  <2>1. Start("reconnect") /\ "reconnect" \in Kinds
    BY <1>5 DEF StartReconnect, Start
  <2>2. stream' = 0 /\ clientOpen' \subseteq Sock /\ outbox' \in [Sock -> Seq(Reply)]
    BY <1>5, CloseStreamType DEF StartReconnect
  <2>3. call' \in Calls /\ call' \in 0 .. MaxCalls /\ kind' \in AllKinds
    BY <1>1, <2>1
  <2>4. /\ pc' = "open" /\ left' = RetryCount /\ resume' = "return"
        /\ UNCHANGED <<batch, mySync, value, cache, passwd, sync_counter, nextSock, alive,
                       hello, inbox, session, seenVars>>
    BY <1>5 DEF StartReconnect, EnterConnect
  <2>5. TypeOK'
    BY SMTT(60), <2>2, <2>3, <2>4 DEF TypeInv, TypeOK, seenVars, Places
  <2>. QED BY <2>3, <2>4, <2>5 DEF TypeInv, Blocked
<1>6. CASE FlushSchema
  <2>1. /\ Start("flush_schema") /\ "flush_schema" \in Kinds /\ cache' \subseteq Names
    BY <1>6 DEF FlushSchema, Start
  <2>. QED BY <1>6, <1>8, <2>1 DEF FlushSchema
<1>7. CASE Close
  <2>1. Start("close") /\ "close" \in Kinds /\ cache' \subseteq Names
    BY <1>7 DEF Close, Start, TypeInv, TypeOK, connVars
  <2>. QED BY <1>7, <1>8, <2>1 DEF Close, connVars
<1>. QED BY <1>2, <1>3, <1>4, <1>5, <1>6, <1>7 DEF Script

LEMMA ServerTyped == TypeInv /\ Server => TypeInv'
<1>. SUFFICES ASSUME TypeInv, NEW s \in Sock, Greet(s) \/ Execute(s) \/ Drop(s)
              PROVE  TypeInv'
  BY DEF Server
<1>1. CASE Greet(s)
  BY <1>1 DEF Greet, TypeInv, TypeOK, Blocked, callVars, connVars, seenVars, Greetings
<1>2. CASE Execute(s)
  <2>1. PICK p \in inbox[s], code \in Codes :
          /\ inbox' = [inbox EXCEPT ![s] = @ \ {p}]
          /\ outbox' = [outbox EXCEPT ![s] =
                          IF s \in clientOpen
                          THEN Append(@, [kind |-> p.kind, sync |-> p.sync,
                                          call |-> p.call, code |-> code])
                          ELSE @]
          /\ session' = [session EXCEPT ![s] =
                          IF p.kind # "auth" \/ @ = "login" THEN @
                          ELSE IF code = "ok" THEN "login" ELSE "refused"]
          /\ runs' = [runs EXCEPT ![p.call] = IF p.kind = "user" THEN @ + 1 ELSE @]
    BY <1>2 DEF Execute
  <2>2. p \in Packet /\ code \in {"ok", "error"} /\ outbox[s] \in Seq(Reply)
    BY <2>1 DEF Codes, TypeInv, TypeOK
  <2>3. [kind |-> p.kind, sync |-> p.sync, call |-> p.call, code |-> code] \in Reply
    BY <2>2 DEF Packet, Reply
  <2>4. outbox' \in [Sock -> Seq(Reply)]
    BY <2>1, <2>2, <2>3 DEF TypeInv, TypeOK
  <2>5. inbox' \in [Sock -> SUBSET Packet] /\ session' \in [Sock -> {"guest", "login", "refused"}]
    BY <2>1 DEF TypeInv, TypeOK
  <2>6. runs' \in [Calls -> Nat]
    BY <2>1, <2>2 DEF TypeInv, TypeOK, Packet
  <2>7. UNCHANGED <<callVars, connVars, nextSock, clientOpen, alive, hello, outcome, answer>>
    BY <1>2 DEF Execute
  <2>. QED BY <2>4, <2>5, <2>6, <2>7 DEF TypeInv, TypeOK, Blocked, callVars, connVars
<1>3. CASE Drop(s)
  <2>1. PICK n \in 0 .. Len(outbox[s]) : outbox' = [outbox EXCEPT ![s] = SubSeq(@, 1, n)]
    BY <1>3 DEF Drop
  <2>2. outbox[s] \in Seq(Reply)
    BY DEF TypeInv, TypeOK
  <2>3. SubSeq(outbox[s], 1, n) \in Seq(Reply)
    BY <2>2
  <2>4. outbox' \in [Sock -> Seq(Reply)]
    BY <2>1, <2>3 DEF TypeInv, TypeOK
  <2>. QED BY <1>3, <2>4
           DEF Drop, TypeInv, TypeOK, Blocked, callVars, connVars, seenVars
<1>. QED BY <1>1, <1>2, <1>3

LEMMA NextTyped == TypeInv /\ [Next]_vars => TypeInv'
<1>1. TypeInv /\ UNCHANGED vars => TypeInv'
  BY DEF TypeInv, TypeOK, Blocked, vars, callVars, connVars, netVars, seenVars
<1>. QED BY <1>1, ConnectTyped, AuthenticateTyped, DemandTyped, LookupTyped,
            RequestTyped, ScriptTyped, ServerTyped
         DEF Next, Extension, Finished

(***************************************************************************)
(* Every variable keeps its type; a blocked call has a number, attempts    *)
(* left while it connects, and a stream to write to or read from.          *)
(***************************************************************************)
THEOREM TypeInvariant == Spec => []TypeInv
BY InitTyped, NextTyped, PTL DEF Spec

(***************************************************************************)
(* The counters of the connect loop and of the batch stay in their bounds, *)
(* and every stream, call and packet is one there is.                      *)
(***************************************************************************)
THEOREM TypeCorrect == Spec => []TypeOK
<1>1. TypeInv => TypeOK
  BY DEF TypeInv
<1> QED
  BY <1>1, TypeInvariant, PTL

-----------------------------------------------------------------------------
(***************************************************************************)
(* The inductive invariant CallInv.  Most steps put nothing new into the   *)
(* buffer or onto a stream.                                                *)
(***************************************************************************)
NoNewTraffic ==
    /\ \A i \in 1 .. Len(value') : \E j \in 1 .. Len(value) : value'[i] = value[j]
    /\ \A s \in Sock : inbox'[s] \subseteq inbox[s]
    /\ \A s \in Sock : \A i \in 1 .. Len(outbox'[s]) :
          \E j \in 1 .. Len(outbox[s]) : outbox'[s][i] = outbox[s][j]

LEMMA SettledStays ==
    ASSUME NoNewTraffic, NEW c, Settled(c)
    PROVE  Settled(c)'
BY DEF NoNewTraffic, Settled, IsRequestOf

LEMMA FieldTypes ==
    ASSUME TypeOK
    PROVE  /\ \A i \in 1 .. Len(value) : value[i].sync \in Nat /\ value[i].call \in Nat
           /\ \A s \in Sock : \A p \in inbox[s] : p \in Packet /\ p.sync \in Nat /\ p.call \in Calls
           /\ \A s \in Sock : \A i \in 1 .. Len(outbox[s]) :
                outbox[s][i].sync \in Nat /\ outbox[s][i].call \in Calls
           /\ call \in Nat /\ sync_counter \in Nat
<1>1. ASSUME NEW i \in 1 .. Len(value)
      PROVE  value[i].sync \in Nat /\ value[i].call \in Nat
  <2>1. value[i] \in Packet
    BY DEF TypeOK
  <2>. QED BY <2>1 DEF Packet
<1>2. ASSUME NEW s \in Sock, NEW p \in inbox[s]
      PROVE  p \in Packet /\ p.sync \in Nat /\ p.call \in Calls
  <2>1. p \in Packet
    BY DEF TypeOK
  <2>. QED BY <2>1 DEF Packet
<1>3. ASSUME NEW s \in Sock, NEW i \in 1 .. Len(outbox[s])
      PROVE  outbox[s][i].sync \in Nat /\ outbox[s][i].call \in Calls
  <2>1. outbox[s] \in Seq(Reply)
    BY DEF TypeOK
  <2>2. outbox[s][i] \in Reply
    BY <2>1
  <2>. QED BY <2>2 DEF Reply
<1>4. call \in Nat /\ sync_counter \in Nat
  BY DEF TypeOK
<1>. QED BY <1>1, <1>2, <1>3, <1>4

LEMMA IssuedStays ==
    ASSUME TypeOK, TypeOK', AllIssued, NoNewTraffic,
           sync_counter' >= sync_counter, call' >= call
    PROVE  AllIssued'
<1>1. call' \in Nat /\ sync_counter' \in Nat
  BY DEF TypeOK
<1>2. ASSUME NEW i \in 1 .. Len(value')
      PROVE  value'[i].sync < sync_counter' /\ value'[i].call <= call'
  <2>1. PICK j \in 1 .. Len(value) : value'[i] = value[j]
    BY DEF NoNewTraffic
  <2>. QED BY <1>1, <2>1, FieldTypes DEF AllIssued, Issued
<1>3. ASSUME NEW s \in Sock, NEW p \in inbox'[s]
      PROVE  p.sync < sync_counter' /\ p.call <= call'
  <2>1. p \in inbox[s]
    BY DEF NoNewTraffic
  <2>. QED BY <1>1, <2>1, FieldTypes DEF AllIssued, Issued
<1>4. ASSUME NEW s \in Sock, NEW i \in 1 .. Len(outbox'[s])
      PROVE  outbox'[s][i].sync < sync_counter' /\ outbox'[s][i].call <= call'
  <2>1. PICK j \in 1 .. Len(outbox[s]) : outbox'[s][i] = outbox[s][j]
    BY DEF NoNewTraffic
  <2>. QED BY <1>1, <2>1, FieldTypes DEF AllIssued, Issued
<1>. QED BY <1>2, <1>3, <1>4 DEF AllIssued, Issued

(***************************************************************************)
(* The call goes on, or returns without an answer.                         *)
(***************************************************************************)
LEMMA LocalStep ==
    ASSUME CallInv, TypeInv', NoNewTraffic, call' = call, UNCHANGED <<runs, sync_counter>>,
           pc # "idle", pc' # "recv", pc' # "idle" => pc # "recv",
           answer' = answer \/ answer' = [answer EXCEPT ![call] = 0]
    PROVE  CallInv'
<1>1. AllIssued'
  BY IssuedStays, FieldTypes DEF CallInv, TypeInv
<1>2. NotYetSent'
  <2>. SUFFICES ASSUME pc' \notin {"idle", "recv"}
                PROVE  /\ Settled(call)'
                       /\ runs'[call'] = 0
                       /\ \A s \in Sock : \A i \in 1 .. Len(outbox'[s]) :
                            ~ IsRequestOf(outbox'[s][i], call')
    BY DEF NotYetSent, IsRequestOf
  <2>1. Settled(call) /\ runs[call] = 0
        /\ \A s \in Sock : \A i \in 1 .. Len(outbox[s]) : ~ IsRequestOf(outbox[s][i], call)
    BY DEF CallInv, NotYetSent
  <2>2. Settled(call)'
    BY <2>1 DEF NoNewTraffic, Settled, IsRequestOf
  <2>. QED BY <2>1, <2>2 DEF NoNewTraffic
<1>3. Awaiting'
  BY DEF Awaiting
<1>4. Answered'
  <2>. SUFFICES ASSUME NEW c \in Calls
                PROVE  /\ answer'[c] # 0 => answer'[c] = c /\ runs'[c] = 1 /\ Settled(c)'
                       /\ c > call' => runs'[c] = 0 /\ answer'[c] = 0
                       /\ c = call' /\ pc' # "idle" => answer'[c] = 0
    BY DEF Answered, Settled, IsRequestOf
  <2>1. answer'[c] = answer[c] \/ (c = call /\ answer'[c] = 0)
    BY DEF CallInv, TypeOK
  <2>2. /\ answer[c] # 0 => answer[c] = c /\ runs[c] = 1 /\ Settled(c)
        /\ c > call => runs[c] = 0 /\ answer[c] = 0
        /\ c = call => answer[c] = 0
    BY DEF CallInv, Answered
  <2>3. Settled(c) => Settled(c)'
    BY SettledStays
  <2>. QED BY <2>1, <2>2, <2>3
<1>. QED BY <1>1, <1>2, <1>3, <1>4 DEF CallInv, TypeInv

(***************************************************************************)
(* A new call starts, or starts and returns.                               *)
(***************************************************************************)
LEMMA StartStep ==
    ASSUME CallInv, TypeInv', NoNewTraffic, call' = call + 1, call + 1 \in Calls,
           UNCHANGED <<runs, sync_counter>>, pc = "idle", pc' # "recv",
           answer' = answer \/ answer' = [answer EXCEPT ![call + 1] = 0]
    PROVE  CallInv'
<1>1. call \in Nat /\ call' > call
  BY DEF CallInv, TypeOK
<1>2. AllIssued'
  BY <1>1, IssuedStays, FieldTypes DEF CallInv, TypeInv
<1>3. \A p : Issued(p) /\ p.call \in Nat => ~ IsRequestOf(p, call + 1)
  BY <1>1 DEF Issued, IsRequestOf
<1>4. Settled(call + 1)
  BY <1>3, FieldTypes DEF CallInv, AllIssued, Settled
<1>5. \A s \in Sock : \A i \in 1 .. Len(outbox[s]) : ~ IsRequestOf(outbox[s][i], call + 1)
  BY <1>3, FieldTypes DEF CallInv, AllIssued
<1>6. runs[call + 1] = 0 /\ answer[call + 1] = 0
  BY <1>1 DEF CallInv, Answered
<1>7. Settled(call)'
  BY <1>4 DEF NoNewTraffic, Settled, IsRequestOf
<1>8. NotYetSent'
  <2>. SUFFICES ASSUME pc' \notin {"idle", "recv"}
                PROVE  /\ Settled(call)'
                       /\ runs'[call'] = 0
                       /\ \A s \in Sock : \A i \in 1 .. Len(outbox'[s]) :
                            ~ IsRequestOf(outbox'[s][i], call')
    BY DEF NotYetSent, IsRequestOf
  <2>1. runs'[call'] = 0
    BY <1>6
  <2>2. ASSUME NEW s \in Sock, NEW i \in 1 .. Len(outbox'[s])
        PROVE  ~ IsRequestOf(outbox'[s][i], call')
    <3>1. PICK j \in 1 .. Len(outbox[s]) : outbox'[s][i] = outbox[s][j]
      BY DEF NoNewTraffic
    <3>. QED BY <1>5, <3>1
  <2>. QED BY <1>7, <2>1, <2>2
<1>9. Awaiting'
  BY DEF Awaiting
<1>10. Answered'
  <2>. SUFFICES ASSUME NEW c \in Calls
                PROVE  /\ answer'[c] # 0 => answer'[c] = c /\ runs'[c] = 1 /\ Settled(c)'
                       /\ c > call' => runs'[c] = 0 /\ answer'[c] = 0
                       /\ c = call' /\ pc' # "idle" => answer'[c] = 0
    BY DEF Answered, Settled, IsRequestOf
  <2>1. answer'[c] = answer[c] \/ (c = call + 1 /\ answer'[c] = 0)
    BY DEF CallInv, TypeOK
  <2>2. /\ answer[c] # 0 => answer[c] = c /\ runs[c] = 1 /\ Settled(c)
        /\ c > call => runs[c] = 0 /\ answer[c] = 0
    BY DEF CallInv, Answered
  <2>3. Settled(c) => Settled(c)'
    BY SettledStays
  <2>. QED BY <1>1, <1>6, <2>1, <2>2, <2>3
<1>. QED BY <1>2, <1>8, <1>9, <1>10 DEF CallInv, TypeInv

(***************************************************************************)
(* The server or the network moves, and adds nothing.                      *)
(***************************************************************************)
LEMMA QuietStep ==
    ASSUME CallInv, TypeInv', NoNewTraffic,
           UNCHANGED <<call, pc, mySync, stream, value, sync_counter, answer, runs>>
    PROVE  CallInv'
<1>1. AllIssued'
  BY IssuedStays, FieldTypes DEF CallInv, TypeInv
<1>2. \A c : Settled(c) => Settled(c)'
  BY SettledStays
<1>3. NotYetSent'
  <2>. SUFFICES ASSUME pc' \notin {"idle", "recv"}
                PROVE  /\ Settled(call)'
                       /\ runs'[call'] = 0
                       /\ \A s \in Sock : \A i \in 1 .. Len(outbox'[s]) :
                            ~ IsRequestOf(outbox'[s][i], call')
    BY DEF NotYetSent, IsRequestOf
  <2>1. Settled(call) /\ runs[call] = 0
        /\ \A s \in Sock : \A i \in 1 .. Len(outbox[s]) : ~ IsRequestOf(outbox[s][i], call)
    BY DEF CallInv, NotYetSent
  <2>2. Settled(call)'
    BY <2>1 DEF NoNewTraffic, Settled, IsRequestOf
  <2>. QED BY <2>1, <2>2 DEF NoNewTraffic
<1>4. Awaiting'
  <2>. SUFFICES ASSUME pc = "recv" PROVE Awaiting'
    BY DEF Awaiting
  <2>1. /\ value = <<>> /\ sync_counter = mySync + 1
        /\ \A s \in Sock : \A p \in inbox[s] :
              /\ p.sync = mySync => IsOwn(p)
              /\ IsRequestOf(p, call) => IsOwn(p) /\ s = stream /\ runs[call] = 0
        /\ \A s \in Sock : \A i \in 1 .. Len(outbox[s]) :
              /\ outbox[s][i].sync = mySync => IsOwn(outbox[s][i])
              /\ IsRequestOf(outbox[s][i], call) => runs[call] = 1
    BY DEF CallInv, Awaiting
  <2>2. \A s \in Sock : \A p \in inbox'[s] :
              /\ p.sync = mySync => IsOwn(p)
              /\ IsRequestOf(p, call) => IsOwn(p) /\ s = stream /\ runs[call] = 0
    BY <2>1 DEF NoNewTraffic
  <2>3. ASSUME NEW s \in Sock, NEW i \in 1 .. Len(outbox'[s])
        PROVE  /\ outbox'[s][i].sync = mySync => IsOwn(outbox'[s][i])
               /\ IsRequestOf(outbox'[s][i], call) => runs[call] = 1
    <3>1. PICK j \in 1 .. Len(outbox[s]) : outbox'[s][i] = outbox[s][j]
      BY DEF NoNewTraffic
    <3>. QED BY <2>1, <3>1
  <2>. QED BY <2>1, <2>2, <2>3 DEF Awaiting, IsOwn, IsRequestOf
<1>5. Answered'
  BY <1>2 DEF CallInv, Answered, Settled, NoNewTraffic, IsRequestOf
<1>. QED BY <1>1, <1>3, <1>4, <1>5 DEF CallInv, TypeInv

(***************************************************************************)
(* A step that writes buf.  Its packets carry syncs that were handed out   *)
(* before the step or by it, and a request among them is this call's own   *)
(* or was in the buffer already.                                           *)
(***************************************************************************)
Encoded(buf) ==
    \A i \in 1 .. Len(buf) :
        /\ buf[i].sync < sync_counter'
        /\ buf[i].call <= call
        /\ buf[i].kind = "user" =>
              buf[i].call = call \/ \E j \in 1 .. Len(value) : buf[i] = value[j]

LEMMA Delivered ==
    ASSUME NEW buf, NEW n \in 0 .. Len(buf), Len(buf) \in Nat, Deliver(buf, n),
           NEW s \in Sock, NEW p \in inbox'[s]
    PROVE  p \in inbox[s] \/ (s = stream /\ \E i \in 1 .. Len(buf) : p = buf[i])
<1>1. p \in inbox[s] \/ (s = stream /\ \E i \in 1 .. n : p = buf[i])
  BY DEF Deliver
<1>2. 1 .. n \subseteq 1 .. Len(buf)
  OBVIOUS
<1>. QED BY <1>1, <1>2

LEMMA SendIssued ==
    ASSUME CallInv, TypeOK', NEW buf \in Seq(Packet), NEW n \in 0 .. Len(buf), Deliver(buf, n),
           value' = buf \/ value' = <<>>, Encoded(buf), call' = call,
           sync_counter' >= sync_counter,
           \A s \in Sock : outbox'[s] = outbox[s] \/ outbox'[s] = <<>>
    PROVE  AllIssued'
<1>1. call' \in Nat /\ sync_counter' \in Nat
  BY DEF TypeOK
<1>2. ASSUME NEW i \in 1 .. Len(value')
      PROVE  value'[i].sync < sync_counter' /\ value'[i].call <= call'
  BY DEF Encoded
<1>3. ASSUME NEW s \in Sock, NEW p \in inbox'[s]
      PROVE  p.sync < sync_counter' /\ p.call <= call'
  <2>1. CASE p \in inbox[s]
    BY <1>1, <2>1, FieldTypes DEF CallInv, AllIssued, Issued
  <2>2. CASE \E i \in 1 .. Len(buf) : p = buf[i]
    BY <2>2 DEF Encoded
  <2>. QED BY <2>1, <2>2, Delivered
<1>4. ASSUME NEW s \in Sock, NEW i \in 1 .. Len(outbox'[s])
      PROVE  outbox'[s][i].sync < sync_counter' /\ outbox'[s][i].call <= call'
  <2>1. outbox'[s] = outbox[s]
    OBVIOUS
  <2>. QED BY <1>1, <2>1, FieldTypes DEF CallInv, AllIssued, Issued
<1>. QED BY <1>2, <1>3, <1>4 DEF AllIssued, Issued

LEMMA SendSettled ==
    ASSUME CallInv, NEW buf \in Seq(Packet), NEW n \in 0 .. Len(buf), Deliver(buf, n),
           value' = buf \/ value' = <<>>, Encoded(buf), call' = call,
           NEW c, c # call, Settled(c)
    PROVE  Settled(c)'
<1>1. \A i \in 1 .. Len(buf) : ~ IsRequestOf(buf[i], c)
  BY DEF Encoded, Settled, IsRequestOf
<1>2. \A i \in 1 .. Len(value') : ~ IsRequestOf(value'[i], c)
  BY <1>1
<1>3. \A s \in Sock : \A p \in inbox'[s] : ~ IsRequestOf(p, c)
  BY <1>1, Delivered DEF Settled
<1>. QED BY <1>2, <1>3 DEF Settled, IsRequestOf

LEMMA SendAnswered ==
    ASSUME CallInv, NEW buf \in Seq(Packet), NEW n \in 0 .. Len(buf), Deliver(buf, n),
           value' = buf \/ value' = <<>>, Encoded(buf), call' = call, pc # "idle",
           UNCHANGED runs, answer' = answer \/ answer' = [answer EXCEPT ![call] = 0]
    PROVE  Answered'
<1>. SUFFICES ASSUME NEW c \in Calls
              PROVE  /\ answer'[c] # 0 => answer'[c] = c /\ runs'[c] = 1 /\ Settled(c)'
                     /\ c > call' => runs'[c] = 0 /\ answer'[c] = 0
                     /\ c = call' /\ pc' # "idle" => answer'[c] = 0
  BY DEF Answered, Settled, IsRequestOf
<1>1. answer'[c] = answer[c] \/ (c = call /\ answer'[c] = 0)
  BY DEF CallInv, TypeOK
<1>2. /\ answer[c] # 0 => answer[c] = c /\ runs[c] = 1 /\ Settled(c)
      /\ c > call => runs[c] = 0 /\ answer[c] = 0
      /\ c = call => answer[c] = 0
  BY DEF CallInv, Answered
<1>3. c # call /\ Settled(c) => Settled(c)'
  BY SendSettled
<1>. QED BY <1>1, <1>2, <1>3

LEMMA SendFailsStep ==
    ASSUME CallInv, TypeInv', pc # "idle", NEW buf \in Seq(Packet), SendFails(buf),
           Encoded(buf), sync_counter' >= sync_counter
    PROVE  CallInv'
<1>1. PICK n \in 0 .. Len(buf) - 1 : Deliver(buf, n)
  BY DEF SendFails
<1>2. n \in 0 .. Len(buf)
  OBVIOUS
<1>3. /\ value' = buf /\ call' = call /\ pc' = "idle" /\ UNCHANGED runs
      /\ answer' = [answer EXCEPT ![call] = 0]
      /\ \A s \in Sock : outbox'[s] = outbox[s] \/ outbox'[s] = <<>>
  BY DEF SendFails, Return, ReturnFrom, CloseStream
<1>4. AllIssued'
  BY <1>1, <1>2, <1>3, SendIssued DEF TypeInv
<1>5. Answered'
  BY <1>1, <1>2, <1>3, SendAnswered
<1>. QED BY <1>3, <1>4, <1>5 DEF CallInv, TypeInv, NotYetSent, Awaiting

(***************************************************************************)
(* A batch or a lookup holds no request of the script.                     *)
(***************************************************************************)
LEMMA SystemSendStep ==
    ASSUME CallInv, TypeInv', pc \notin {"idle", "recv"}, NEW buf \in Seq(Packet),
           SendSucceeds(buf), Encoded(buf), sync_counter' >= sync_counter,
           \A i \in 1 .. Len(buf) : buf[i].kind # "user",
           pc' \notin {"idle", "recv"}, UNCHANGED <<call, runs, answer>>
    PROVE  CallInv'
<1>1. Deliver(buf, Len(buf)) /\ Len(buf) \in 0 .. Len(buf) /\ value' = <<>> /\ UNCHANGED outbox
  BY DEF SendSucceeds
<1>2. AllIssued'
  BY <1>1, SendIssued DEF TypeInv
<1>3. Answered'
  BY <1>1, SendAnswered
<1>4. /\ Settled(call) /\ runs[call] = 0
      /\ \A s \in Sock : \A i \in 1 .. Len(outbox[s]) : ~ IsRequestOf(outbox[s][i], call)
  BY DEF CallInv, NotYetSent
<1>5. \A s \in Sock : \A p \in inbox'[s] : ~ IsRequestOf(p, call)
  BY <1>1, <1>4, Delivered DEF Settled, IsRequestOf
<1>6. NotYetSent'
  BY <1>1, <1>4, <1>5 DEF NotYetSent, Settled, IsRequestOf
<1>. QED BY <1>2, <1>3, <1>6 DEF CallInv, TypeInv, Awaiting

(***************************************************************************)
(* The request of the call itself: it gets the next sync, which nothing on *)
(* the stream has.                                                         *)
(***************************************************************************)
LEMMA RequestBufferElements ==
    ASSUME TypeOK
    PROVE  /\ Len(RequestBuffer) = Len(value) + 1
           /\ \A i \in 1 .. Len(value) : RequestBuffer[i] = value[i]
           /\ RequestBuffer[Len(value) + 1] = Fresh("user", 0)
BY DEF TypeOK, RequestBuffer

LEMMA RequestEncoded ==
    ASSUME TypeInv, AllIssued, pc # "idle", sync_counter' = sync_counter + 1
    PROVE  Encoded(RequestBuffer)
<1>1. call \in Nat /\ sync_counter \in Nat /\ Len(value) \in Nat
  BY DEF TypeInv, TypeOK
<1>2. ASSUME NEW i \in 1 .. Len(RequestBuffer)
      PROVE  /\ RequestBuffer[i].sync < sync_counter + 1
             /\ RequestBuffer[i].call <= call
             /\ RequestBuffer[i].kind = "user" =>
                   \/ RequestBuffer[i].call = call
                   \/ \E j \in 1 .. Len(value) : RequestBuffer[i] = value[j]
  <2>1. CASE i \in 1 .. Len(value)
    <3>1. RequestBuffer[i] = value[i] /\ Issued(value[i])
      BY <2>1, RequestBufferElements DEF TypeInv, AllIssued
    <3>2. value[i].sync \in Nat
      BY <2>1, FieldTypes DEF TypeInv
    <3>. QED BY <1>1, <2>1, <3>1, <3>2 DEF Issued
  <2>2. CASE i = Len(value) + 1
    <3>1. RequestBuffer[i] = Fresh("user", 0)
      BY <2>2, RequestBufferElements DEF TypeInv
    <3>. QED BY <1>1, <3>1 DEF Fresh
  <2>. QED BY <1>1, <2>1, <2>2, RequestBufferElements DEF TypeInv
<1>. QED BY <1>2 DEF Encoded

LEMMA RequestSendStep ==
    ASSUME CallInv, TypeInv', pc = "ready", SendSucceeds(RequestBuffer),
           sync_counter' = sync_counter + 1, mySync' = sync_counter, pc' = "recv",
           UNCHANGED <<call, runs, answer>>
    PROVE  CallInv'
<1>. DEFINE buf == RequestBuffer
<1>1. TypeInv /\ AllIssued /\ buf \in Seq(Packet)
  BY BufferType DEF CallInv, TypeInv
<1>2. Encoded(buf)
  BY <1>1, RequestEncoded
<1>3. /\ Deliver(buf, Len(buf)) /\ Len(buf) \in 0 .. Len(buf) /\ value' = <<>>
      /\ UNCHANGED <<outbox, stream>>
  BY <1>1 DEF SendSucceeds
<1>4. sync_counter \in Nat /\ sync_counter' >= sync_counter
  BY DEF CallInv, TypeOK
<1>5. AllIssued'
  BY <1>1, <1>2, <1>3, <1>4, SendIssued DEF TypeInv
<1>6. Answered'
  BY <1>1, <1>2, <1>3, SendAnswered
<1>7. /\ Settled(call) /\ runs[call] = 0
      /\ \A s \in Sock : \A i \in 1 .. Len(outbox[s]) : ~ IsRequestOf(outbox[s][i], call)
  BY DEF CallInv, NotYetSent
<1>8. ASSUME NEW p, Issued(p), p.sync \in Nat
      PROVE  p.sync # mySync'
  BY <1>4, <1>8 DEF Issued
<1>9. ASSUME NEW s \in Sock, NEW p \in inbox'[s]
      PROVE  /\ p.sync = mySync' => p.kind = "user" /\ p.call = call /\ p.sync = mySync'
             /\ IsRequestOf(p, call) => p.sync = mySync' /\ s = stream
  <2>1. CASE p \in inbox[s]
    <3>1. Issued(p) /\ p.sync \in Nat
      BY <1>1, <2>1, FieldTypes DEF AllIssued, TypeInv
    <3>2. ~ IsRequestOf(p, call)
      BY <1>7, <2>1 DEF Settled
    <3>. QED BY <1>8, <3>1, <3>2
  <2>2. CASE s = stream /\ \E i \in 1 .. Len(buf) : p = buf[i]
    <3>1. PICK i \in 1 .. Len(buf) : p = buf[i]
      BY <2>2
    <3>2. CASE i \in 1 .. Len(value)
      <4>1. p = value[i]
        BY <1>1, <3>1, <3>2, RequestBufferElements DEF TypeInv
      <4>2. Issued(p) /\ p.sync \in Nat
        BY <1>1, <3>2, <4>1, FieldTypes DEF AllIssued, TypeInv
      <4>3. ~ IsRequestOf(p, call)
        BY <1>7, <3>2, <4>1 DEF Settled
      <4>. QED BY <1>8, <4>2, <4>3
    <3>3. CASE i = Len(value) + 1
      <4>1. p = Fresh("user", 0)
        BY <1>1, <3>1, <3>3, RequestBufferElements DEF TypeInv
      <4>. QED BY <1>4, <2>2, <4>1 DEF Fresh, IsRequestOf
    <3>4. Len(value) \in Nat
      BY DEF CallInv, TypeOK
    <3>. QED BY <1>1, <3>1, <3>2, <3>3, <3>4, RequestBufferElements DEF TypeInv
  <2>. QED BY <1>1, <1>3, <2>1, <2>2, Delivered
<1>10. ASSUME NEW s \in Sock, NEW i \in 1 .. Len(outbox[s])
       PROVE  outbox[s][i].sync # mySync' /\ ~ IsRequestOf(outbox[s][i], call)
  <2>1. Issued(outbox[s][i]) /\ outbox[s][i].sync \in Nat
    BY <1>1, FieldTypes DEF AllIssued, TypeInv
  <2>. QED BY <1>7, <1>8, <2>1
<1>11. Awaiting'
  <2>1. \A s \in Sock : \A p \in inbox'[s] :
          /\ p.sync = mySync' => IsOwn(p)'
          /\ IsRequestOf(p, call)' => IsOwn(p)' /\ s = stream' /\ runs'[call'] = 0
    BY <1>3, <1>7, <1>9 DEF IsOwn, IsRequestOf
  <2>2. \A s \in Sock : \A i \in 1 .. Len(outbox'[s]) :
          outbox'[s][i].sync # mySync' /\ ~ IsRequestOf(outbox'[s][i], call)
    BY <1>3, <1>10
  <2>. QED BY <1>3, <1>4, <2>1, <2>2 DEF Awaiting, IsOwn, IsRequestOf
<1>. QED BY <1>5, <1>6, <1>11 DEF CallInv, TypeInv, NotYetSent

(***************************************************************************)
(* A reply that passes the comparison carries the sync it is compared with *)
(* and not one that only has its low bits: no larger sync was handed out.  *)
(***************************************************************************)
LEMMA ModLeq ==
    ASSUME NEW n \in Nat
    PROVE  n % SyncMod \in Nat /\ n % SyncMod <= n
<1>1. SyncMod \in Nat /\ SyncMod > 0
  BY SyncModAssumption
<1>. QED BY <1>1

LEMMA AcceptedReply ==
    ASSUME CallInv, pc = "recv", HasReply(stream), SyncMatches(Head(outbox[stream]))
    PROVE  /\ Head(outbox[stream]).call = call
           /\ runs[call] = 1
           /\ Settled(call)
<1>. DEFINE r == Head(outbox[stream])
<1>1. stream \in Sock /\ outbox[stream] \in Seq(Reply) /\ outbox[stream] # <<>>
  BY DEF CallInv, Blocked, TypeOK, HasReply
<1>2. 1 \in 1 .. Len(outbox[stream]) /\ r = outbox[stream][1]
  BY <1>1
<1>3. r.sync \in Nat /\ r.sync < sync_counter /\ sync_counter = mySync + 1
  BY <1>1, <1>2, FieldTypes DEF CallInv, AllIssued, Issued, Awaiting
<1>4. mySync \in Nat /\ r.sync % SyncMod = mySync
  BY DEF CallInv, TypeOK, SyncMatches
<1>5. mySync <= r.sync
  BY <1>3, <1>4, ModLeq
<1>6. r.sync = mySync
  BY <1>3, <1>4, <1>5
<1>7. IsOwn(r) /\ runs[call] = 1
  <2>1. IsOwn(r)
    BY <1>1, <1>2, <1>6 DEF CallInv, Awaiting
  <2>. QED BY <1>1, <1>2, <2>1 DEF CallInv, Awaiting, IsOwn, IsRequestOf
<1>8. Settled(call)
  BY <1>7 DEF CallInv, Awaiting, Settled
<1>. QED BY <1>7, <1>8 DEF IsOwn

LEMMA AnswerStep ==
    ASSUME CallInv, TypeInv', pc = "recv", HasReply(stream),
           SyncMatches(Head(outbox[stream])), NoNewTraffic,
           answer' = [answer EXCEPT ![call] = Head(outbox[stream]).call],
           pc' = "idle", UNCHANGED <<call, runs, sync_counter>>
    PROVE  CallInv'
<1>1. Head(outbox[stream]).call = call /\ runs[call] = 1 /\ Settled(call)
  BY AcceptedReply
<1>2. AllIssued'
  BY IssuedStays, FieldTypes DEF CallInv, TypeInv
<1>3. Answered'
  <2>. SUFFICES ASSUME NEW c \in Calls
                PROVE  /\ answer'[c] # 0 => answer'[c] = c /\ runs'[c] = 1 /\ Settled(c)'
                       /\ c > call' => runs'[c] = 0 /\ answer'[c] = 0
                       /\ c = call' /\ pc' # "idle" => answer'[c] = 0
    BY DEF Answered, Settled, IsRequestOf
  <2>1. answer'[c] = answer[c] \/ (c = call /\ answer'[c] = call)
    BY <1>1 DEF CallInv, TypeOK
  <2>2. /\ answer[c] # 0 => answer[c] = c /\ runs[c] = 1 /\ Settled(c)
        /\ c > call => runs[c] = 0 /\ answer[c] = 0
    BY DEF CallInv, Answered
  <2>3. Settled(c) => Settled(c)'
    BY SettledStays
  <2>4. call \in Nat
    BY DEF CallInv, TypeOK
  <2>. QED BY <1>1, <2>1, <2>2, <2>3, <2>4
<1>. QED BY <1>2, <1>3 DEF CallInv, TypeInv, NotYetSent, Awaiting

(***************************************************************************)
(* The server executes a request: it leaves the inbox, so it cannot be     *)
(* executed again from there.                                              *)
(***************************************************************************)
LEMMA ExecuteStep ==
    ASSUME CallInv, TypeInv', NEW s \in Sock, Execute(s)
    PROVE  CallInv'
<1>1. PICK p \in inbox[s], code \in Codes :
        /\ inbox' = [inbox EXCEPT ![s] = @ \ {p}]
        /\ outbox' = [outbox EXCEPT ![s] =
                        IF s \in clientOpen
                        THEN Append(@, [kind |-> p.kind, sync |-> p.sync,
                                        call |-> p.call, code |-> code])
                        ELSE @]
        /\ runs' = [runs EXCEPT ![p.call] = IF p.kind = "user" THEN @ + 1 ELSE @]
  BY DEF Execute
<1>2. UNCHANGED <<call, pc, mySync, stream, value, sync_counter, answer>>
  BY DEF Execute, callVars, connVars
<1>. DEFINE r == [kind |-> p.kind, sync |-> p.sync, call |-> p.call, code |-> code]
<1>3. p \in Packet /\ p.call \in Calls /\ Issued(p)
  BY FieldTypes DEF CallInv, AllIssued
<1>4. ASSUME NEW t \in Sock, NEW i \in 1 .. Len(outbox'[t])
      PROVE  (\E j \in 1 .. Len(outbox[t]) : outbox'[t][i] = outbox[t][j]) \/ outbox'[t][i] = r
  <2>1. outbox[t] \in Seq(Reply)
    BY DEF CallInv, TypeOK
  <2>2. outbox'[t] = outbox[t] \/ outbox'[t] = Append(outbox[t], r)
    BY <1>1 DEF CallInv, TypeOK
  <2>. HIDE DEF r
  <2>. QED BY <2>1, <2>2
<1>5. \A t \in Sock : inbox'[t] \subseteq inbox[t]
  BY <1>1 DEF CallInv, TypeOK
<1>6. \A c \in Calls : runs'[c] = IF IsRequestOf(p, c) THEN runs[c] + 1 ELSE runs[c]
  BY <1>1, <1>3 DEF IsRequestOf, CallInv, TypeOK
<1>7. \A c : Settled(c) => Settled(c)'
  BY <1>2, <1>5 DEF Settled, IsRequestOf
<1>8. \A c : Settled(c) => ~ IsRequestOf(p, c)
  BY DEF Settled
<1>9. AllIssued'
  <2>1. ASSUME NEW t \in Sock, NEW i \in 1 .. Len(outbox'[t])
        PROVE  Issued(outbox'[t][i])
    <3>1. CASE outbox'[t][i] = r
      BY <3>1, <1>3 DEF Issued
    <3>2. CASE \E j \in 1 .. Len(outbox[t]) : outbox'[t][i] = outbox[t][j]
      BY <3>2 DEF CallInv, AllIssued
    <3>. QED BY <3>1, <3>2, <1>4, <2>1
  <2>. QED BY <1>2, <1>5, <2>1 DEF CallInv, AllIssued, Issued
<1>10. NotYetSent'
  <2>. SUFFICES ASSUME pc \notin {"idle", "recv"}
                PROVE  /\ Settled(call)'
                       /\ runs'[call] = 0
                       /\ \A t \in Sock : \A i \in 1 .. Len(outbox'[t]) :
                            ~ IsRequestOf(outbox'[t][i], call)
    BY <1>2 DEF NotYetSent, IsRequestOf
  <2>1. /\ Settled(call) /\ runs[call] = 0 /\ call \in Calls
        /\ \A t \in Sock : \A i \in 1 .. Len(outbox[t]) : ~ IsRequestOf(outbox[t][i], call)
    BY DEF CallInv, NotYetSent, Blocked
  <2>2. Settled(call)'
    BY <1>2, <1>5, <2>1 DEF Settled, IsRequestOf
  <2>3. ~ IsRequestOf(p, call) /\ ~ IsRequestOf(r, call)
    BY <1>8, <2>1 DEF IsRequestOf
  <2>4. runs'[call] = 0
    BY <1>6, <2>1, <2>3
  <2>. HIDE DEF r
  <2>. QED BY <1>4, <2>1, <2>2, <2>3, <2>4
<1>11. Awaiting'
  <2>. SUFFICES ASSUME pc = "recv" PROVE Awaiting'
    BY <1>2 DEF Awaiting
  <2>1. /\ value = <<>> /\ sync_counter = mySync + 1 /\ call \in Calls /\ runs[call] \in Nat
        /\ \A t \in Sock : \A q \in inbox[t] :
              /\ q.sync = mySync => IsOwn(q)
              /\ IsRequestOf(q, call) => IsOwn(q) /\ t = stream /\ runs[call] = 0
        /\ \A t \in Sock : \A i \in 1 .. Len(outbox[t]) :
              /\ outbox[t][i].sync = mySync => IsOwn(outbox[t][i])
              /\ IsRequestOf(outbox[t][i], call) => runs[call] = 1
    BY DEF CallInv, Awaiting, Blocked, TypeOK
  <2>2. ASSUME NEW t \in Sock, NEW q \in inbox'[t], IsRequestOf(q, call)
        PROVE  ~ IsRequestOf(p, call)
    <3>1. q \in inbox[t] /\ q \in Packet
      BY <1>5, FieldTypes DEF CallInv
    <3>2. IsOwn(q) /\ t = stream
      BY <2>1, <2>2, <3>1
    <3>3. IsRequestOf(p, call) => IsOwn(p) /\ s = stream
      BY <2>1
    <3>4. IsOwn(p) => p = q
      BY <1>3, <3>1, <3>2 DEF IsOwn, Packet
    <3>5. t = s => q # p
      BY <1>1 DEF CallInv, TypeOK
    <3>. QED BY <3>2, <3>3, <3>4, <3>5
  <2>3. ASSUME NEW t \in Sock, NEW q \in inbox'[t]
        PROVE  /\ q.sync = mySync => IsOwn(q)
               /\ IsRequestOf(q, call) => IsOwn(q) /\ t = stream /\ runs'[call] = 0
    BY <1>5, <1>6, <2>1, <2>2
  <2>4. IsRequestOf(p, call) => runs'[call] = 1
    BY <1>6, <2>1
  <2>5. runs[call] = 1 => runs'[call] = 1
    BY <1>6, <2>1
  <2>6. /\ r.sync = mySync => IsOwn(r)
        /\ IsRequestOf(r, call) => runs'[call] = 1
    BY <2>1, <2>4 DEF IsOwn, IsRequestOf
  <2>7. ASSUME NEW t \in Sock, NEW i \in 1 .. Len(outbox'[t])
        PROVE  /\ outbox'[t][i].sync = mySync => IsOwn(outbox'[t][i])
               /\ IsRequestOf(outbox'[t][i], call) => runs'[call] = 1
    <3>. HIDE DEF r
    <3>. QED BY <1>4, <2>1, <2>5, <2>6
  <2>. QED BY <1>2, <2>1, <2>3, <2>7 DEF Awaiting, IsOwn, IsRequestOf
<1>12. Answered'
  <2>. SUFFICES ASSUME NEW c \in Calls
                PROVE  /\ answer[c] # 0 => answer[c] = c /\ runs'[c] = 1 /\ Settled(c)'
                       /\ c > call => runs'[c] = 0 /\ answer[c] = 0
                       /\ c = call /\ pc # "idle" => answer[c] = 0
    BY <1>2 DEF Answered, Settled, IsRequestOf
  <2>1. /\ answer[c] # 0 => answer[c] = c /\ runs[c] = 1 /\ Settled(c)
        /\ c > call => runs[c] = 0 /\ answer[c] = 0
        /\ c = call /\ pc # "idle" => answer[c] = 0
    BY DEF CallInv, Answered
  <2>2. c > call => ~ IsRequestOf(p, c)
    BY <1>3 DEF Issued, IsRequestOf, CallInv, TypeOK
  <2>. QED BY <1>6, <1>7, <1>8, <2>1, <2>2
<1>. QED BY <1>9, <1>10, <1>11, <1>12 DEF CallInv, TypeInv

-----------------------------------------------------------------------------
(***************************************************************************)
(* Which actions put nothing new into the buffer or onto a stream.         *)
(***************************************************************************)
LEMMA TrafficSame ==
    ASSUME UNCHANGED <<value, inbox, outbox>>
    PROVE  NoNewTraffic
BY DEF NoNewTraffic

LEMMA TrafficConsume ==
    ASSUME TypeOK, HasReply(stream), stream \in Sock, ConsumeReply, UNCHANGED <<value, inbox>>
    PROVE  NoNewTraffic
<1>1. outbox[stream] \in Seq(Reply) /\ outbox[stream] # <<>>
  BY DEF TypeOK, HasReply
<1>2. \A i \in 1 .. Len(Tail(outbox[stream])) :
        /\ i + 1 \in 1 .. Len(outbox[stream])
        /\ Tail(outbox[stream])[i] = outbox[stream][i + 1]
  BY <1>1
<1>3. \A s \in Sock : outbox'[s] = IF s = stream THEN Tail(outbox[s]) ELSE outbox[s]
  BY DEF ConsumeReply
<1>. QED BY <1>2, <1>3 DEF NoNewTraffic

LEMMA TrafficClose ==
    ASSUME CloseStream, UNCHANGED <<value, inbox>>
    PROVE  NoNewTraffic
<1>1. \A s \in Sock : outbox'[s] = IF s = stream THEN <<>> ELSE outbox[s]
  BY DEF CloseStream
<1>. QED BY <1>1 DEF NoNewTraffic

LEMMA TrafficDrop ==
    ASSUME TypeOK, NEW s \in Sock, Drop(s)
    PROVE  NoNewTraffic
<1>1. PICK n \in 0 .. Len(outbox[s]) : outbox' = [outbox EXCEPT ![s] = SubSeq(@, 1, n)]
  BY DEF Drop
<1>2. /\ \A t \in Sock : inbox'[t] \subseteq inbox[t]
      /\ value' = value
  BY DEF Drop, TypeOK, connVars
<1>3. outbox[s] \in Seq(Reply) /\ outbox'[s] = SubSeq(outbox[s], 1, n)
  BY <1>1 DEF TypeOK
<1>4. \A i \in 1 .. Len(outbox'[s]) : i \in 1 .. Len(outbox[s]) /\ outbox'[s][i] = outbox[s][i]
  BY <1>3
<1>5. \A t \in Sock : t # s => outbox'[t] = outbox[t]
  BY <1>1 DEF TypeOK
<1>. QED BY <1>2, <1>4, <1>5 DEF NoNewTraffic

(***************************************************************************)
(* How a call goes on leaves the answers alone, or clears its own.         *)
(***************************************************************************)
LEMMA ReturnKeeps ==
    ASSUME NEW how, Return(how)
    PROVE  /\ pc' = "idle" /\ call' = call /\ runs' = runs
           /\ answer' = [answer EXCEPT ![call] = 0]
BY DEF Return, ReturnFrom

LEMMA GoOnKeeps ==
    ASSUME \/ Proceed
           \/ \E n : NextAttempt(n)
           \/ pc = "auth" /\ \E status : NextResponse(status),
           resume # "return" => resume \in {"demand", "ready"}
    PROVE  /\ pc' # "recv" /\ call' = call /\ runs' = runs
           /\ answer' = answer \/ answer' = [answer EXCEPT ![call] = 0]
<1>1. ASSUME Proceed
      PROVE  /\ pc' # "recv" /\ call' = call /\ runs' = runs
             /\ answer' = answer \/ answer' = [answer EXCEPT ![call] = 0]
  BY <1>1, ReturnKeeps DEF Proceed, seenVars
<1>2. ASSUME NEW n, NextAttempt(n)
      PROVE  /\ pc' # "recv" /\ call' = call /\ runs' = runs
             /\ answer' = answer \/ answer' = [answer EXCEPT ![call] = 0]
  BY <1>2, ReturnKeeps DEF NextAttempt, seenVars
<1>3. ASSUME pc = "auth", NEW status, NextResponse(status)
      PROVE  /\ pc' # "recv" /\ call' = call /\ runs' = runs
             /\ answer' = answer \/ answer' = [answer EXCEPT ![call] = 0]
  BY <1>1, <1>3, ReturnKeeps DEF NextResponse, seenVars
<1>. QED BY <1>1, <1>2, <1>3

-----------------------------------------------------------------------------
(***************************************************************************)
(* CallInv, one lemma per group of actions.                                *)
(***************************************************************************)
LEMMA InitInv == Init => CallInv
<1>. SUFFICES ASSUME Init PROVE CallInv
  OBVIOUS
<1>1. TypeInv
  BY InitTyped
<1>2. AllIssued /\ NotYetSent /\ Awaiting
  BY DEF Init, AllIssued, NotYetSent, Awaiting
<1>3. Answered
  BY DEF Init, Answered
<1>. QED BY <1>1, <1>2, <1>3 DEF CallInv, TypeInv

LEMMA ConnectInv == CallInv /\ TypeInv' /\ Connect => CallInv'
<1>. SUFFICES ASSUME CallInv, TypeInv', Connect PROVE CallInv'
  OBVIOUS
<1>1. resume # "return" => resume \in {"demand", "ready"}
  BY DEF CallInv, TypeOK
<1>2. NoNewTraffic /\ UNCHANGED sync_counter
  BY TrafficSame
     DEF Connect, OpenSucceeds, OpenFails, GreetingRead, GreetingShort, GreetingBad,
         connVars, netVars
<1>3. pc \in {"open", "greet"}
  BY DEF Connect, OpenSucceeds, OpenFails, GreetingRead, GreetingShort, GreetingBad
<1>4. /\ pc' # "recv" /\ call' = call /\ runs' = runs
      /\ answer' = answer \/ answer' = [answer EXCEPT ![call] = 0]
  <2>1. CASE OpenSucceeds
    BY <2>1 DEF OpenSucceeds, seenVars
  <2>2. CASE OpenFails
    BY <1>1, <2>2, GoOnKeeps DEF OpenFails
  <2>3. CASE GreetingRead
    BY <1>1, <2>3, GoOnKeeps DEF GreetingRead, seenVars
  <2>4. CASE GreetingShort
    BY <1>1, <2>4, GoOnKeeps DEF GreetingShort
  <2>5. CASE GreetingBad
    BY <2>5, ReturnKeeps DEF GreetingBad
  <2>. QED BY <2>1, <2>2, <2>3, <2>4, <2>5 DEF Connect
<1>. QED BY <1>2, <1>3, <1>4, LocalStep

LEMMA ShortReadInv ==
    ASSUME CallInv, TypeInv', FailRead, UNCHANGED <<value, inbox, sync_counter>>, pc # "idle"
    PROVE  CallInv'
<1>1. NoNewTraffic
  BY TrafficClose DEF FailRead
<1>2. Return("io")
  BY DEF FailRead
<1>. QED BY <1>1, <1>2, ReturnKeeps, LocalStep

LEMMA AuthBatchEncoded ==
    ASSUME TypeInv, sync_counter' = sync_counter + BatchSize
    PROVE  Encoded(AuthBatch) /\ \A i \in 1 .. Len(AuthBatch) : AuthBatch[i].kind # "user"
<1>1. call \in Nat /\ sync_counter \in Nat
  BY DEF TypeInv, TypeOK
<1>2. \A i \in 1 .. Len(AuthBatch) :
        \E k \in {"auth", "spaces", "indexes"}, n \in 0 .. 2 : AuthBatch[i] = Fresh(k, n)
  BY DEF AuthBatch
<1>3. ASSUME NEW i \in 1 .. Len(AuthBatch)
      PROVE  /\ AuthBatch[i].sync < sync_counter'
             /\ AuthBatch[i].call <= call
             /\ AuthBatch[i].kind # "user"
  <2>1. PICK k \in {"auth", "spaces", "indexes"}, n \in 0 .. 2 : AuthBatch[i] = Fresh(k, n)
    BY <1>2
  <2>2. /\ AuthBatch[i].sync = sync_counter + n /\ AuthBatch[i].call = call
        /\ AuthBatch[i].kind = k
    BY <2>1 DEF Fresh
  <2>3. sync_counter + n < sync_counter + 3
    BY <1>1
  <2>. QED BY <1>1, <2>2, <2>3 DEF BatchSize
<1>. QED BY <1>3 DEF Encoded

LEMMA AuthenticateInv == CallInv /\ TypeInv' /\ Authenticate => CallInv'
<1>. SUFFICES ASSUME CallInv, TypeInv', Authenticate PROVE CallInv'
  OBVIOUS
<1>1. resume # "return" => resume \in {"demand", "ready"}
  BY DEF CallInv, TypeOK
<1>2. TypeInv
  BY DEF CallInv, TypeInv
<1>3. CASE AuthSend
  <2>1. /\ pc \notin {"idle", "recv"}
        /\ sync_counter' = sync_counter + BatchSize
    BY <1>3 DEF AuthSend
  <2>2. sync_counter' >= sync_counter
    BY <1>2, <2>1 DEF TypeInv, TypeOK, BatchSize
  <2>3. /\ AuthBatch \in Seq(Packet) /\ Encoded(AuthBatch)
        /\ \A i \in 1 .. Len(AuthBatch) : AuthBatch[i].kind # "user"
    BY <1>2, <2>1, BufferType, AuthBatchEncoded
  <2>4. CASE SendSucceeds(AuthBatch) /\ pc' = "auth" /\ UNCHANGED <<call, kind, resume, seenVars>>
    BY <2>1, <2>2, <2>3, <2>4, SystemSendStep DEF seenVars
  <2>5. CASE SendFails(AuthBatch)
    BY <2>1, <2>2, <2>3, <2>5, SendFailsStep
  <2>. QED BY <1>3, <2>4, <2>5 DEF AuthSend
<1>4. CASE AuthReply
  <2>1. NoNewTraffic /\ UNCHANGED sync_counter
    BY <1>2, <1>4, TrafficConsume DEF AuthReply, TypeInv, Blocked
  <2>2. pc = "auth" /\ \E status : NextResponse(status)
    BY <1>4 DEF AuthReply
  <2>. QED BY <1>1, <2>1, <2>2, GoOnKeeps, LocalStep
<1>5. CASE AuthJunk
  <2>1. NoNewTraffic /\ UNCHANGED sync_counter
    BY <1>5, TrafficSame DEF AuthJunk, connVars
  <2>2. pc = "auth" /\ \E status : NextResponse(status)
    BY <1>5 DEF AuthJunk
  <2>. QED BY <1>1, <2>1, <2>2, GoOnKeeps, LocalStep
<1>6. CASE AuthShort
  BY <1>6, ShortReadInv DEF AuthShort
<1>. QED BY <1>3, <1>4, <1>5, <1>6 DEF Authenticate

LEMMA DemandInv == CallInv /\ TypeInv' /\ Demand => CallInv'
<1>. SUFFICES ASSUME CallInv, TypeInv', Demand PROVE CallInv'
  OBVIOUS
<1>1. NoNewTraffic
  BY TrafficSame, TrafficClose
     DEF Demand, DemandConnect, DemandReconnect, DemandMet, connVars, netVars
<1>2. /\ pc = "demand" /\ pc' \in {"open", "ready"}
      /\ UNCHANGED <<call, sync_counter, answer, runs>>
  BY DEF Demand, DemandConnect, DemandReconnect, DemandMet, EnterConnect, connVars, seenVars
<1>. QED BY <1>1, <1>2, LocalStep

LEMMA LookupInv == CallInv /\ TypeInv' /\ Lookup => CallInv'
<1>. SUFFICES ASSUME CallInv, TypeInv', Lookup PROVE CallInv'
  OBVIOUS
<1>1. TypeInv
  BY DEF CallInv, TypeInv
<1>2. CASE LookupSend
  <2>1. pc = "ready" /\ sync_counter' = sync_counter + 1
    BY <1>2 DEF LookupSend
  <2>2. call \in Nat /\ sync_counter \in Nat
    BY <1>1 DEF TypeInv, TypeOK
  <2>3. /\ LookupBuffer \in Seq(Packet)
        /\ Encoded(LookupBuffer) /\ \A i \in 1 .. Len(LookupBuffer) : LookupBuffer[i].kind # "user"
    BY <1>1, <2>1, <2>2, BufferType DEF LookupBuffer, Encoded, Fresh, Wanted
  <2>4. CASE SendSucceeds(LookupBuffer) /\ pc' = "lookup" /\ UNCHANGED <<call, kind, left, resume, batch, seenVars>>
    BY <2>1, <2>2, <2>3, <2>4, SystemSendStep DEF seenVars
  <2>5. CASE SendFails(LookupBuffer)
    BY <2>1, <2>2, <2>3, <2>5, SendFailsStep
  <2>. QED BY <1>2, <2>4, <2>5 DEF LookupSend
<1>3. CASE LookupReply
  <2>1. NoNewTraffic /\ UNCHANGED sync_counter
    BY <1>1, <1>3, TrafficConsume DEF LookupReply, TypeInv, Blocked
  <2>2. /\ pc = "lookup" /\ pc' \in {"ready", "idle"} /\ call' = call /\ runs' = runs
        /\ answer' = answer \/ answer' = [answer EXCEPT ![call] = 0]
    BY <1>3, ReturnKeeps DEF LookupReply, seenVars
  <2>. QED BY <2>1, <2>2, LocalStep
<1>4. CASE LookupJunk
  <2>1. NoNewTraffic /\ UNCHANGED sync_counter /\ pc = "lookup" /\ Return("parse")
    BY <1>4, TrafficSame DEF LookupJunk, connVars
  <2>. QED BY <2>1, ReturnKeeps, LocalStep
<1>5. CASE LookupShort
  BY <1>5, ShortReadInv DEF LookupShort
<1>. QED BY <1>2, <1>3, <1>4, <1>5 DEF Lookup

LEMMA RequestInv == CallInv /\ TypeInv' /\ Request => CallInv'
<1>. SUFFICES ASSUME CallInv, TypeInv', Request PROVE CallInv'
  OBVIOUS
<1>1. TypeInv
  BY DEF CallInv, TypeInv
<1>2. CASE RequestSend
  <2>1. pc = "ready" /\ sync_counter' = sync_counter + 1
    BY <1>2 DEF RequestSend
  <2>2. sync_counter' >= sync_counter
    BY <1>1, <2>1 DEF TypeInv, TypeOK
  <2>3. CASE SendSucceeds(RequestBuffer) /\ pc' = "recv" /\ mySync' = sync_counter
             /\ UNCHANGED <<call, kind, left, resume, batch, seenVars>>
    BY <2>1, <2>3, RequestSendStep DEF seenVars
  <2>4. CASE SendFails(RequestBuffer)
    <3>1. RequestBuffer \in Seq(Packet) /\ Encoded(RequestBuffer)
      BY <1>1, <2>1, BufferType, RequestEncoded DEF CallInv
    <3>. QED BY <2>1, <2>2, <2>4, <3>1, SendFailsStep
  <2>. QED BY <1>2, <2>3, <2>4 DEF RequestSend
<1>3. CASE RecvReply
  <2>1. pc = "recv" /\ stream \in Sock /\ HasReply(stream) /\ UNCHANGED <<value, inbox, sync_counter>>
    BY <1>1, <1>3 DEF RecvReply, TypeInv, Blocked
  <2>2. ConsumeReply => NoNewTraffic
    BY <1>1, <2>1, TrafficConsume DEF TypeInv
  <2>3. CASE /\ SyncMatches(Head(outbox[stream]))
             /\ ReturnFrom(call, "ok", Head(outbox[stream]).call)
             /\ ConsumeReply /\ UNCHANGED call
    BY <2>1, <2>2, <2>3, AnswerStep DEF ReturnFrom
  <2>4. CASE Return("client") /\ ConsumeReply
    BY <2>1, <2>2, <2>4, ReturnKeeps, LocalStep
  <2>5. CASE Return("sync") /\ CloseStream
    BY <2>1, <2>5, TrafficClose, ReturnKeeps, LocalStep
  <2>. QED BY <1>3, <2>3, <2>4, <2>5 DEF RecvReply
<1>4. CASE RecvJunk
  <2>1. NoNewTraffic /\ pc = "recv" /\ UNCHANGED sync_counter
    BY <1>4, TrafficClose DEF RecvJunk
  <2>2. pc' = "idle" /\ call' = call /\ runs' = runs /\ answer' = [answer EXCEPT ![call] = 0]
    BY <1>4, ReturnKeeps DEF RecvJunk
  <2>. QED BY <2>1, <2>2, LocalStep
<1>5. CASE RecvShort
  BY <1>5, ShortReadInv DEF RecvShort
<1>. QED BY <1>2, <1>3, <1>4, <1>5 DEF Request

LEMMA ScriptInv == CallInv /\ TypeInv' /\ Script => CallInv'
<1>. SUFFICES ASSUME CallInv, TypeInv', Script PROVE CallInv'
  OBVIOUS
<1>1. pc = "idle" /\ call' = call + 1 /\ call + 1 \in Calls
  BY BoundsAssumption
     DEF Script, StartRequest, StartAuthenticate, StartConnect, StartReconnect, FlushSchema,
         Close, Start, CallInv, TypeOK
<1>2. NoNewTraffic
  BY TrafficSame, TrafficClose
     DEF Script, StartRequest, StartAuthenticate, StartConnect, StartReconnect, FlushSchema,
         Close, connVars, netVars
<1>3. /\ UNCHANGED <<runs, sync_counter>> /\ pc' # "recv"
      /\ answer' = answer \/ answer' = [answer EXCEPT ![call + 1] = 0]
  BY DEF Script, StartRequest, StartAuthenticate, StartConnect, StartReconnect, FlushSchema,
         Close, EnterConnect, ReturnFrom, connVars, seenVars
<1>. QED BY <1>1, <1>2, <1>3, StartStep

LEMMA ServerInv == CallInv /\ TypeInv' /\ Server => CallInv'
<1>. SUFFICES ASSUME CallInv, TypeInv', NEW s \in Sock, Greet(s) \/ Execute(s) \/ Drop(s)
              PROVE  CallInv'
  BY DEF Server
<1>1. CASE Greet(s)
  BY <1>1, TrafficSame, QuietStep DEF Greet, callVars, connVars, seenVars
<1>2. CASE Execute(s)
  BY <1>2, ExecuteStep
<1>3. CASE Drop(s)
  <2>1. NoNewTraffic
    BY <1>3, TrafficDrop DEF CallInv
  <2>. QED BY <1>3, <2>1, QuietStep DEF Drop, callVars, connVars, seenVars
<1>. QED BY <1>1, <1>2, <1>3

LEMMA NextInv == CallInv /\ [Next]_vars => CallInv'
<1>. SUFFICES ASSUME CallInv, [Next]_vars PROVE CallInv'
  OBVIOUS
<1>1. TypeInv'
  BY NextTyped DEF CallInv, TypeInv
<1>2. CASE UNCHANGED vars
  <2>1. UNCHANGED <<value, inbox, outbox>>
    BY <1>2 DEF vars, connVars, netVars
  <2>. QED BY <1>1, <1>2, <2>1, TrafficSame, QuietStep DEF vars, callVars, connVars, seenVars
<1>. QED BY <1>1, <1>2, ConnectInv, AuthenticateInv, DemandInv, LookupInv, RequestInv,
            ScriptInv, ServerInv
         DEF Next, Extension, Finished

(***************************************************************************)
(* The inductive invariant: every sync on the wire was handed out, a       *)
(* request in flight is the blocked call's own and is executed at most     *)
(* once, and a call that got its answer has no request left anywhere.      *)
(***************************************************************************)
THEOREM CallInvariant == Spec => []CallInv
BY InitInv, NextInv, PTL DEF Spec

(***************************************************************************)
(* A method returns the server's answer to its own request, whatever else  *)
(* is on the stream and also after the 32-bit sync of the packets wrapped. *)
(***************************************************************************)
THEOREM ReplyOwn == Spec => []ReplyIsOwn
<1>1. CallInv => ReplyIsOwn
  BY DEF CallInv, TypeOK, Answered, ReplyIsOwn
<1>. QED BY <1>1, CallInvariant, PTL

(***************************************************************************)
(* The request of a call that returned data was executed once, although    *)
(* what a failed write left in obj->value may go out with a later request. *)
(***************************************************************************)
THEOREM AnswerOneRun == Spec => []AnswerMeansOneRun
<1>1. CallInv => AnswerMeansOneRun
  BY DEF CallInv, Answered, AnswerMeansOneRun
<1>. QED BY <1>1, CallInvariant, PTL

-----------------------------------------------------------------------------
(***************************************************************************)
(* A call is bounded: the locals of the loops at every place, and that     *)
(* every step of the extension lowers StepsLeft.                           *)
(***************************************************************************)
Loops ==
    /\ pc \notin {"open", "greet", "authSend", "auth"} => resume = "return"
    /\ pc = "open" => left \in 1 .. RetryCount
    /\ pc = "greet" => left \in 0 .. RetryCount - 1
    /\ pc = "auth" => left \in 1 .. BatchSize
    /\ pc = "lookup" => Missing # {}

LoopInv == TypeInv /\ Loops

LEMMA MissingCount ==
    /\ IsFiniteSet(Missing) /\ Cardinality(Missing) \in 0 .. Cardinality(Names)
    /\ Cardinality(Names) = 2
    /\ Missing = {} => Cardinality(Missing) = 0
<1>1. IsFiniteSet({"space"}) /\ Cardinality({"space"}) = 1
  BY FS_Singleton
<1>2. Names = {"space"} \union {"index"}
  BY DEF Names
<1>3. IsFiniteSet(Names) /\ Cardinality(Names) = 2
  BY <1>1, <1>2, FS_AddElement
<1>4. Missing \subseteq Names
  BY DEF Missing, NamesOf, Names
<1>5. IsFiniteSet(Missing) /\ Cardinality(Missing) <= 2
  BY <1>3, <1>4, FS_Subset
<1>6. Cardinality(Missing) \in Nat
  BY <1>5, FS_CardinalityType
<1>. QED BY <1>3, <1>5, <1>6, FS_EmptySet

LEMMA WantedIsMissing == Missing # {} => Wanted \in Missing
BY DEF Wanted, Missing, NamesOf, Names

(***************************************************************************)
(* The numbers behind the definitions.                                     *)
(***************************************************************************)
LEMMA StepNumbers ==
    /\ RetryCount \in Nat /\ RetryCount >= 1
    /\ BatchSize = 3
    /\ ReadySteps = 6
    /\ DemandSteps = 2 * RetryCount + 11
    /\ MaxSteps = 4 * RetryCount + 16
    /\ \A n \in Int : ConnectSteps(n) = 2 * n + 4
BY MissingCount, RetryCountAssumption
   DEF BatchSize, ReadySteps, DemandSteps, MaxSteps, ConnectSteps

LEMMA ResumeNumbers ==
    ASSUME TypeOK
    PROVE  /\ ResumeSteps \in 0 .. DemandSteps
           /\ resume = "return" => ResumeSteps = 0
           /\ resume = "ready" => ResumeSteps = 6
           /\ resume = "demand" => ResumeSteps = DemandSteps
<1>1. resume \in {"return", "demand", "ready"}
  BY DEF TypeOK
<1>2. /\ resume = "return" => ResumeSteps = 0
      /\ resume = "ready" => ResumeSteps = ReadySteps
      /\ resume = "demand" => ResumeSteps = DemandSteps
  BY DEF ResumeSteps
<1>. QED BY <1>1, <1>2, StepNumbers

(***************************************************************************)
(* StepsLeft at each place.                                                *)
(***************************************************************************)
LEMMA StepsAt ==
    /\ pc = "idle" => StepsLeft = 0
    /\ pc = "demand" => StepsLeft = IF stream = 0 THEN MaxSteps ELSE DemandSteps
    /\ pc = "open" => StepsLeft = ConnectSteps(left) + ResumeSteps
    /\ pc = "greet" => StepsLeft = ConnectSteps(left) + 1 + ResumeSteps
    /\ pc = "authSend" => StepsLeft = BatchSize + 1 + ResumeSteps
    /\ pc = "auth" => StepsLeft = left + ResumeSteps
    /\ pc = "ready" => StepsLeft = IF kind = "authenticate"
                                   THEN BatchSize + 2
                                   ELSE 2 * Cardinality(Missing) + 2
    /\ pc = "lookup" => StepsLeft = 2 * Cardinality(Missing) + 1
    /\ pc = "recv" => StepsLeft = 1
BY DEF StepsLeft

LEMMA StepsAtNext ==
    /\ pc' = "idle" => StepsLeft' = 0
    /\ pc' = "demand" => StepsLeft' = IF stream' = 0 THEN MaxSteps ELSE DemandSteps
    /\ pc' = "open" => StepsLeft' = ConnectSteps(left') + ResumeSteps'
    /\ pc' = "greet" => StepsLeft' = ConnectSteps(left') + 1 + ResumeSteps'
    /\ pc' = "authSend" => StepsLeft' = BatchSize + 1 + ResumeSteps'
    /\ pc' = "auth" => StepsLeft' = left' + ResumeSteps'
    /\ pc' = "ready" => StepsLeft' = IF kind' = "authenticate"
                                    THEN BatchSize + 2
                                    ELSE 2 * Cardinality(Missing') + 2
    /\ pc' = "lookup" => StepsLeft' = 2 * Cardinality(Missing') + 1
    /\ pc' = "recv" => StepsLeft' = 1
BY DEF StepsLeft, ConnectSteps, DemandSteps, MaxSteps, BatchSize, ReadySteps

LEMMA StepsInRange == LoopInv => StepsLeft \in 0 .. MaxSteps
<1>. SUFFICES ASSUME LoopInv PROVE StepsLeft \in 0 .. MaxSteps
  OBVIOUS
<1>1. TypeOK /\ left \in Nat /\ pc \in Places
  BY DEF LoopInv, TypeInv, TypeOK
<1>2. ResumeSteps \in 0 .. 2 * RetryCount + 11
  BY <1>1, ResumeNumbers, StepNumbers
<1>3. pc = "open" => left <= RetryCount
  BY StepNumbers DEF LoopInv, Loops
<1>4. pc = "greet" => left <= RetryCount - 1
  BY StepNumbers DEF LoopInv, Loops
<1>5. pc = "auth" => left <= 3
  BY StepNumbers DEF LoopInv, Loops
<1>. QED BY <1>1, <1>2, <1>3, <1>4, <1>5, StepsAt, StepNumbers, MissingCount DEF Places

LEMMA ReadyBound == pc = "ready" => StepsLeft \in 2 .. ReadySteps
BY StepsAt, StepNumbers, MissingCount

(***************************************************************************)
(* Where a step of the extension leads, and what it makes of StepsLeft.    *)
(***************************************************************************)
LEMMA ReturnLowers ==
    ASSUME LoopInv, pc # "idle", pc' = "idle", resume' = "return"
    PROVE  Loops' /\ StepsLeft' < StepsLeft
<1>1. StepsLeft' = 0
  BY StepsAtNext
<1>2. StepsLeft >= 1
  <2>1. TypeOK /\ left \in Nat /\ pc \in Places
    BY DEF LoopInv, TypeInv, TypeOK
  <2>2. ResumeSteps \in Nat
    BY <2>1, ResumeNumbers, StepNumbers
  <2>3. pc = "auth" => left >= 1
    BY StepNumbers DEF LoopInv, Loops
  <2>. QED BY <2>1, <2>2, <2>3, StepsAt, StepNumbers, MissingCount DEF Places
<1>3. StepsLeft \in Int
  BY StepsInRange, StepNumbers
<1>. QED BY <1>1, <1>2, <1>3 DEF Loops

LEMMA StepsInRangeNext == (LoopInv => StepsLeft \in 0 .. MaxSteps)'
BY StepsInRange, PTL

LEMMA ReadyBoundNext == (pc = "ready" => StepsLeft \in 2 .. ReadySteps)'
BY ReadyBound, PTL

(***************************************************************************)
(* A connect loop or a batch with more than n + ResumeSteps steps left     *)
(* comes to its end.                                                       *)
(***************************************************************************)
LEMMA ProceedLowers ==
    ASSUME LoopInv, pc # "idle", Proceed, stream' # 0, StepsLeft > ResumeSteps
    PROVE  Loops' /\ StepsLeft' < StepsLeft
<1>1. CASE resume = "return"
  BY <1>1, ReturnLowers DEF Proceed, Return, ReturnFrom
<1>2. CASE resume # "return"
  <2>1. TypeOK /\ resume \in {"demand", "ready"} /\ pc' = resume /\ resume' = "return"
    BY <1>2 DEF Proceed, LoopInv, TypeInv, TypeOK
  <2>2. StepsLeft' <= ResumeSteps
    BY <2>1, ResumeNumbers, StepsAtNext, ReadyBoundNext, StepNumbers
  <2>3. StepsLeft' \in Int /\ ResumeSteps \in Int /\ StepsLeft \in Int
    BY <2>1, ResumeNumbers, StepsAtNext, ReadyBoundNext, StepsInRange, StepNumbers
  <2>. QED BY <2>1, <2>2, <2>3 DEF Loops
<1>. QED BY <1>1, <1>2

LEMMA NextAttemptLowers ==
    ASSUME LoopInv, pc # "idle", NEW n \in 0 .. RetryCount, NextAttempt(n),
           StepsLeft > ConnectSteps(n) + ResumeSteps
    PROVE  Loops' /\ StepsLeft' < StepsLeft
<1>1. CASE n = 0
  BY <1>1, ReturnLowers DEF NextAttempt, Return, ReturnFrom
<1>2. CASE n # 0
  <2>1. pc' = "open" /\ left' = n /\ resume' = resume
    BY <1>2 DEF NextAttempt
  <2>2. ResumeSteps' = ResumeSteps
    BY <2>1 DEF ResumeSteps, ReadySteps, DemandSteps, ConnectSteps, BatchSize
  <2>3. StepsLeft' = ConnectSteps(n) + ResumeSteps
    BY <2>1, <2>2, StepsAtNext
  <2>. QED BY <1>2, <2>1, <2>3, StepNumbers DEF Loops
<1>. QED BY <1>1, <1>2

LEMMA ConnectLowers == LoopInv /\ Connect => Loops' /\ StepsLeft' < StepsLeft
<1>. SUFFICES ASSUME LoopInv, Connect PROVE Loops' /\ StepsLeft' < StepsLeft
  OBVIOUS
<1>9. TypeOK
  BY DEF LoopInv, TypeInv
<1>1. left \in Nat /\ ResumeSteps \in Nat
  <2>1. left \in Nat
    BY <1>9 DEF TypeOK
  <2>. QED BY <1>9, <2>1, ResumeNumbers, StepNumbers
<1>2. pc = "greet" => stream \in Sock /\ left \in 0 .. RetryCount - 1
  BY DEF LoopInv, TypeInv, Blocked, Loops
<1>3. pc = "open" => left \in 1 .. RetryCount
  BY DEF LoopInv, Loops
<1>4. CASE OpenSucceeds
  <2>1. pc = "open" /\ pc' = "greet" /\ left' = left - 1 /\ resume' = resume
    BY <1>4 DEF OpenSucceeds
  <2>2. ResumeSteps' = ResumeSteps
    BY <2>1 DEF ResumeSteps, ReadySteps, DemandSteps, ConnectSteps, BatchSize
  <2>3. /\ StepsLeft' = ConnectSteps(left - 1) + 1 + ResumeSteps
        /\ StepsLeft = ConnectSteps(left) + ResumeSteps
    BY <2>1, <2>2, StepsAt, StepsAtNext
  <2>. QED BY <1>1, <1>3, <2>1, <2>3, StepNumbers DEF Loops
<1>5. CASE OpenFails
  <2>1. pc = "open" /\ NextAttempt(left - 1) /\ StepsLeft = ConnectSteps(left) + ResumeSteps
    BY <1>5, StepsAt DEF OpenFails
  <2>2. left - 1 \in 0 .. RetryCount /\ StepsLeft > ConnectSteps(left - 1) + ResumeSteps
    BY <1>1, <1>3, <2>1, StepNumbers
  <2>. QED BY <2>1, <2>2, NextAttemptLowers
<1>6. CASE GreetingRead
  <2>2. pc = "greet" /\ stream' # 0
    BY <1>2, <1>6 DEF GreetingRead, connVars
  <2>3. StepsLeft = ConnectSteps(left) + 1 + ResumeSteps
    BY <2>2, StepsAt
  <2>4. StepsLeft > BatchSize + 1 + ResumeSteps
    BY <1>1, <2>3, StepNumbers
  <2>5. CASE Proceed
    <3>1. StepsLeft > ResumeSteps
      BY <1>1, <2>3, StepNumbers
    <3>. QED BY <2>2, <2>5, <3>1, ProceedLowers
  <2>6. CASE pc' = "authSend" /\ resume' = resume
    <3>1. ResumeSteps' = ResumeSteps
      BY <2>6 DEF ResumeSteps, ReadySteps, DemandSteps, ConnectSteps, BatchSize
    <3>2. StepsLeft' = BatchSize + 1 + ResumeSteps
      BY <2>6, <3>1, StepsAtNext
    <3>. QED BY <1>1, <2>4, <2>6, <3>2 DEF Loops
  <2>. QED BY <1>6, <2>5, <2>6 DEF GreetingRead
<1>7. CASE GreetingShort
  <2>1. pc = "greet" /\ NextAttempt(left)
        /\ StepsLeft = ConnectSteps(left) + 1 + ResumeSteps
    BY <1>7, StepsAt DEF GreetingShort
  <2>2. left \in 0 .. RetryCount /\ StepsLeft > ConnectSteps(left) + ResumeSteps
    BY <1>1, <1>2, <2>1, StepNumbers
  <2>. QED BY <2>1, <2>2, NextAttemptLowers
<1>8. CASE GreetingBad
  BY <1>8, ReturnLowers DEF GreetingBad, Return, ReturnFrom
<1>. QED BY <1>4, <1>5, <1>6, <1>7, <1>8 DEF Connect

(***************************************************************************)
(* A read or a write that fails ends the call.                             *)
(***************************************************************************)
LEMMA FailureLowers ==
    ASSUME LoopInv, pc # "idle", NEW buf, FailRead \/ SendFails(buf)
    PROVE  Loops' /\ StepsLeft' < StepsLeft
BY ReturnLowers DEF FailRead, SendFails, Return, ReturnFrom

LEMMA ResponseLowers ==
    ASSUME LoopInv, pc = "auth", stream' # 0, NEW status, NextResponse(status)
    PROVE  Loops' /\ StepsLeft' < StepsLeft
<1>1. TypeOK /\ left \in 1 .. 3 /\ ResumeSteps \in Nat /\ StepsLeft = left + ResumeSteps
  BY ResumeNumbers, StepNumbers, StepsAt DEF LoopInv, TypeInv, Loops
<1>2. CASE left > 1
  <2>1. pc' = "auth" /\ left' = left - 1 /\ resume' = resume
    BY <1>2 DEF NextResponse
  <2>2. ResumeSteps' = ResumeSteps
    BY <2>1 DEF ResumeSteps, ReadySteps, DemandSteps, ConnectSteps, BatchSize
  <2>3. StepsLeft' = left - 1 + ResumeSteps
    BY <2>1, <2>2, StepsAtNext
  <2>. QED BY <1>1, <1>2, <2>1, <2>3, StepNumbers DEF Loops
<1>3. CASE ~ (left > 1)
  <2>1. CASE Proceed
    BY <1>1, <2>1, ProceedLowers
  <2>2. CASE Return(status)
    BY <2>2, ReturnLowers DEF Return, ReturnFrom
  <2>. QED BY <1>3, <2>1, <2>2 DEF NextResponse
<1>. QED BY <1>2, <1>3

LEMMA AuthenticateLowers == LoopInv /\ Authenticate => Loops' /\ StepsLeft' < StepsLeft
<1>. SUFFICES ASSUME LoopInv, Authenticate PROVE Loops' /\ StepsLeft' < StepsLeft
  OBVIOUS
<1>1. TypeOK /\ ResumeSteps \in Nat
  BY ResumeNumbers, StepNumbers DEF LoopInv, TypeInv
<1>2. pc = "auth" => stream # 0
  BY DEF LoopInv, TypeInv, Blocked
<1>3. CASE AuthSend
  <2>1. pc \in {"authSend", "ready"} /\ (pc = "ready" => kind = "authenticate")
    BY <1>3 DEF AuthSend
  <2>2. CASE SendFails(AuthBatch)
    BY <2>1, <2>2, FailureLowers
  <2>3. CASE pc' = "auth" /\ left' = BatchSize /\ resume' = resume
    <3>1. ResumeSteps' = ResumeSteps
      BY <2>3 DEF ResumeSteps, ReadySteps, DemandSteps, ConnectSteps, BatchSize
    <3>2. StepsLeft' = BatchSize + ResumeSteps
      BY <2>3, <3>1, StepsAtNext
    <3>3. pc = "ready" => ResumeSteps = 0 /\ StepsLeft = BatchSize + 2
      BY <1>1, <2>1, ResumeNumbers, StepsAt DEF LoopInv, Loops
    <3>4. pc = "authSend" => StepsLeft = BatchSize + 1 + ResumeSteps
      BY StepsAt
    <3>. QED BY <1>1, <2>1, <2>3, <3>2, <3>3, <3>4, StepNumbers DEF Loops
  <2>. QED BY <1>3, <2>2, <2>3 DEF AuthSend
<1>4. CASE AuthReply
  <2>1. pc = "auth" /\ stream' # 0 /\ NextResponse(BatchStatus(Head(outbox[stream])))
    BY <1>2, <1>4 DEF AuthReply
  <2>. QED BY <2>1, ResponseLowers
<1>5. CASE AuthJunk
  <2>1. pc = "auth" /\ stream' # 0
        /\ NextResponse(IF batch = "ok" THEN "parse" ELSE batch)
    BY <1>2, <1>5 DEF AuthJunk, connVars
  <2>. QED BY <2>1, ResponseLowers
<1>6. CASE AuthShort
  BY <1>6, FailureLowers DEF AuthShort
<1>. QED BY <1>3, <1>4, <1>5, <1>6 DEF Authenticate

LEMMA DemandLowers == LoopInv /\ Demand => Loops' /\ StepsLeft' < StepsLeft
<1>. SUFFICES ASSUME LoopInv, Demand PROVE Loops' /\ StepsLeft' < StepsLeft
  OBVIOUS
<1>1. CASE DemandMet
  <2>1. pc' = "ready" /\ resume' = resume /\ pc = "demand" /\ stream # 0
    BY <1>1 DEF DemandMet
  <2>2. Loops'
    BY <2>1 DEF LoopInv, Loops
  <2>3. StepsLeft = DemandSteps /\ StepsLeft' \in 2 .. ReadySteps
    BY <2>1, StepsAt, ReadyBoundNext
  <2>. QED BY <2>2, <2>3, StepNumbers
<1>2. ASSUME NEW next \in {"demand", "ready"}, EnterConnect(next)
      PROVE  /\ Loops'
             /\ next = "demand" => StepsLeft' = ConnectSteps(RetryCount) + DemandSteps
             /\ next = "ready" => StepsLeft' = ConnectSteps(RetryCount) + ReadySteps
  <2>1. pc' = "open" /\ left' = RetryCount /\ resume' = next
    BY <1>2 DEF EnterConnect
  <2>2. /\ next = "demand" => ResumeSteps' = DemandSteps
        /\ next = "ready" => ResumeSteps' = ReadySteps
    BY <2>1 DEF ResumeSteps, ReadySteps, DemandSteps, ConnectSteps, BatchSize
  <2>3. StepsLeft' = ConnectSteps(RetryCount) + ResumeSteps'
    BY <2>1, StepsAtNext
  <2>4. Loops'
    BY <2>1, StepNumbers DEF Loops
  <2>. QED BY <2>2, <2>3, <2>4
<1>3. CASE DemandConnect
  <2>1. StepsLeft = MaxSteps /\ EnterConnect("demand")
    BY <1>3, StepsAt DEF DemandConnect
  <2>. QED BY <1>2, <2>1, StepNumbers
<1>4. CASE DemandReconnect
  <2>1. StepsLeft = DemandSteps /\ EnterConnect("ready")
    BY <1>4, StepsAt DEF DemandReconnect
  <2>. QED BY <1>2, <2>1, StepNumbers
<1>. QED BY <1>1, <1>3, <1>4 DEF Demand

LEMMA LookupLowers == LoopInv /\ Lookup => Loops' /\ StepsLeft' < StepsLeft
<1>. SUFFICES ASSUME LoopInv, Lookup PROVE Loops' /\ StepsLeft' < StepsLeft
  OBVIOUS
<1>1. CASE LookupSend
  <2>1. pc = "ready" /\ kind # "authenticate" /\ Missing # {}
    BY <1>1 DEF LookupSend
  <2>2. CASE SendFails(LookupBuffer)
    BY <2>1, <2>2, FailureLowers
  <2>3. CASE pc' = "lookup" /\ UNCHANGED <<kind, resume, cache>>
    <3>1. Missing' = Missing
      BY <2>3 DEF Missing
    <3>2. Loops'
      BY <2>1, <2>3, <3>1 DEF LoopInv, Loops
    <3>3. /\ StepsLeft = 2 * Cardinality(Missing) + 2
          /\ StepsLeft' = 2 * Cardinality(Missing) + 1
      BY <2>1, <2>3, <3>1, StepsAt, StepsAtNext
    <3>. QED BY <3>2, <3>3, MissingCount
  <2>. QED BY <1>1, <2>2, <2>3 DEF LookupSend
<1>2. CASE LookupReply
  <2>1. pc = "lookup" /\ Missing # {} /\ resume = "return"
    BY <1>2 DEF LookupReply, LoopInv, Loops
  <2>2. CASE pc' = "idle" /\ resume' = "return"
    BY <2>1, <2>2, ReturnLowers
  <2>3. CASE pc' = "ready" /\ cache' = cache \union {Wanted} /\ UNCHANGED <<kind, resume>>
    <3>1. Missing' = Missing \ {Wanted}
      BY <2>3 DEF Missing
    <3>2. Cardinality(Missing') = Cardinality(Missing) - 1
      BY <2>1, <3>1, WantedIsMissing, MissingCount, FS_RemoveElement
    <3>3. StepsLeft = 2 * Cardinality(Missing) + 1
      BY <2>1, StepsAt
    <3>4. kind # "authenticate"
      BY <2>1 DEF Missing, NamesOf
    <3>5. StepsLeft' = 2 * (Cardinality(Missing) - 1) + 2
      BY <2>3, <3>2, <3>4, StepsAtNext
    <3>. QED BY <2>1, <2>3, <3>3, <3>5, MissingCount DEF Loops
  <2>. QED BY <1>2, <2>2, <2>3 DEF LookupReply, Return, ReturnFrom
<1>3. CASE LookupJunk
  BY <1>3, ReturnLowers DEF LookupJunk, Return, ReturnFrom
<1>4. CASE LookupShort
  BY <1>4, FailureLowers DEF LookupShort
<1>. QED BY <1>1, <1>2, <1>3, <1>4 DEF Lookup

LEMMA RequestLowers == LoopInv /\ Request => Loops' /\ StepsLeft' < StepsLeft
<1>. SUFFICES ASSUME LoopInv, Request PROVE Loops' /\ StepsLeft' < StepsLeft
  OBVIOUS
<1>1. CASE RequestSend
  <2>1. pc = "ready" /\ kind # "authenticate"
    BY <1>1 DEF RequestSend
  <2>2. CASE SendFails(RequestBuffer)
    BY <2>1, <2>2, FailureLowers
  <2>3. CASE pc' = "recv" /\ resume' = resume
    <3>1. StepsLeft' = 1 /\ StepsLeft \in 2 .. ReadySteps
      BY <2>1, <2>3, ReadyBound, StepsAtNext
    <3>. QED BY <2>1, <2>3, <3>1, StepNumbers DEF LoopInv, Loops
  <2>. QED BY <1>1, <2>2, <2>3 DEF RequestSend
<1>2. CASE RecvReply
  BY <1>2, ReturnLowers DEF RecvReply, Return, ReturnFrom
<1>3. CASE RecvJunk
  BY <1>3, ReturnLowers DEF RecvJunk, Return, ReturnFrom
<1>4. CASE RecvShort
  BY <1>4, FailureLowers DEF RecvShort
<1>. QED BY <1>1, <1>2, <1>3, <1>4 DEF Request

(***************************************************************************)
(* A call starts with bounded loops; the server does not touch them.       *)
(***************************************************************************)
LEMMA ScriptLoops == LoopInv /\ Script => Loops' /\ pc = "idle"
<1>. SUFFICES ASSUME LoopInv, Script PROVE Loops' /\ pc = "idle"
  OBVIOUS
<1>1. pc = "idle" /\ resume = "return"
  BY DEF LoopInv, Loops, Script, StartRequest, StartAuthenticate, StartConnect, StartReconnect,
         FlushSchema, Close, Start
<1>2. \/ pc' \in {"idle", "demand"} /\ resume' = "return"
      \/ pc' = "open" /\ left' = RetryCount
  BY <1>1 DEF Script, StartRequest, StartAuthenticate, StartConnect, StartReconnect,
         FlushSchema, Close, EnterConnect, ReturnFrom
<1>. QED BY <1>1, <1>2, StepNumbers DEF Loops

LEMMA ServerLoops ==
    ASSUME LoopInv, UNCHANGED <<callVars, connVars>>
    PROVE  Loops' /\ StepsLeft' = StepsLeft
<1>1. Missing' = Missing /\ ResumeSteps' = ResumeSteps /\ UNCHANGED <<pc, left, resume, kind, stream>>
  BY DEF Missing, ResumeSteps, ReadySteps, DemandSteps, ConnectSteps, BatchSize,
         callVars, connVars
<1>2. pc \in Places
  BY DEF LoopInv, TypeInv, TypeOK
<1>3. Loops'
  BY <1>1 DEF LoopInv, Loops
<1>4. StepsLeft' = StepsLeft
  BY <1>1, <1>2, StepsAt, StepsAtNext DEF Places
<1>. QED BY <1>3, <1>4

LEMMA NextLoops ==
    LoopInv /\ [Next]_vars =>
        /\ LoopInv'
        /\ [pc # "idle" => /\ StepsLeft' <= StepsLeft
                           /\ Extension => StepsLeft' < StepsLeft]_vars
<1>. SUFFICES ASSUME LoopInv, [Next]_vars
              PROVE  /\ Loops'
                     /\ [pc # "idle" => /\ StepsLeft' <= StepsLeft
                                        /\ Extension => StepsLeft' < StepsLeft]_vars
  BY NextTyped DEF LoopInv
<1>1. StepsLeft \in Int
  BY StepsInRange, StepNumbers
<1>2. Extension => Loops' /\ StepsLeft' < StepsLeft
  BY ConnectLowers, AuthenticateLowers, DemandLowers, LookupLowers, RequestLowers
     DEF Extension
<1>3. CASE Extension
  <2>1. StepsLeft' <= StepsLeft
    <3>1. LoopInv'
      BY <1>2, <1>3, NextTyped DEF LoopInv
    <3>2. StepsLeft' \in Int
      BY <3>1, StepsInRangeNext, StepNumbers
    <3>. QED BY <1>1, <1>2, <1>3, <3>2
  <2>. QED BY <1>2, <1>3, <2>1
<1>4. CASE Script
  BY <1>2, <1>4, ScriptLoops
<1>5. CASE Server
  <2>1. UNCHANGED <<callVars, connVars>>
    BY <1>5 DEF Server, Greet, Execute, Drop
  <2>. QED BY <1>1, <1>2, <2>1, ServerLoops
<1>6. CASE UNCHANGED vars
  <2>1. UNCHANGED <<callVars, connVars>>
    BY <1>6 DEF vars
  <2>. QED BY <1>1, <1>2, <1>6, <2>1, ServerLoops
<1>. QED BY <1>3, <1>4, <1>5, <1>6 DEF Next, Finished

(***************************************************************************)
(* Every API call comes back after at most MaxSteps of its steps, whatever *)
(* retry_count is: each step of the extension leaves the call less to do,  *)
(* and nothing the server or the network does adds to it.  This is the     *)
(* part of CallReturns that does not rest on fairness.                     *)
(***************************************************************************)
THEOREM CallBounded == Spec => CallsAreBounded
<1>1. Init => LoopInv
  BY InitTyped DEF Init, LoopInv, Loops
<1>2. LoopInv /\ [Next]_vars => LoopInv'
  BY NextLoops
<1>3. Spec => []LoopInv
  BY <1>1, <1>2, PTL DEF Spec
<1>4. LoopInv /\ [Next]_vars
      => [pc # "idle" => /\ StepsLeft' <= StepsLeft
                         /\ Extension => StepsLeft' < StepsLeft]_vars
  BY NextLoops
<1>. QED BY <1>3, <1>4, StepsInRange, PTL DEF Spec, CallsAreBounded
=============================================================================
