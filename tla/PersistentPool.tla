---------------------------- MODULE PersistentPool ----------------------------
(***************************************************************************)
(* Persistent objects.  A connection is kept under a name made of host,    *)
(* port, login and persistent_id, for the objects of this script and of    *)
(* later ones; its stream is kept by PHP under a name made in the same     *)
(* way.  One worker process, one server; every object has a password.      *)
(*                                                                         *)
(* A name is a sequence of pieces, what is the same in all of them left    *)
(* out.                                                                    *)
(***************************************************************************)
EXTENDS Naturals, Sequences

CONSTANTS
    Objects,      \* variables of the script
    Pieces,       \* what names are made of
    Bracket,      \* the piece "["
    Logins,
    Suffixes,     \* the persistent_id arguments
    NoSuffix,     \* none given: tarantool.persistent is set
    NoPid,        \* obj->persistent_id is NULL
    Guest,        \* the session of a stream before it is logged in
    RetryCount,   \* tarantool.retry_count
    MaxConns,     \* bound: connections made
    MaxStreams    \* bound: streams opened

ASSUME PoolAssumption ==
    /\ RetryCount \in Nat \ {0} /\ MaxConns \in Nat /\ MaxStreams \in Nat

(***************************************************************************)
(* Strings, and the two that are not given.                                *)
(***************************************************************************)
ASSUME NamesAssumption ==
    /\ Bracket \in Pieces
    /\ Suffixes \subseteq Seq(Pieces)
    /\ NoSuffix \notin Suffixes
    /\ NoPid \notin Seq(Pieces)

(***************************************************************************)
(* No login has a "[".  One that has may share its name with another login *)
(* and a persistent_id: "u[x" alone, and "u" with "x".                     *)
(***************************************************************************)
ASSUME LoginsAssumption == Logins \subseteq Seq(Pieces \ {Bracket})

Conns == 1 .. MaxConns
Streams == 1 .. MaxStreams

(***************************************************************************)
(* pid_gen, prefix, host and port being the same for all: the login, and   *)
(* the suffix in brackets, of which the closing one is cut off (len - 1).  *)
(***************************************************************************)
PidGen(l, suffix) == IF suffix = NoSuffix THEN l ELSE l \o <<Bracket>> \o suffix

Args == Logins \X (Suffixes \union {NoSuffix})
Pids == {PidGen(a[1], a[2]) : a \in Args}

VARIABLES
    plist,     \* EG(persistent_list): the connection under a name, 0 if none
    pstreams,  \* EG(persistent_list): the stream under a name, 0 if none
    conns,     \* connections made
    made,      \* connection: login and suffix it was made with
    login,     \* connection: obj->login
    pid,       \* connection: obj->persistent_id
    stream,    \* connection: obj->stream, 0 if NULL
    object,    \* object: t_obj->obj, 0 if the script has no such object
    pc,        \* where the method is that connects; "idle" between calls
    cur,       \* its connection
    count,     \* attempts left
    streams,   \* streams opened
    alive,     \* those neither side has closed
    freed,     \* those PHP has freed
    greetings, \* those whose greeting is not read
    session    \* stream: the login its requests run as

connVars == <<plist, conns, made, login>>
pathVars == <<pc, cur, count>>
streamVars == <<streams, alive, freed, greetings, session>>
vars == <<connVars, pstreams, pid, stream, object, pathVars, streamVars>>

(***************************************************************************)
(* Names are 0 or of something that was made, and no connect has more      *)
(* attempts left than retry_count.                                         *)
(***************************************************************************)
PoolTypeOK ==
    /\ plist \in [Pids -> 0 .. MaxConns]
    /\ pstreams \in [Pids -> 0 .. MaxStreams]
    /\ conns \in 0 .. MaxConns
    /\ made \in [Conns -> Args]
    /\ login \in [Conns -> Logins]
    /\ pid \in [Conns -> Pids \union {NoPid}]
    /\ stream \in [Conns -> 0 .. MaxStreams]
    /\ object \in [Objects -> 0 .. MaxConns]
    /\ pc \in {"idle", "connect", "attempt", "greeting", "login", "undefined"}
    /\ cur \in 0 .. MaxConns
    /\ count \in 0 .. RetryCount
    /\ streams \in 0 .. MaxStreams
    /\ alive \subseteq Streams /\ freed \subseteq Streams /\ greetings \subseteq Streams
    /\ session \in [Streams -> Logins \union {Guest}]

Init ==
    /\ plist = [id \in Pids |-> 0] /\ pstreams = [id \in Pids |-> 0]
    /\ conns = 0
    /\ \E l \in Logins : /\ made = [k \in Conns |-> <<l, NoSuffix>>]
                         /\ login = [k \in Conns |-> l]
    /\ pid = [k \in Conns |-> NoPid] /\ stream = [k \in Conns |-> 0]
    /\ object = [o \in Objects |-> 0]
    /\ pc = "idle" /\ cur = 0 /\ count = 0
    /\ streams = 0 /\ alive = {} /\ freed = {} /\ greetings = {}
    /\ session = [s \in Streams |-> Guest]

(***************************************************************************)
(* __construct.                                                            *)
(***************************************************************************)
ConstructFound(o, l, suffix) ==
    /\ pc = "idle"
    /\ plist[PidGen(l, suffix)] # 0
    /\ object' = [object EXCEPT ![o] = plist[PidGen(l, suffix)]]
    /\ UNCHANGED <<connVars, pstreams, pid, stream, pathVars, streamVars>>

ConstructNew(o, l, suffix) ==
    /\ pc = "idle"
    /\ plist[PidGen(l, suffix)] = 0
    /\ conns < MaxConns
    /\ LET k == conns + 1 IN
         /\ conns' = k
         /\ made' = [made EXCEPT ![k] = <<l, suffix>>]
         /\ login' = [login EXCEPT ![k] = l]
         /\ pid' = [pid EXCEPT ![k] = PidGen(l, suffix)]
         /\ plist' = [plist EXCEPT ![PidGen(l, suffix)] = k]
         /\ object' = [object EXCEPT ![o] = k]
    /\ UNCHANGED <<pstreams, stream, pathVars, streamVars>>

(***************************************************************************)
(* The script ends, or drops an object: tarantool_object_free leaves the   *)
(* connection of a persistent object alone.                                *)
(***************************************************************************)
Drop(o) ==
    /\ pc = "idle" /\ object[o] # 0
    /\ object' = [object EXCEPT ![o] = 0]
    /\ UNCHANGED <<connVars, pstreams, pid, stream, pathVars, streamVars>>

(***************************************************************************)
(* PHP frees streams: it forgets their names and closes them.  Whoever     *)
(* still has the pointer does not learn of it.                             *)
(***************************************************************************)
Free(gone) ==
    /\ pstreams' = [id \in Pids |-> IF pstreams[id] \in gone THEN 0 ELSE pstreams[id]]
    /\ alive' = alive \ gone
    /\ freed' = freed \union gone
    /\ UNCHANGED <<streams, greetings, session>>

(***************************************************************************)
(* tarantool_stream_close: the stream, or what is under the name.          *)
(***************************************************************************)
Closes(k) ==
    IF stream[k] # 0 THEN {stream[k]}
    ELSE IF pid[k] = NoPid THEN {} ELSE {pstreams[pid[k]]} \ {0}

(***************************************************************************)
(* Faulty variant: the connection keeps the pointer.                       *)
(***************************************************************************)
StreamCloseKeeps(k) ==
    /\ Free(Closes(k))
    /\ stream' = stream
    /\ pid' = [pid EXCEPT ![k] = NoPid]

(***************************************************************************)
(* The stream is closed, and the connection forgets it and its name.       *)
(***************************************************************************)
StreamClose(k) ==
    /\ Free(Closes(k))
    /\ stream' = [stream EXCEPT ![k] = 0]
    /\ pid' = [pid EXCEPT ![k] = NoPid]

(***************************************************************************)
(* connect(), and the first half of TARANTOOL_CONNECT_ON_DEMAND.           *)
(***************************************************************************)
Connect(o) ==
    /\ pc = "idle" /\ object[o] # 0 /\ stream[object[o]] = 0
    /\ pc' = "connect" /\ cur' = object[o]
    /\ UNCHANGED <<connVars, pstreams, pid, stream, object, count, streamVars>>

(***************************************************************************)
(* reconnect(), and the second half: the server has closed the stream.     *)
(***************************************************************************)
Usable(k) == stream[k] # 0 /\ stream[k] \notin freed

Reconnect(o) ==
    /\ pc = "idle" /\ object[o] # 0
    /\ stream[object[o]] = 0 \/ Usable(object[o])
    /\ StreamClose(object[o])
    /\ pc' = "connect" /\ cur' = object[o]
    /\ UNCHANGED <<connVars, object, count>>

(***************************************************************************)
(* __tarantool_connect.  A connection without a name gets one; the stream  *)
(* under its name is taken as it is.  obj->suffix is NULL: nothing sets    *)
(* it, so the name made again lacks the persistent_id.                     *)
(***************************************************************************)
OrigLogin(k) == made[k][1]

(***************************************************************************)
(* Faulty variant: the name is made from the login of now.                 *)
(***************************************************************************)
NameOfLogin(k) == PidGen(login[k], NoSuffix)

(***************************************************************************)
(* persistent_id, made again from orig_login.                              *)
(***************************************************************************)
NameAgain(k) == PidGen(OrigLogin(k), NoSuffix)

NameNow(k) == IF pid[k] = NoPid THEN NameAgain(k) ELSE pid[k]

TakeStream ==
    /\ pc = "connect"
    /\ pid' = [pid EXCEPT ![cur] = NameNow(cur)]
    /\ pstreams[NameNow(cur)] # 0
    /\ stream' = [stream EXCEPT ![cur] = pstreams[NameNow(cur)]]
    /\ pc' = "idle"
    /\ UNCHANGED <<connVars, pstreams, object, cur, count, streamVars>>

NoStream ==
    /\ pc = "connect"
    /\ pid' = [pid EXCEPT ![cur] = NameNow(cur)]
    /\ pstreams[NameNow(cur)] = 0
    /\ pc' = "attempt" /\ count' = RetryCount
    /\ UNCHANGED <<connVars, pstreams, stream, object, cur, streamVars>>

(***************************************************************************)
(* Faulty variant: one attempt more than there are.                        *)
(***************************************************************************)
AttemptOnceMore ==
    /\ pc = "attempt"
    /\ count' = count - 1
    /\ pid' = [pid EXCEPT ![cur] = NameAgain(cur)]
    /\ UNCHANGED <<connVars, object, cur>>

(***************************************************************************)
(* An attempt: the name is made again, and tntll_stream_open gets the      *)
(* stream under it if that is alive, or opens one in its place.            *)
(***************************************************************************)
Attempt ==
    /\ pc = "attempt" /\ count > 0
    /\ count' = count - 1
    /\ pid' = [pid EXCEPT ![cur] = NameAgain(cur)]
    /\ UNCHANGED <<connVars, object, cur>>

OpenKnown ==
    /\ Attempt
    /\ pstreams[NameAgain(cur)] \in alive
    /\ stream' = [stream EXCEPT ![cur] = pstreams[NameAgain(cur)]]
    /\ pc' = "greeting"
    /\ UNCHANGED <<pstreams, streamVars>>

OpenNew ==
    /\ Attempt
    /\ pstreams[NameAgain(cur)] \notin alive
    /\ streams < MaxStreams
    /\ LET s == streams + 1 IN
         /\ streams' = s
         /\ pstreams' = [pstreams EXCEPT ![NameAgain(cur)] = s]
         /\ alive' = alive \union {s}
         /\ greetings' = greetings \union {s}
         /\ stream' = [stream EXCEPT ![cur] = s]
    /\ freed' = freed \union ({pstreams[NameAgain(cur)]} \ {0})
    /\ pc' = "greeting"
    /\ UNCHANGED session

OpenFails ==
    /\ Attempt
    /\ pstreams[NameAgain(cur)] \notin alive
    /\ Free({pstreams[NameAgain(cur)]} \ {0})
    /\ pc' = "attempt"
    /\ UNCHANGED stream

(***************************************************************************)
(* The greeting, which the server sends once; then the login.              *)
(***************************************************************************)
GreetingRead ==
    /\ pc = "greeting" /\ stream[cur] \in alive \intersect greetings
    /\ greetings' = greetings \ {stream[cur]}
    /\ pc' = "login"
    /\ UNCHANGED <<connVars, pstreams, pid, stream, object, cur, count,
                   streams, alive, freed, session>>

NoGreeting ==
    /\ pc = "greeting" /\ stream[cur] \notin alive \intersect greetings
    /\ pc' = "attempt"
    /\ UNCHANGED <<connVars, pstreams, pid, stream, object, cur, count, streamVars>>

GiveUp ==
    /\ pc = "attempt" /\ count = 0
    /\ pc' = "idle"
    /\ UNCHANGED <<connVars, pstreams, pid, stream, object, cur, count, streamVars>>

(***************************************************************************)
(* Faulty variant: the login is that of the constructor.                   *)
(***************************************************************************)
LogInAsMade ==
    /\ pc = "login" /\ stream[cur] \in alive
    /\ session' = [session EXCEPT ![stream[cur]] = OrigLogin(cur)]
    /\ pc' = "idle"
    /\ UNCHANGED <<connVars, pstreams, pid, stream, object, cur, count,
                   streams, alive, freed, greetings>>

(***************************************************************************)
(* __tarantool_authenticate, as part of a connect or called by the script  *)
(* with a password, for an object that is connected.                       *)
(***************************************************************************)
LogIn ==
    /\ pc = "login" /\ stream[cur] \in alive
    /\ session' = [session EXCEPT ![stream[cur]] = login[cur]]
    /\ pc' = "idle"
    /\ UNCHANGED <<connVars, pstreams, pid, stream, object, cur, count,
                   streams, alive, freed, greetings>>

LogInFails ==
    /\ pc = "login"
    /\ StreamClose(cur)
    /\ pc' = "idle"
    /\ UNCHANGED <<connVars, object, cur, count>>

Authenticate(o, l) ==
    /\ pc = "idle" /\ object[o] # 0 /\ stream[object[o]] \in alive
    /\ login' = [login EXCEPT ![object[o]] = l]
    /\ pc' = "login" /\ cur' = object[o]
    /\ UNCHANGED <<plist, conns, made, pstreams, pid, stream, object, count, streamVars>>

(***************************************************************************)
(* A request fails: its stream is closed.  One through a pointer to a      *)
(* freed stream is undefined.                                              *)
(***************************************************************************)
RequestFails(o) ==
    /\ pc = "idle" /\ object[o] # 0 /\ Usable(object[o])
    /\ StreamClose(object[o])
    /\ UNCHANGED <<connVars, object, pathVars>>

UseFreed(o) ==
    /\ pc = "idle" /\ object[o] # 0
    /\ stream[object[o]] \in freed
    /\ pc' = "undefined"
    /\ UNCHANGED <<connVars, pstreams, pid, stream, object, cur, count, streamVars>>

(***************************************************************************)
(* External: the server closes a stream.                                   *)
(***************************************************************************)
ServerCloses(s) ==
    /\ s \in alive
    /\ alive' = alive \ {s}
    /\ UNCHANGED <<connVars, pstreams, pid, stream, object, pathVars, streams,
                   freed, greetings, session>>

Next ==
    \/ \E o \in Objects, l \in Logins, suffix \in Suffixes \union {NoSuffix} :
          ConstructFound(o, l, suffix) \/ ConstructNew(o, l, suffix)
    \/ \E o \in Objects : \/ Drop(o) \/ Connect(o) \/ Reconnect(o)
                          \/ RequestFails(o) \/ UseFreed(o)
    \/ \E o \in Objects, l \in Logins : Authenticate(o, l)
    \/ TakeStream \/ NoStream \/ OpenKnown \/ OpenNew \/ OpenFails
    \/ GreetingRead \/ NoGreeting \/ GiveUp \/ LogIn \/ LogInFails
    \/ \E s \in Streams : ServerCloses(s)

Spec == Init /\ [][Next]_vars

(***************************************************************************)
(* A connection is left with a stream that PHP has freed, and UseFreed is  *)
(* in reach, only through another connection made for the same login, or   *)
(* on a stream whose greeting was never read: a close of its own, by       *)
(* whichever path, takes the pointer with it.                              *)
(***************************************************************************)
Twin(k) == \E j \in 1 .. conns : j # k /\ OrigLogin(j) = OrigLogin(k)

FreedByTwin ==
    \A k \in Conns : stream[k] \in freed => stream[k] \in greetings \/ Twin(k)

(***************************************************************************)
(* However often authenticate() changes the logins: connections that were  *)
(* made for different logins never have one stream.                        *)
(***************************************************************************)
LoginsKeptApart ==
    \A j, k \in Conns :
        stream[j] = stream[k] /\ stream[j] # 0 => OrigLogin(j) = OrigLogin(k)

(***************************************************************************)
(* A request on a stream no other connection has runs as the login the     *)
(* connection was given last, through closes, reconnects and scripts.      *)
(***************************************************************************)
RunsAsLogin ==
    \A k \in Conns :
        pc = "idle" /\ stream[k] \in alive /\ (\A j \in Conns \ {k} : stream[j] # stream[k])
            => session[stream[k]] = login[k]

(***************************************************************************)
(* What persistent_id is for (README.md:147, php_tarantool.h:171): each    *)
(* connection has a stream of its own.                                     *)
(***************************************************************************)
StreamIsOwn ==
    \A j, k \in Conns : stream[j] = stream[k] /\ stream[j] # 0 => j = k
=============================================================================
