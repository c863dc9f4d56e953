------------------------- MODULE PersistentPoolProofs -------------------------
(***************************************************************************)
(* Which connections may share a stream, and as whom requests run, for any *)
(* number of objects, scripts, logins and persistent_ids.                  *)
(***************************************************************************)
EXTENDS PersistentPool, TLAPS

(***************************************************************************)
(* The login a name was made from, which is the one it shows.              *)
(***************************************************************************)
LoginOf(id) == CHOOSE l \in Logins : \E x \in Suffixes \union {NoSuffix} : id = PidGen(l, x)

(***************************************************************************)
(* The strengthening.  Connections that exist; the names of streams, which *)
(* tell logins apart and nothing else; the streams that are alive, each    *)
(* held by a connection and found under the name that connection makes     *)
(* again, so that no attempt ever leaves one behind.                       *)
(***************************************************************************)
Shared(k) == \E j \in Conns : j # k /\ stream[j] = stream[k]
Connecting == pc \in {"connect", "attempt", "greeting", "login"}
Opening == pc \in {"attempt", "greeting", "login"}

MadeInv ==
    /\ \A id \in Pids : plist[id] <= conns
    /\ \A k \in Conns : k > conns => stream[k] = 0
    /\ \A o \in Objects : object[o] <= conns
    /\ Connecting => cur \in Conns /\ cur <= conns

NamesInv ==
    /\ \A k \in Conns : pid[k] # NoPid => LoginOf(pid[k]) = OrigLogin(k)
    /\ \A id \in Pids : pstreams[id] # 0 => id \in Logins
    /\ \A i, j \in Pids : pstreams[i] = pstreams[j] /\ pstreams[i] # 0 => i = j
    /\ \A id \in Pids, k \in Conns :
          pstreams[id] = stream[k] /\ stream[k] # 0 => LoginOf(id) = OrigLogin(k)
    /\ \A id \in Pids : pstreams[id] <= streams
    /\ \A k \in Conns : stream[k] <= streams
    /\ LoginsKeptApart

AliveInv ==
    /\ alive \subseteq 1 .. streams
    /\ \A s \in alive : \E k \in Conns : stream[k] = s
    /\ \A k \in Conns : stream[k] \in alive => pstreams[NameAgain(k)] = stream[k]

LoginInv ==
    /\ pc = "connect" => stream[cur] = 0
    /\ pc = "attempt" /\ stream[cur] \in alive => Shared(cur)
    /\ pc = "greeting" /\ stream[cur] \in alive \ greetings => Shared(cur)
    /\ \A k \in Conns :
          (Opening => k # cur) /\ stream[k] \in alive /\ ~Shared(k)
              => session[stream[k]] = login[k]

PoolInv == PoolTypeOK /\ MadeInv /\ NamesInv /\ AliveInv /\ LoginInv

(***************************************************************************)
(* The name of a login and a suffix, as far as it tells the login: up to   *)
(* the bracket, which no login has.                                        *)
(***************************************************************************)
LEMMA LoginShows ==
    ASSUME NEW l \in Logins, NEW x \in Suffixes \union {NoSuffix}
    PROVE  /\ PidGen(l, x) \in Seq(Pieces)
           /\ Len(l) \in Nat /\ Len(l) <= Len(PidGen(l, x))
           /\ \A i \in 1 .. Len(l) : PidGen(l, x)[i] = l[i] /\ l[i] # Bracket
           /\ x = NoSuffix => PidGen(l, x) = l
           /\ x # NoSuffix => /\ Len(PidGen(l, x)) > Len(l)
                              /\ PidGen(l, x)[Len(l) + 1] = Bracket
<1> USE NamesAssumption, LoginsAssumption
<1>1. /\ l \in Seq(Pieces) /\ l \in Seq(Pieces \ {Bracket}) /\ Len(l) \in Nat
      /\ \A i \in 1 .. Len(l) : l[i] # Bracket
  OBVIOUS
<1>2. CASE x = NoSuffix
  BY <1>1, <1>2 DEF PidGen
<1>3. CASE x # NoSuffix
  <2>1. x \in Seq(Pieces) /\ <<Bracket>> \in Seq(Pieces) /\ Len(<<Bracket>>) = 1
    BY <1>3
  <2>2. PidGen(l, x) = (l \o <<Bracket>>) \o x
    BY <1>3 DEF PidGen
  <2> DEFINE front == l \o <<Bracket>>
  <2>3. /\ front \in Seq(Pieces) /\ Len(front) = Len(l) + 1
        /\ front[Len(l) + 1] = Bracket
        /\ \A i \in 1 .. Len(l) : front[i] = l[i]
    BY <1>1, <2>1
  <2> HIDE DEF front
  <2>4. /\ front \o x \in Seq(Pieces) /\ Len(front \o x) = Len(front) + Len(x)
        /\ \A i \in 1 .. Len(front) : (front \o x)[i] = front[i]
        /\ Len(x) \in Nat
    BY <2>1, <2>3
  <2>5. PidGen(l, x) = front \o x
    BY <2>2 DEF front
  <2> QED
    BY <1>1, <1>3, <2>3, <2>4, <2>5
<1> QED
  BY <1>2, <1>3

(***************************************************************************)
(* Names of different logins are different.                                *)
(***************************************************************************)
LEMMA LoginsTold ==
    ASSUME NEW l \in Logins, NEW x \in Suffixes \union {NoSuffix},
           NEW m \in Logins, NEW y \in Suffixes \union {NoSuffix},
           PidGen(l, x) = PidGen(m, y)
    PROVE  l = m
<1> DEFINE p == PidGen(l, x)
<1>1. p = PidGen(m, y)
  OBVIOUS
<1>2. /\ Len(l) \in Nat /\ Len(l) <= Len(p) /\ p \in Seq(Pieces)
      /\ \A i \in 1 .. Len(l) : p[i] = l[i] /\ l[i] # Bracket
      /\ x = NoSuffix => p = l
      /\ x # NoSuffix => Len(p) > Len(l) /\ p[Len(l) + 1] = Bracket
  BY LoginShows
<1>3. /\ Len(m) \in Nat /\ Len(m) <= Len(p)
      /\ \A i \in 1 .. Len(m) : p[i] = m[i] /\ m[i] # Bracket
      /\ y = NoSuffix => p = m
      /\ y # NoSuffix => Len(p) > Len(m) /\ p[Len(m) + 1] = Bracket
  BY <1>1, LoginShows
<1> HIDE DEF p
<1>4. ~(Len(l) < Len(m))
  <2> SUFFICES ASSUME Len(l) < Len(m) PROVE FALSE
    OBVIOUS
  <2>1. x # NoSuffix
    BY <1>2, <1>3
  <2>2. Len(l) + 1 \in 1 .. Len(m)
    BY <1>2, <1>3
  <2> QED
    BY <2>1, <2>2, <1>2, <1>3
<1>5. ~(Len(m) < Len(l))
  <2> SUFFICES ASSUME Len(m) < Len(l) PROVE FALSE
    OBVIOUS
  <2>1. y # NoSuffix
    BY <1>2, <1>3
  <2>2. Len(m) + 1 \in 1 .. Len(l)
    BY <1>2, <1>3
  <2> QED
    BY <2>1, <2>2, <1>2, <1>3
<1>6. Len(l) = Len(m)
  BY <1>2, <1>3, <1>4, <1>5
<1>7. \A i \in 1 .. Len(l) : l[i] = m[i]
  BY <1>2, <1>3, <1>6
<1>8. l \in Seq(Pieces) /\ m \in Seq(Pieces)
  BY LoginsAssumption
<1> QED
  BY <1>6, <1>7, <1>8

LEMMA PidsTyped ==
    /\ \A l \in Logins, x \in Suffixes \union {NoSuffix} :
          PidGen(l, x) \in Pids /\ LoginOf(PidGen(l, x)) = l
    /\ \A id \in Pids : LoginOf(id) \in Logins
    /\ \A l \in Logins : PidGen(l, NoSuffix) = l
    /\ NoPid \notin Pids
<1>1. ASSUME NEW l \in Logins, NEW x \in Suffixes \union {NoSuffix}
      PROVE  /\ PidGen(l, x) \in Pids
             /\ PidGen(l, x) \in Seq(Pieces)
             /\ LoginOf(PidGen(l, x)) = l
  <2>1. <<l, x>> \in Args /\ <<l, x>>[1] = l /\ <<l, x>>[2] = x
    BY DEF Args
  <2>2. PidGen(l, x) \in Pids
    BY <2>1 DEF Pids
  <2>3. PidGen(l, x) \in Seq(Pieces)
    BY LoginShows
  <2>4. LoginOf(PidGen(l, x)) = l
    BY LoginsTold DEF LoginOf
  <2> QED
    BY <2>2, <2>3, <2>4
<1>2. ASSUME NEW id \in Pids
      PROVE  \E l \in Logins, x \in Suffixes \union {NoSuffix} : id = PidGen(l, x)
  <2>1. PICK a \in Args : id = PidGen(a[1], a[2])
    BY DEF Pids
  <2>2. a[1] \in Logins /\ a[2] \in Suffixes \union {NoSuffix}
    BY DEF Args
  <2> QED
    BY <2>1, <2>2
<1>3. \A id \in Pids : LoginOf(id) \in Logins /\ id \in Seq(Pieces)
  BY <1>1, <1>2
<1>4. \A l \in Logins : PidGen(l, NoSuffix) = l
  BY DEF PidGen
<1> QED
  BY <1>1, <1>3, <1>4, NamesAssumption

LEMMA NameAgainTyped ==
    ASSUME PoolTypeOK, NEW k \in Conns
    PROVE  /\ NameAgain(k) \in Pids /\ OrigLogin(k) \in Logins
           /\ LoginOf(NameAgain(k)) = OrigLogin(k) /\ NameAgain(k) \in Logins
<1>1. made[k] \in Args /\ made[k][1] \in Logins
  BY DEF PoolTypeOK, Args
<1> QED
  BY <1>1, PidsTyped DEF NameAgain, OrigLogin

LEMMA PoolInitially == Init => PoolInv
<1> SUFFICES ASSUME Init PROVE PoolInv
  OBVIOUS
<1> USE PoolAssumption
<1>1. PoolTypeOK
  <2>1. PICK l \in Logins : /\ made = [k \in Conns |-> <<l, NoSuffix>>]
                            /\ login = [k \in Conns |-> l]
    BY DEF Init
  <2>2. made \in [Conns -> Args] /\ login \in [Conns -> Logins]
    BY <2>1 DEF Args
  <2> QED
    BY <2>2 DEF Init, PoolTypeOK
<1>2. MadeInv
  BY DEF Init, MadeInv, Connecting
<1>3. NamesInv
  BY DEF Init, NamesInv, LoginsKeptApart
<1>4. AliveInv /\ LoginInv
  BY DEF Init, AliveInv, LoginInv, Opening
<1> QED
  BY <1>1, <1>2, <1>3, <1>4 DEF PoolInv

(***************************************************************************)
(* __construct and the end of an object.                                   *)
(***************************************************************************)
LEMMA ConstructKept ==
    ASSUME PoolInv, NEW o \in Objects, NEW l \in Logins,
           NEW x \in Suffixes \union {NoSuffix},
           ConstructFound(o, l, x) \/ ConstructNew(o, l, x) \/ Drop(o)
    PROVE  PoolInv'
<1> USE PoolAssumption
<1>1. CASE ConstructFound(o, l, x) \/ Drop(o)
  <2>1. object' \in [Objects -> 0 .. MaxConns] /\ (\A p \in Objects : object'[p] <= conns)
    <3>1. PICK k \in 0 .. MaxConns : object' = [object EXCEPT ![o] = k] /\ k <= conns
      <4>1. plist[PidGen(l, x)] \in 0 .. MaxConns /\ plist[PidGen(l, x)] <= conns
        BY PidsTyped DEF PoolInv, PoolTypeOK, MadeInv
      <4>2. 0 \in 0 .. MaxConns /\ 0 <= conns
        BY DEF PoolInv, PoolTypeOK
      <4> QED
        BY <1>1, <4>1, <4>2 DEF ConstructFound, Drop
    <3> QED
      BY <3>1 DEF PoolInv, PoolTypeOK, MadeInv
  <2>2. UNCHANGED <<connVars, pstreams, pid, stream, pathVars, streamVars>>
    BY <1>1 DEF ConstructFound, Drop
  <2> QED
    BY <2>1, <2>2 DEF PoolInv, PoolTypeOK, MadeInv, NamesInv, AliveInv, LoginInv,
        LoginsKeptApart, Connecting, Opening, Shared, NameAgain, OrigLogin,
        connVars, pathVars, streamVars
<1>2. CASE ConstructNew(o, l, x)
  <2> DEFINE k == conns + 1
             id == PidGen(l, x)
             a == <<l, x>>
  <2>1. id \in Pids /\ LoginOf(id) = l /\ a \in Args /\ a[1] = l
    BY PidsTyped DEF Args
  <2>2. conns \in 0 .. MaxConns /\ k \in Conns /\ k \in 0 .. MaxConns
    BY <1>2 DEF ConstructNew, PoolInv, PoolTypeOK, Conns
  <2>3. /\ conns' = k
        /\ made' = [made EXCEPT ![k] = a]
        /\ login' = [login EXCEPT ![k] = l]
        /\ pid' = [pid EXCEPT ![k] = id]
        /\ plist' = [plist EXCEPT ![id] = k]
        /\ object' = [object EXCEPT ![o] = k]
        /\ UNCHANGED <<pstreams, stream, pathVars, streamVars>>
        /\ pc = "idle" /\ plist[id] = 0
    BY <1>2 DEF ConstructNew
  <2> HIDE DEF k, id, a
  <2>4. PoolTypeOK'
    BY <2>1, <2>2, <2>3 DEF PoolInv, PoolTypeOK, pathVars, streamVars
  <2>5. /\ made'[k] = a /\ \A j \in Conns : j # k => made'[j] = made[j]
        /\ login'[k] = l /\ \A j \in Conns : j # k => login'[j] = login[j]
        /\ pid'[k] = id /\ \A j \in Conns : j # k => pid'[j] = pid[j]
        /\ plist'[id] = k /\ \A i \in Pids : i # id => plist'[i] = plist[i]
    BY <2>1, <2>2, <2>3 DEF PoolInv, PoolTypeOK
  <2>6. stream[k] = 0 /\ \A j \in 1 .. conns : j \in Conns /\ j # k
    BY <2>2 DEF PoolInv, MadeInv, Conns, k
  <2>7. MadeInv'
    <3>2. conns <= k
      BY <2>2 DEF k
    <3>3. \A i \in Pids : plist'[i] <= k
      BY <2>2, <2>5, <3>2 DEF PoolInv, PoolTypeOK, MadeInv, k
    <3>4. \A j \in Conns : j > k => stream'[j] = 0
      BY <2>2, <2>3 DEF PoolInv, MadeInv, Conns, k
    <3>5. \A p \in Objects : object'[p] <= k
      BY <2>2, <2>3, <3>2 DEF PoolInv, PoolTypeOK, MadeInv, k
    <3> QED
      BY <2>3, <3>3, <3>4, <3>5 DEF MadeInv, Connecting, pathVars
  <2>8. \A j \in Conns : stream[j] # 0 => j # k /\ OrigLogin(j)' = OrigLogin(j)
                                        /\ NameAgain(j)' = NameAgain(j)
    BY <2>5, <2>6 DEF OrigLogin, NameAgain
  <2>9. NamesInv'
    <3>1. \A j \in Conns : pid'[j] # NoPid => LoginOf(pid'[j]) = OrigLogin(j)'
      BY <2>1, <2>5 DEF OrigLogin, PoolInv, NamesInv
    <3>2. /\ \A i \in Pids : pstreams'[i] # 0 => i \in Logins
          /\ \A i, j \in Pids : pstreams'[i] = pstreams'[j] /\ pstreams'[i] # 0 => i = j
          /\ \A i \in Pids : pstreams'[i] <= streams'
          /\ \A j \in Conns : stream'[j] <= streams'
      BY <2>3 DEF PoolInv, NamesInv, streamVars
    <3>3. \A i \in Pids, j \in Conns :
             pstreams'[i] = stream'[j] /\ stream'[j] # 0 => LoginOf(i) = OrigLogin(j)'
      BY <2>3, <2>8 DEF PoolInv, NamesInv
    <3>4. LoginsKeptApart'
      BY <2>3, <2>8 DEF PoolInv, NamesInv, LoginsKeptApart
    <3> QED
      BY <3>1, <3>2, <3>3, <3>4 DEF NamesInv
  <2>10. 0 \notin alive
    BY DEF PoolInv, AliveInv
  <2>11. AliveInv'
    BY <2>3, <2>8, <2>10 DEF PoolInv, AliveInv, streamVars
  <2>12. LoginInv'
    BY <2>3, <2>5, <2>6, <2>10 DEF PoolInv, LoginInv, Opening, Shared, pathVars, streamVars
  <2> QED
    BY <2>4, <2>7, <2>9, <2>11, <2>12 DEF PoolInv
<1> QED
  BY <1>1, <1>2

(***************************************************************************)
(* What stays when the connections and their names do.                     *)
(***************************************************************************)
LEMMA MadeKept ==
    ASSUME PoolInv, UNCHANGED <<plist, conns, made, object>>,
           stream' \in [Conns -> 0 .. MaxStreams],
           \A k \in Conns : k > conns => stream'[k] = 0,
           Connecting' => cur' \in Conns /\ cur' <= conns
    PROVE  /\ MadeInv'
           /\ \A k \in Conns : NameAgain(k)' = NameAgain(k) /\ OrigLogin(k)' = OrigLogin(k)
BY DEF PoolInv, MadeInv, NameAgain, OrigLogin

LEMMA HeldObject ==
    ASSUME PoolInv, NEW o \in Objects, object[o] # 0
    PROVE  object[o] \in Conns /\ object[o] <= conns
BY PoolAssumption DEF PoolInv, PoolTypeOK, MadeInv, Conns

LEMMA NoStreamIsZero ==
    ASSUME PoolInv
    PROVE  0 \notin alive /\ streams \in Nat /\ conns \in Nat
BY PoolAssumption DEF PoolInv, PoolTypeOK, AliveInv

(***************************************************************************)
(* A stream is closed: whoever is left with a stream that is alive still   *)
(* finds it under the name it makes again, and shares it with as many.     *)
(***************************************************************************)
LEMMA CloseKept ==
    ASSUME PoolInv, NEW k \in Conns, k <= conns, StreamClose(k),
           UNCHANGED <<connVars, object, count>>,
           pc = "idle" \/ (pc = "login" /\ cur = k),
           \/ pc' = "idle" /\ cur' = cur
           \/ pc' = "connect" /\ cur' = k
    PROVE  PoolInv'
<1> USE PoolAssumption
<1> DEFINE gone == Closes(k)
<1>1. /\ gone \subseteq Streams /\ 0 \notin gone
      /\ stream[k] # 0 => gone = {stream[k]}
  BY PidsTyped DEF PoolInv, PoolTypeOK, Closes, Streams
<1>2. /\ pstreams' = [id \in Pids |-> IF pstreams[id] \in gone THEN 0 ELSE pstreams[id]]
      /\ alive' = alive \ gone
      /\ freed' = freed \union gone
      /\ UNCHANGED <<streams, greetings, session>>
      /\ stream' = [stream EXCEPT ![k] = 0]
      /\ pid' = [pid EXCEPT ![k] = NoPid]
  BY DEF StreamClose, Free
<1> HIDE DEF gone
<1>3. /\ stream'[k] = 0 /\ \A j \in Conns : j # k => stream'[j] = stream[j]
      /\ pid'[k] = NoPid /\ \A j \in Conns : j # k => pid'[j] = pid[j]
      /\ \A id \in Pids : pstreams'[id] = IF pstreams[id] \in gone THEN 0 ELSE pstreams[id]
  BY <1>2 DEF PoolInv, PoolTypeOK
<1>4. PoolTypeOK'
  <2>1. pstreams' \in [Pids -> 0 .. MaxStreams]
    BY <1>2 DEF PoolInv, PoolTypeOK
  <2>2. pid' \in [Conns -> Pids \union {NoPid}] /\ stream' \in [Conns -> 0 .. MaxStreams]
    BY <1>2 DEF PoolInv, PoolTypeOK
  <2>3. /\ alive' \subseteq Streams /\ freed' \subseteq Streams /\ greetings' \subseteq Streams
        /\ streams' \in 0 .. MaxStreams /\ session' \in [Streams -> Logins \union {Guest}]
    BY <1>1, <1>2 DEF PoolInv, PoolTypeOK
  <2>4. pc' \in {"idle", "connect"} /\ cur' \in 0 .. MaxConns /\ count' \in 0 .. RetryCount
    BY DEF PoolInv, PoolTypeOK, Conns
  <2>5. /\ plist' \in [Pids -> 0 .. MaxConns] /\ conns' \in 0 .. MaxConns
        /\ made' \in [Conns -> Args] /\ login' \in [Conns -> Logins]
        /\ object' \in [Objects -> 0 .. MaxConns]
    BY DEF PoolInv, PoolTypeOK, connVars
  <2> QED
    BY <2>1, <2>2, <2>3, <2>4, <2>5 DEF PoolTypeOK
<1>5. /\ MadeInv'
      /\ \A j \in Conns : NameAgain(j)' = NameAgain(j) /\ OrigLogin(j)' = OrigLogin(j)
  <2>1. \A j \in Conns : j > conns => stream'[j] = 0
    BY <1>3 DEF PoolInv, MadeInv
  <2>2. Connecting' => cur' \in Conns /\ cur' <= conns
    BY DEF Connecting, PoolInv, MadeInv
  <2>3. stream' \in [Conns -> 0 .. MaxStreams]
    BY <1>4 DEF PoolTypeOK
  <2> QED
    BY <2>1, <2>2, <2>3, MadeKept DEF connVars
<1>6. NamesInv'
  <2>1. \A j \in Conns : pid'[j] # NoPid => LoginOf(pid'[j]) = OrigLogin(j)'
    BY <1>3, <1>5 DEF PoolInv, NamesInv
  <2>2. /\ \A id \in Pids : pstreams'[id] # 0 => id \in Logins
        /\ \A i, j \in Pids : pstreams'[i] = pstreams'[j] /\ pstreams'[i] # 0 => i = j
    BY <1>3 DEF PoolInv, NamesInv
  <2>3. \A id \in Pids, j \in Conns :
           pstreams'[id] = stream'[j] /\ stream'[j] # 0 => LoginOf(id) = OrigLogin(j)'
    BY <1>3, <1>5 DEF PoolInv, NamesInv
  <2>4. (\A id \in Pids : pstreams'[id] <= streams') /\ (\A j \in Conns : stream'[j] <= streams')
    BY <1>2, <1>3, NoStreamIsZero DEF PoolInv, NamesInv
  <2>5. LoginsKeptApart'
    BY <1>3, <1>5 DEF PoolInv, NamesInv, LoginsKeptApart
  <2> QED
    BY <2>1, <2>2, <2>3, <2>4, <2>5 DEF NamesInv
<1>7. \A j \in Conns : stream'[j] \in alive' =>
          j # k /\ stream[j] \in alive /\ stream[j] # stream[k] /\ stream[j] \notin gone
  BY <1>1, <1>2, <1>3, NoStreamIsZero
<1>8. AliveInv'
  <2>1. ASSUME NEW s \in alive' PROVE \E j \in Conns : stream'[j] = s
    <3>1. s \in alive /\ s \notin gone
      BY <1>2
    <3>2. PICK j \in Conns : stream[j] = s
      BY <3>1 DEF PoolInv, AliveInv
    <3> QED
      BY <3>1, <3>2, <1>1, <1>3, NoStreamIsZero
  <2>2. ASSUME NEW j \in Conns, stream'[j] \in alive'
        PROVE  pstreams'[NameAgain(j)'] = stream'[j]
    <3>1. pstreams[NameAgain(j)] = stream[j]
      BY <2>2, <1>7 DEF PoolInv, AliveInv
    <3>2. NameAgain(j) \in Pids
      BY NameAgainTyped DEF PoolInv
    <3> QED
      BY <2>2, <3>1, <3>2, <1>3, <1>5, <1>7
  <2> QED
    BY <2>1, <2>2, <1>2 DEF PoolInv, AliveInv
<1>9. LoginInv'
  <2>1. pc' = "connect" => stream'[cur'] = 0
    BY <1>3
  <2>2. ASSUME NEW j \in Conns, stream'[j] \in alive', ~Shared(j)'
        PROVE  session'[stream'[j]] = login'[j]
    <3>1. ~Shared(j)
      BY <2>2, <1>3, <1>7 DEF Shared
    <3>2. Opening => j # cur
      BY <2>2, <1>7 DEF Opening
    <3> QED
      BY <2>2, <3>1, <3>2, <1>2, <1>3, <1>7 DEF PoolInv, LoginInv, connVars
  <2> QED
    BY <2>1, <2>2 DEF LoginInv
<1> QED
  BY <1>4, <1>5, <1>6, <1>8, <1>9 DEF PoolInv

LEMMA ClosingKept ==
    ASSUME PoolInv,
           \/ \E o \in Objects : Reconnect(o) \/ RequestFails(o)
           \/ LogInFails
    PROVE  PoolInv'
<1>1. ASSUME NEW o \in Objects, Reconnect(o) PROVE PoolInv'
  BY <1>1, HeldObject, CloseKept DEF Reconnect
<1>2. ASSUME NEW o \in Objects, RequestFails(o) PROVE PoolInv'
  BY <1>2, HeldObject, CloseKept DEF RequestFails, pathVars
<1>3. CASE LogInFails
  <2>1. cur \in Conns /\ cur <= conns
    BY <1>3 DEF LogInFails, PoolInv, MadeInv, Connecting
  <2> QED
    BY <1>3, <2>1, CloseKept DEF LogInFails
<1> QED
  BY <1>1, <1>2, <1>3

(***************************************************************************)
(* Steps that leave every stream with the connections that have it.        *)
(***************************************************************************)
LEMMA SameStreamsKept ==
    ASSUME PoolInv, PoolTypeOK',
           UNCHANGED <<plist, conns, made, object, pstreams, pid, stream, streams>>,
           alive' \subseteq alive,
           Connecting' => cur' \in Conns /\ cur' <= conns,
           LoginInv'
    PROVE  PoolInv'
<1>1. /\ MadeInv'
      /\ \A j \in Conns : NameAgain(j)' = NameAgain(j) /\ OrigLogin(j)' = OrigLogin(j)
  BY MadeKept DEF PoolInv, PoolTypeOK, MadeInv
<1>2. NamesInv'
  BY <1>1 DEF PoolInv, NamesInv, LoginsKeptApart
<1>3. AliveInv'
  BY <1>1 DEF PoolInv, AliveInv
<1> QED
  BY <1>1, <1>2, <1>3 DEF PoolInv

LEMMA CallsKept ==
    ASSUME PoolInv, NEW o \in Objects,
           \/ Connect(o) \/ UseFreed(o)
           \/ \E l \in Logins : Authenticate(o, l)
    PROVE  PoolInv'
<1> USE PoolAssumption
<1>1. CASE Connect(o)
  <2>1. object[o] \in Conns /\ object[o] <= conns /\ object[o] \in 0 .. MaxConns
    BY <1>1, HeldObject DEF Connect, Conns
  <2>2. PoolTypeOK'
    BY <1>1, <2>1 DEF Connect, PoolInv, PoolTypeOK, connVars, streamVars
  <2>3. LoginInv'
    BY <1>1 DEF Connect, PoolInv, LoginInv, Opening, Shared, connVars, streamVars
  <2> QED
    BY <1>1, <2>1, <2>2, <2>3, SameStreamsKept DEF Connect, connVars, streamVars
<1>2. CASE UseFreed(o)
  <2>1. PoolTypeOK'
    BY <1>2 DEF UseFreed, PoolInv, PoolTypeOK, connVars, streamVars
  <2>2. LoginInv'
    BY <1>2 DEF UseFreed, PoolInv, LoginInv, Opening, Shared, connVars, streamVars
  <2> QED
    BY <1>2, <2>1, <2>2, SameStreamsKept DEF UseFreed, connVars, streamVars, Connecting
<1>3. CASE \E l \in Logins : Authenticate(o, l)
  <2>1. PICK l \in Logins : Authenticate(o, l)
    BY <1>3
  <2>2. object[o] \in Conns /\ object[o] <= conns /\ object[o] \in 0 .. MaxConns
    BY <2>1, HeldObject DEF Authenticate, Conns
  <2>3. PoolTypeOK'
    BY <2>1, <2>2 DEF Authenticate, PoolInv, PoolTypeOK, streamVars
  <2>4. LoginInv'
    BY <2>1, <2>2 DEF Authenticate, PoolInv, PoolTypeOK, LoginInv, Opening, Shared, streamVars
  <2> QED
    BY <2>1, <2>2, <2>3, <2>4, SameStreamsKept DEF Authenticate, streamVars
<1> QED
  BY <1>1, <1>2, <1>3

LEMMA GreetingKept ==
    ASSUME PoolInv, GreetingRead \/ NoGreeting \/ GiveUp
    PROVE  PoolInv'
<1>1. PoolTypeOK'
  BY DEF GreetingRead, NoGreeting, GiveUp, PoolInv, PoolTypeOK, connVars, streamVars
<1>2. cur \in Conns /\ cur <= conns
  BY DEF GreetingRead, NoGreeting, GiveUp, PoolInv, MadeInv, Connecting
<1>3. LoginInv'
  <2>1. CASE GreetingRead
    BY <2>1 DEF GreetingRead, PoolInv, LoginInv, Opening, Shared, connVars
  <2>2. CASE NoGreeting
    BY <2>2 DEF NoGreeting, PoolInv, LoginInv, Opening, Shared, connVars, streamVars
  <2>3. CASE GiveUp
    BY <2>3 DEF GiveUp, PoolInv, LoginInv, Opening, Shared, connVars, streamVars
  <2> QED
    BY <2>1, <2>2, <2>3
<1> QED
  BY <1>1, <1>2, <1>3, SameStreamsKept
  DEF GreetingRead, NoGreeting, GiveUp, connVars, streamVars, Connecting

LEMMA LogInKept ==
    ASSUME PoolInv, LogIn
    PROVE  PoolInv'
<1>1. cur \in Conns /\ cur <= conns
  BY DEF LogIn, PoolInv, MadeInv, Connecting
<1>2. login[cur] \in Logins /\ stream[cur] \in Streams
  BY <1>1 DEF LogIn, PoolInv, PoolTypeOK
<1>3. /\ session'[stream[cur]] = login[cur]
      /\ \A s \in Streams : s # stream[cur] => session'[s] = session[s]
  BY <1>2 DEF LogIn, PoolInv, PoolTypeOK
<1>4. PoolTypeOK'
  BY <1>2 DEF LogIn, PoolInv, PoolTypeOK, connVars
<1>5. LoginInv'
  <2>1. ASSUME NEW k \in Conns, stream[k] \in alive, ~Shared(k)
        PROVE  session'[stream[k]] = login[k]
    <3>1. CASE k = cur
      BY <3>1, <1>3
    <3>2. CASE k # cur
      <4>1. stream[k] # stream[cur] /\ stream[k] \in Streams
        BY <1>1, <3>2, <2>1 DEF Shared, PoolInv, PoolTypeOK
      <4> QED
        BY <4>1, <1>3, <3>2, <2>1 DEF PoolInv, LoginInv
    <3> QED
      BY <3>1, <3>2
  <2> QED
    BY <2>1 DEF LogIn, LoginInv, Shared, connVars
<1> QED
  BY <1>4, <1>5, SameStreamsKept DEF LogIn, connVars, Connecting

LEMMA ServerClosesKept ==
    ASSUME PoolInv, NEW s \in Streams, ServerCloses(s)
    PROVE  PoolInv'
<1>1. PoolTypeOK'
  BY DEF ServerCloses, PoolInv, PoolTypeOK, connVars, pathVars
<1>2. LoginInv'
  BY DEF ServerCloses, PoolInv, LoginInv, Opening, Shared, connVars, pathVars
<1>3. Connecting' => cur' \in Conns /\ cur' <= conns
  BY DEF ServerCloses, PoolInv, MadeInv, Connecting, pathVars
<1> QED
  BY <1>1, <1>2, <1>3, SameStreamsKept DEF ServerCloses, connVars

(***************************************************************************)
(* The steps of __tarantool_connect that look a name up.                   *)
(***************************************************************************)
LEMMA NameNowTyped ==
    ASSUME PoolInv, NEW k \in Conns
    PROVE  /\ NameNow(k) \in Pids /\ LoginOf(NameNow(k)) = OrigLogin(k)
           /\ pstreams[NameNow(k)] # 0 => NameNow(k) = NameAgain(k)
<1>1. NameNow(k) \in Pids /\ LoginOf(NameNow(k)) = OrigLogin(k)
  BY NameAgainTyped DEF NameNow, PoolInv, PoolTypeOK, NamesInv
<1>2. pstreams[NameNow(k)] # 0 => NameNow(k) \in Logins
  BY <1>1 DEF PoolInv, NamesInv
<1>3. NameNow(k) \in Logins => LoginOf(NameNow(k)) = NameNow(k) /\ NameAgain(k) = OrigLogin(k)
  BY NameAgainTyped, PidsTyped DEF PoolInv, NameAgain
<1> QED
  BY <1>1, <1>2, <1>3

(***************************************************************************)
(* One connection gets the stream under its own name.                      *)
(***************************************************************************)
LEMMA TakenKept ==
    ASSUME PoolInv, NEW k \in Conns, k <= conns, NEW p \in Streams,
           pstreams[NameAgain(k)] = p,
           stream[k] \in alive => stream[k] = p,
           stream' = [stream EXCEPT ![k] = p],
           pid' = [pid EXCEPT ![k] = NameAgain(k)],
           UNCHANGED <<connVars, pstreams, object, cur, streamVars>>, cur = k
    PROVE  /\ MadeInv' /\ NamesInv' /\ AliveInv'
           /\ \A j \in Conns : j # k /\ Shared(j) /\ stream[j] \in alive => Shared(j)'
           /\ (\E j \in Conns : j # k /\ stream[j] = p) => Shared(k)'
           /\ stream'[k] = p /\ \A j \in Conns : j # k => stream'[j] = stream[j]
<1> USE PoolAssumption
<1> DEFINE n == NameAgain(k)
<1>1. n \in Pids /\ LoginOf(n) = OrigLogin(k) /\ n \in Logins
  BY NameAgainTyped DEF PoolInv
<1> HIDE DEF n
<1>2. p # 0 /\ p \in 0 .. MaxStreams
  BY DEF Streams
<1>3. /\ stream'[k] = p /\ \A j \in Conns : j # k => stream'[j] = stream[j]
      /\ pid'[k] = n /\ \A j \in Conns : j # k => pid'[j] = pid[j]
      /\ stream' \in [Conns -> 0 .. MaxStreams]
  BY <1>2 DEF PoolInv, PoolTypeOK, n
<1>4. /\ MadeInv'
      /\ \A j \in Conns : NameAgain(j)' = NameAgain(j) /\ OrigLogin(j)' = OrigLogin(j)
  <2>1. \A j \in Conns : j > conns => stream'[j] = 0
    <3>1. k \in Nat /\ conns \in Nat
      BY NoStreamIsZero DEF Conns
    <3> QED
      BY <1>3, <3>1 DEF PoolInv, MadeInv
  <2>2. Connecting' => cur' \in Conns /\ cur' <= conns
    OBVIOUS
  <2> QED
    BY <1>3, <2>1, <2>2, MadeKept DEF connVars
<1>5. pstreams[n] = p
  BY DEF n
<1>6. \A i \in Pids : pstreams[i] = p => i = n
  BY <1>1, <1>2, <1>5 DEF PoolInv, NamesInv
<1>7. \A j \in Conns : stream[j] = p => OrigLogin(j) = OrigLogin(k)
  BY <1>1, <1>2, <1>5 DEF PoolInv, NamesInv
<1>8. NamesInv'
  <2>1. \A j \in Conns : pid'[j] # NoPid => LoginOf(pid'[j]) = OrigLogin(j)'
    BY <1>1, <1>3, <1>4 DEF PoolInv, NamesInv
  <2>2. /\ \A i \in Pids : pstreams'[i] # 0 => i \in Logins
        /\ \A i, j \in Pids : pstreams'[i] = pstreams'[j] /\ pstreams'[i] # 0 => i = j
        /\ \A i \in Pids : pstreams'[i] <= streams'
    BY DEF PoolInv, NamesInv, streamVars
  <2>3. \A i \in Pids, j \in Conns :
           pstreams'[i] = stream'[j] /\ stream'[j] # 0 => LoginOf(i) = OrigLogin(j)'
    BY <1>1, <1>3, <1>4, <1>6 DEF PoolInv, NamesInv
  <2>4. \A j \in Conns : stream'[j] <= streams'
    BY <1>1, <1>3, <1>5 DEF PoolInv, NamesInv, streamVars
  <2>5. LoginsKeptApart'
    BY <1>3, <1>4, <1>7 DEF PoolInv, NamesInv, LoginsKeptApart
  <2> QED
    BY <2>1, <2>2, <2>3, <2>4, <2>5 DEF NamesInv
<1>9. AliveInv'
  <2>1. ASSUME NEW s \in alive PROVE \E j \in Conns : stream'[j] = s
    <3>1. PICK j \in Conns : stream[j] = s
      BY DEF PoolInv, AliveInv
    <3> QED
      BY <3>1, <1>3
  <2>2. ASSUME NEW j \in Conns, stream'[j] \in alive
        PROVE  pstreams[NameAgain(j)] = stream'[j]
    BY <2>2, <1>3, <1>5 DEF PoolInv, AliveInv, n
  <2> QED
    BY <2>1, <2>2, <1>4 DEF PoolInv, AliveInv, streamVars
<1>10. \A j \in Conns : j # k /\ Shared(j) /\ stream[j] \in alive => Shared(j)'
  BY <1>3 DEF Shared
<1>11. (\E j \in Conns : j # k /\ stream[j] = p) => Shared(k)'
  BY <1>3 DEF Shared
<1> QED
  BY <1>3, <1>4, <1>8, <1>9, <1>10, <1>11

LEMMA LookedUpKept ==
    ASSUME PoolInv, TakeStream \/ NoStream
    PROVE  PoolInv'
<1> USE PoolAssumption
<1>1. cur \in Conns /\ cur <= conns /\ stream[cur] = 0 /\ pc = "connect"
  BY DEF TakeStream, NoStream, PoolInv, MadeInv, LoginInv, Connecting
<1>2. NameNow(cur) \in Pids /\ LoginOf(NameNow(cur)) = OrigLogin(cur)
  BY <1>1, NameNowTyped
<1>3. pstreams[NameNow(cur)] \in 0 .. MaxStreams
  BY <1>2 DEF PoolInv, PoolTypeOK
<1>4. CASE TakeStream
  <2> DEFINE p == pstreams[NameNow(cur)]
  <2>1. p \in Streams /\ NameNow(cur) = NameAgain(cur)
    BY <1>1, <1>3, <1>4, NameNowTyped DEF TakeStream, Streams
  <2>2. PoolTypeOK'
    BY <1>2, <1>3, <1>4 DEF TakeStream, PoolInv, PoolTypeOK, connVars, streamVars
  <2>3. /\ pid' = [pid EXCEPT ![cur] = NameAgain(cur)]
        /\ stream' = [stream EXCEPT ![cur] = p]
        /\ p = pstreams[NameAgain(cur)]
        /\ pc' = "idle"
        /\ UNCHANGED <<connVars, pstreams, object, cur, streamVars>>
    BY <1>4, <2>1 DEF TakeStream
  <2> HIDE DEF p
  <2>4. stream[cur] \in alive => stream[cur] = p
    BY <1>1, NoStreamIsZero
  <2>5. /\ MadeInv' /\ NamesInv' /\ AliveInv'
        /\ \A j \in Conns : j # cur /\ Shared(j) /\ stream[j] \in alive => Shared(j)'
        /\ (\E j \in Conns : j # cur /\ stream[j] = p) => Shared(cur)'
        /\ stream'[cur] = p /\ \A j \in Conns : j # cur => stream'[j] = stream[j]
    BY <1>1, <2>1, <2>3, <2>4, TakenKept
  <2>6. ASSUME NEW k \in Conns, stream'[k] \in alive, ~Shared(k)'
        PROVE  session[stream'[k]] = login[k]
    <3>1. CASE k = cur
      <4>1. PICK j \in Conns : stream[j] = p
        BY <3>1, <2>5, <2>6 DEF PoolInv, AliveInv
      <4>2. j # cur
        BY <4>1, <1>1, <2>1 DEF Streams
      <4>3. Shared(cur)'
        BY <4>1, <4>2, <2>5
      <4> QED
        BY <3>1, <4>3, <2>3, <2>6 DEF Shared
    <3>2. CASE k # cur
      <4>1. stream'[k] = stream[k] /\ stream[k] \in alive /\ ~Shared(k)
        BY <3>2, <2>5, <2>6
      <4> QED
        BY <4>1, <1>1 DEF PoolInv, LoginInv, Opening
    <3> QED
      BY <3>1, <3>2
  <2>7. LoginInv'
    BY <2>3, <2>6 DEF LoginInv, Opening, connVars, streamVars
  <2> QED
    BY <2>2, <2>5, <2>7 DEF PoolInv
<1>5. CASE NoStream
  <2>1. PoolTypeOK'
    <3>1. pid' \in [Conns -> Pids \union {NoPid}]
      BY <1>2, <1>5 DEF NoStream, PoolInv, PoolTypeOK
    <3>2. count' \in 0 .. RetryCount /\ pc' = "attempt"
      BY <1>5 DEF NoStream
    <3> QED
      BY <1>5, <3>1, <3>2 DEF NoStream, PoolInv, PoolTypeOK, connVars, streamVars
  <2>2. /\ MadeInv'
        /\ \A j \in Conns : NameAgain(j)' = NameAgain(j) /\ OrigLogin(j)' = OrigLogin(j)
    BY <1>1, <1>5, MadeKept DEF NoStream, PoolInv, PoolTypeOK, MadeInv, connVars
  <2>3. \A j \in Conns : pid'[j] # NoPid => LoginOf(pid'[j]) = OrigLogin(j)'
    BY <1>1, <1>2, <1>5, <2>2 DEF NoStream, PoolInv, PoolTypeOK, NamesInv
  <2>4. NamesInv'
    BY <1>5, <2>2, <2>3 DEF NoStream, PoolInv, NamesInv, LoginsKeptApart, streamVars
  <2>5. AliveInv'
    BY <1>5, <2>2 DEF NoStream, PoolInv, AliveInv, streamVars
  <2>6. LoginInv'
    BY <1>1, <1>5, NoStreamIsZero
    DEF NoStream, PoolInv, LoginInv, Opening, Shared, connVars, streamVars
  <2> QED
    BY <2>1, <2>2, <2>4, <2>5, <2>6 DEF PoolInv
<1> QED
  BY <1>4, <1>5

(***************************************************************************)
(* The attempts: what every one of them does to the names.                 *)
(***************************************************************************)
LEMMA AttemptNames ==
    ASSUME PoolInv, Attempt
    PROVE  /\ cur \in Conns /\ cur <= conns
           /\ NameAgain(cur) \in Pids /\ pstreams[NameAgain(cur)] \in 0 .. MaxStreams
           /\ pid' \in [Conns -> Pids \union {NoPid}]
           /\ pid'[cur] = NameAgain(cur)
           /\ \A j \in Conns : j # cur => pid'[j] = pid[j]
           /\ count' \in 0 .. RetryCount
<1>1. cur \in Conns /\ cur <= conns
  BY DEF Attempt, PoolInv, MadeInv, Connecting
<1>2. NameAgain(cur) \in Pids
  BY <1>1, NameAgainTyped DEF PoolInv
<1>3. pstreams[NameAgain(cur)] \in 0 .. MaxStreams
  BY <1>2 DEF PoolInv, PoolTypeOK
<1>4. count' \in 0 .. RetryCount
  BY PoolAssumption DEF Attempt, PoolInv, PoolTypeOK
<1>5. pid \in [Conns -> Pids \union {NoPid}] /\ pid' = [pid EXCEPT ![cur] = NameAgain(cur)]
  BY DEF Attempt, PoolInv, PoolTypeOK
<1> QED
  BY <1>1, <1>2, <1>3, <1>4, <1>5

LEMMA OpenKnownKept ==
    ASSUME PoolInv, OpenKnown
    PROVE  PoolInv'
<1> USE PoolAssumption
<1> DEFINE p == pstreams[NameAgain(cur)]
<1>1. Attempt /\ p \in alive /\ stream' = [stream EXCEPT ![cur] = p] /\ pc' = "greeting"
      /\ UNCHANGED <<pstreams, streamVars>> /\ p = pstreams[NameAgain(cur)]
  BY DEF OpenKnown
<1>2. cur \in Conns /\ cur <= conns /\ pc = "attempt"
      /\ pid' = [pid EXCEPT ![cur] = NameAgain(cur)] /\ UNCHANGED <<connVars, object, cur>>
  BY <1>1, AttemptNames DEF Attempt
<1>3. p \in Streams
  BY <1>1 DEF PoolInv, PoolTypeOK
<1> HIDE DEF p
<1>4. PoolTypeOK'
  <2>1. pid' \in [Conns -> Pids \union {NoPid}] /\ count' \in 0 .. RetryCount
    BY <1>1, AttemptNames
  <2>2. stream' \in [Conns -> 0 .. MaxStreams]
    <3>1. p \in 0 .. MaxStreams
      BY <1>3 DEF Streams
    <3> QED
      BY <3>1, <1>1 DEF PoolInv, PoolTypeOK
  <2> QED
    BY <1>1, <1>2, <2>1, <2>2 DEF PoolInv, PoolTypeOK, connVars, streamVars
<1>5. stream[cur] \in alive => stream[cur] = p
  BY <1>1, <1>2 DEF PoolInv, AliveInv
<1>6. /\ MadeInv' /\ NamesInv' /\ AliveInv'
      /\ \A j \in Conns : j # cur /\ Shared(j) /\ stream[j] \in alive => Shared(j)'
      /\ (\E j \in Conns : j # cur /\ stream[j] = p) => Shared(cur)'
      /\ stream'[cur] = p /\ \A j \in Conns : j # cur => stream'[j] = stream[j]
  BY <1>1, <1>2, <1>3, <1>5, TakenKept
<1>7. Shared(cur)'
  <2>1. PICK j \in Conns : stream[j] = p
    BY <1>1 DEF PoolInv, AliveInv
  <2>2. CASE j = cur
    <3>1. Shared(cur)
      BY <1>1, <1>2, <2>1, <2>2 DEF PoolInv, LoginInv
    <3> QED
      BY <1>6, <2>1, <2>2, <3>1 DEF Shared
  <2>3. CASE j # cur
    BY <1>6, <2>1, <2>3
  <2> QED
    BY <2>2, <2>3
<1>8. ASSUME NEW k \in Conns, k # cur, stream'[k] \in alive, ~Shared(k)'
      PROVE  session[stream'[k]] = login[k]
  <2>1. stream'[k] = stream[k] /\ stream[k] \in alive /\ ~Shared(k)
    BY <1>6, <1>8
  <2> QED
    BY <1>8, <2>1 DEF PoolInv, LoginInv
<1>9. LoginInv'
  BY <1>1, <1>2, <1>7, <1>8 DEF LoginInv, Opening, connVars, streamVars
<1> QED
  BY <1>4, <1>6, <1>9 DEF PoolInv

LEMMA OpenFailsKept ==
    ASSUME PoolInv, OpenFails
    PROVE  PoolInv'
<1> USE PoolAssumption
<1> DEFINE gone == {pstreams[NameAgain(cur)]} \ {0}
<1>1. /\ Attempt /\ Free(gone) /\ pc' = "attempt" /\ UNCHANGED stream
      /\ pc = "attempt" /\ UNCHANGED <<connVars, object, cur>>
  BY DEF OpenFails, Attempt
<1>2. gone \subseteq Streams /\ gone \intersect alive = {}
  BY <1>1, AttemptNames DEF OpenFails, Streams
<1> HIDE DEF gone
<1>3. /\ \A id \in Pids : pstreams'[id] = IF pstreams[id] \in gone THEN 0 ELSE pstreams[id]
      /\ pstreams' \in [Pids -> 0 .. MaxStreams]
      /\ alive' = alive /\ UNCHANGED <<streams, greetings, session>>
      /\ freed' = freed \union gone
  BY <1>1, <1>2 DEF Free, PoolInv, PoolTypeOK
<1>4. PoolTypeOK'
  BY <1>1, <1>2, <1>3, AttemptNames DEF PoolInv, PoolTypeOK, connVars
<1>5. /\ MadeInv'
      /\ \A j \in Conns : NameAgain(j)' = NameAgain(j) /\ OrigLogin(j)' = OrigLogin(j)
  BY <1>1, AttemptNames, MadeKept DEF PoolInv, PoolTypeOK, MadeInv, connVars
<1>6. NamesInv'
  <2>1. \A j \in Conns : pid'[j] # NoPid => LoginOf(pid'[j]) = OrigLogin(j)'
    BY <1>1, <1>5, AttemptNames, NameAgainTyped DEF PoolInv, NamesInv
  <2>2. /\ \A id \in Pids : pstreams'[id] # 0 => id \in Logins
        /\ \A i, j \in Pids : pstreams'[i] = pstreams'[j] /\ pstreams'[i] # 0 => i = j
    BY <1>3 DEF PoolInv, NamesInv
  <2>3. \A id \in Pids, j \in Conns :
           pstreams'[id] = stream'[j] /\ stream'[j] # 0 => LoginOf(id) = OrigLogin(j)'
    BY <1>1, <1>3, <1>5 DEF PoolInv, NamesInv
  <2>4. (\A id \in Pids : pstreams'[id] <= streams') /\ (\A j \in Conns : stream'[j] <= streams')
    BY <1>1, <1>3, NoStreamIsZero DEF PoolInv, NamesInv
  <2>5. LoginsKeptApart'
    BY <1>1, <1>5 DEF PoolInv, NamesInv, LoginsKeptApart
  <2> QED
    BY <2>1, <2>2, <2>3, <2>4, <2>5 DEF NamesInv
<1>7. AliveInv'
  <2>1. ASSUME NEW j \in Conns, stream[j] \in alive PROVE pstreams'[NameAgain(j)] = stream[j]
    <3>1. pstreams[NameAgain(j)] = stream[j] /\ NameAgain(j) \in Pids
      BY <2>1, NameAgainTyped DEF PoolInv, AliveInv
    <3> QED
      BY <2>1, <3>1, <1>2, <1>3
  <2> QED
    BY <1>1, <1>3, <1>5, <2>1 DEF PoolInv, AliveInv
<1>8. LoginInv'
  BY <1>1, <1>3 DEF PoolInv, LoginInv, Opening, Shared, connVars
<1> QED
  BY <1>4, <1>5, <1>6, <1>7, <1>8 DEF PoolInv

LEMMA OpenNewKept ==
    ASSUME PoolInv, OpenNew
    PROVE  PoolInv'
<1> USE PoolAssumption
<1> DEFINE s == streams + 1
           n == NameAgain(cur)
<1>1. /\ Attempt /\ pstreams[n] \notin alive /\ pc' = "greeting" /\ UNCHANGED session
      /\ streams' = s
      /\ pstreams' = [pstreams EXCEPT ![n] = s]
      /\ alive' = alive \union {s}
      /\ greetings' = greetings \union {s}
      /\ stream' = [stream EXCEPT ![cur] = s]
      /\ freed' = freed \union ({pstreams[n]} \ {0})
      /\ pc = "attempt" /\ UNCHANGED <<connVars, object, cur>>
  BY DEF OpenNew, Attempt
<1>2. /\ s \in Streams /\ s \in 0 .. MaxStreams /\ s # 0
      /\ \A t \in 0 .. MaxStreams : t <= streams => t # s /\ t <= s
  BY DEF OpenNew, PoolInv, PoolTypeOK, Streams
<1>3. n \in Pids /\ LoginOf(n) = OrigLogin(cur) /\ n \in Logins /\ cur \in Conns /\ cur <= conns
      /\ pstreams[n] \in 0 .. MaxStreams
  BY <1>1, AttemptNames, NameAgainTyped DEF PoolInv
<1>4. 1 .. s = 1 .. streams \union {s}
  BY NoStreamIsZero
<1>5. \A t \in alive : t \in 0 .. MaxStreams /\ t <= streams /\ t # s
  BY <1>2, NoStreamIsZero DEF PoolInv, PoolTypeOK, AliveInv, Streams
<1>6. stream[cur] \notin alive
  BY <1>1, <1>3 DEF PoolInv, AliveInv
<1>7. \A j \in Conns : NameAgain(j)' = NameAgain(j) /\ OrigLogin(j)' = OrigLogin(j)
  BY <1>1 DEF NameAgain, OrigLogin, connVars
<1>8. \A j \in Conns : stream[j] \in 0 .. MaxStreams /\ stream[j] <= streams
  BY DEF PoolInv, PoolTypeOK, NamesInv
<1>9. \A i \in Pids : pstreams[i] \in 0 .. MaxStreams /\ pstreams[i] <= streams
  BY DEF PoolInv, PoolTypeOK, NamesInv
<1>n. \A j \in Conns : NameAgain(j) = n => pstreams[NameAgain(j)] \notin alive
  BY <1>1
<1> HIDE DEF s, n
<1>10. /\ stream'[cur] = s /\ \A j \in Conns : j # cur => stream'[j] = stream[j]
       /\ stream' \in [Conns -> 0 .. MaxStreams]
       /\ pstreams'[n] = s /\ \A i \in Pids : i # n => pstreams'[i] = pstreams[i]
       /\ pstreams' \in [Pids -> 0 .. MaxStreams]
  BY <1>1, <1>2, <1>3 DEF PoolInv, PoolTypeOK
<1>11. PoolTypeOK'
  <2>1. pid' \in [Conns -> Pids \union {NoPid}] /\ count' \in 0 .. RetryCount
    BY <1>1, AttemptNames
  <2>2. alive' \subseteq Streams /\ freed' \subseteq Streams /\ greetings' \subseteq Streams
    <3>1. {pstreams[n]} \ {0} \subseteq Streams
      BY <1>3 DEF Streams
    <3> QED
      BY <1>1, <1>2, <3>1 DEF PoolInv, PoolTypeOK
  <2> QED
    BY <1>1, <1>2, <1>10, <2>1, <2>2 DEF PoolInv, PoolTypeOK, connVars
<1>12. MadeInv'
  <2>1. ASSUME NEW j \in Conns, j > conns PROVE stream'[j] = 0
    <3>1. cur \in Nat /\ conns \in Nat /\ j \in Nat
      BY <1>3, NoStreamIsZero DEF Conns
    <3>2. j # cur
      BY <3>1, <2>1, <1>3
    <3> QED
      BY <2>1, <1>10, <3>2 DEF PoolInv, MadeInv
  <2>2. Connecting' => cur' \in Conns /\ cur' <= conns
    BY <1>1, <1>3
  <2> QED
    BY <1>1, <1>10, <2>1, <2>2, MadeKept DEF connVars
<1>13. NamesInv'
  <2>1. \A j \in Conns : pid'[j] # NoPid => LoginOf(pid'[j]) = OrigLogin(j)'
    BY <1>1, <1>7, AttemptNames, NameAgainTyped DEF PoolInv, NamesInv
  <2>2. \A i \in Pids : pstreams'[i] # 0 => i \in Logins
    BY <1>3, <1>10 DEF PoolInv, NamesInv
  <2>3. \A i, j \in Pids : pstreams'[i] = pstreams'[j] /\ pstreams'[i] # 0 => i = j
    <3>1. \A i, j \in Pids : pstreams[i] = pstreams[j] /\ pstreams[i] # 0 => i = j
      BY DEF PoolInv, NamesInv
    <3> QED
      BY <3>1, <1>2, <1>3, <1>9, <1>10
  <2>4. ASSUME NEW i \in Pids, NEW j \in Conns, pstreams'[i] = stream'[j], stream'[j] # 0
        PROVE  LoginOf(i) = OrigLogin(j)'
    <3>1. CASE i = n /\ j = cur
      BY <3>1, <1>3, <1>7
    <3>2. CASE i = n /\ j # cur
      BY <3>2, <2>4, <1>2, <1>8, <1>10
    <3>3. CASE i # n /\ j = cur
      BY <3>3, <2>4, <1>2, <1>9, <1>10
    <3>4. CASE i # n /\ j # cur
      BY <3>4, <2>4, <1>7, <1>10 DEF PoolInv, NamesInv
    <3> QED
      BY <3>1, <3>2, <3>3, <3>4
  <2>5. (\A i \in Pids : pstreams'[i] <= streams') /\ (\A j \in Conns : stream'[j] <= streams')
    BY <1>1, <1>2, <1>8, <1>9, <1>10
  <2>6. LoginsKeptApart'
    BY <1>2, <1>7, <1>8, <1>10 DEF PoolInv, NamesInv, LoginsKeptApart
  <2> QED
    BY <2>1, <2>2, <2>3, <2>4, <2>5, <2>6 DEF NamesInv
<1>14. \A j \in Conns : stream'[j] \in alive' /\ j # cur =>
           stream'[j] = stream[j] /\ stream[j] \in alive
  BY <1>1, <1>2, <1>8, <1>10
<1>15. AliveInv'
  <2>1. alive' \subseteq 1 .. streams'
    BY <1>1, <1>4 DEF PoolInv, AliveInv
  <2>2. ASSUME NEW t \in alive' PROVE \E j \in Conns : stream'[j] = t
    <3>1. CASE t = s
      BY <3>1, <1>3, <1>10
    <3>2. CASE t # s
      <4>1. PICK j \in Conns : stream[j] = t
        BY <3>2, <1>1 DEF PoolInv, AliveInv
      <4>2. j # cur
        BY <3>2, <4>1, <1>1, <1>6
      <4> QED
        BY <4>1, <4>2, <1>10
    <3> QED
      BY <3>1, <3>2
  <2>3. ASSUME NEW j \in Conns, stream'[j] \in alive'
        PROVE  pstreams'[NameAgain(j)'] = stream'[j]
    <3>1. CASE j = cur
      BY <3>1, <1>7, <1>10 DEF n
    <3>2. CASE j # cur
      <4>1. stream'[j] = stream[j] /\ stream[j] \in alive
        BY <3>2, <2>3, <1>14
      <4>2. pstreams[NameAgain(j)] = stream[j] /\ NameAgain(j) \in Pids
        BY <4>1, NameAgainTyped DEF PoolInv, AliveInv
      <4> QED
        BY <4>1, <4>2, <1>n, <1>7, <1>10
    <3> QED
      BY <3>1, <3>2
  <2> QED
    BY <2>1, <2>2, <2>3 DEF AliveInv
<1>16. LoginInv'
  <2>1. ASSUME NEW j \in Conns, j # cur, stream'[j] \in alive', ~Shared(j)'
        PROVE  session'[stream'[j]] = login'[j]
    <3>1. stream'[j] = stream[j] /\ stream[j] \in alive
      BY <2>1, <1>14
    <3>2. ~Shared(j)
      BY <2>1, <3>1, <1>6, <1>10 DEF Shared
    <3> QED
      BY <2>1, <3>1, <3>2, <1>1 DEF PoolInv, LoginInv, connVars
  <2>2. stream'[cur'] \notin alive' \ greetings'
    BY <1>1, <1>10
  <2> QED
    BY <1>1, <2>1, <2>2 DEF LoginInv, Opening
<1> QED
  BY <1>11, <1>12, <1>13, <1>15, <1>16 DEF PoolInv

LEMMA PoolInvariant == Spec => []PoolInv
<1>1. ASSUME PoolInv, [Next]_vars PROVE PoolInv'
  <2>1. ASSUME NEW o \in Objects, NEW l \in Logins, NEW x \in Suffixes \union {NoSuffix},
               ConstructFound(o, l, x) \/ ConstructNew(o, l, x)
        PROVE  PoolInv'
    BY <1>1, <2>1, ConstructKept
  <2>2. ASSUME NEW o \in Objects, Drop(o) PROVE PoolInv'
    <3>1. \E l \in Logins : TRUE
      <4>1. object[o] \in Conns
        BY <1>1, <2>2, HeldObject DEF Drop
      <4> QED
        BY <1>1, <4>1 DEF PoolInv, PoolTypeOK
    <3> QED
      BY <1>1, <2>2, <3>1, ConstructKept
  <2>3. ASSUME NEW o \in Objects, Connect(o) \/ UseFreed(o) \/ \E l \in Logins : Authenticate(o, l)
        PROVE  PoolInv'
    BY <1>1, <2>3, CallsKept
  <2>4. ASSUME NEW o \in Objects, Reconnect(o) \/ RequestFails(o) PROVE PoolInv'
    BY <1>1, <2>4, ClosingKept
  <2>5. CASE LogInFails
    BY <1>1, <2>5, ClosingKept
  <2>6. CASE TakeStream \/ NoStream
    BY <1>1, <2>6, LookedUpKept
  <2>7. CASE OpenKnown
    BY <1>1, <2>7, OpenKnownKept
  <2>8. CASE OpenNew
    BY <1>1, <2>8, OpenNewKept
  <2>9. CASE OpenFails
    BY <1>1, <2>9, OpenFailsKept
  <2>10. CASE GreetingRead \/ NoGreeting \/ GiveUp
    BY <1>1, <2>10, GreetingKept
  <2>11. CASE LogIn
    BY <1>1, <2>11, LogInKept
  <2>12. ASSUME NEW s \in Streams, ServerCloses(s) PROVE PoolInv'
    BY <1>1, <2>12, ServerClosesKept
  <2>13. CASE UNCHANGED vars
    BY <1>1, <2>13 DEF PoolInv, PoolTypeOK, MadeInv, NamesInv, AliveInv, LoginInv,
        LoginsKeptApart, Connecting, Opening, Shared, NameAgain, OrigLogin,
        vars, connVars, pathVars, streamVars
  <2> QED
    BY <1>1, <2>1, <2>2, <2>3, <2>4, <2>5, <2>6, <2>7, <2>8, <2>9, <2>10, <2>11, <2>12, <2>13
    DEF Next
<1> QED
  BY <1>1, PoolInitially, PTL DEF Spec

(***************************************************************************)
(* What PHP has freed.  No name leads to it; and a connect that goes on    *)
(* from an earlier attempt has that attempt's stream, whose greeting was   *)
(* not read unless another connection read it.                             *)
(***************************************************************************)
Tried == pc \in {"attempt", "greeting"} /\ stream[cur] # 0
             => stream[cur] \in greetings \/ Twin(cur)

FreedInv ==
    /\ freed \subseteq 1 .. streams
    /\ \A id \in Pids : pstreams[id] \notin freed
    /\ Tried
    /\ FreedByTwin

(***************************************************************************)
(* Whoever has the stream of a connection, or the stream under a name it   *)
(* goes by, was made for the same login.                                   *)
(***************************************************************************)
LEMMA TwinOf ==
    ASSUME PoolInv, NEW j \in Conns, NEW k \in Conns, j # k, k <= conns,
           OrigLogin(j) = OrigLogin(k)
    PROVE  Twin(j)
BY NoStreamIsZero DEF Twin, Conns

LEMMA HeldByTwin ==
    ASSUME PoolInv, NEW j \in Conns, NEW k \in Conns, j # k, k <= conns,
           stream[j] # 0,
           \/ stream[j] = stream[k]
           \/ \E id \in Pids : LoginOf(id) = OrigLogin(k) /\ pstreams[id] = stream[j]
    PROVE  Twin(j)
<1>1. OrigLogin(j) = OrigLogin(k)
  BY DEF PoolInv, NamesInv, LoginsKeptApart
<1> QED
  BY <1>1, TwinOf

LEMMA AliveIsNotFreed ==
    ASSUME PoolInv, FreedInv
    PROVE  alive \intersect freed = {} /\ 0 \notin freed
<1>1. ASSUME NEW s \in alive PROVE s \notin freed
  <2>1. PICK k \in Conns : stream[k] = s
    BY DEF PoolInv, AliveInv
  <2>2. pstreams[NameAgain(k)] = s /\ NameAgain(k) \in Pids
    BY <2>1, NameAgainTyped DEF PoolInv, AliveInv
  <2> QED
    BY <2>2 DEF FreedInv
<1> QED
  BY <1>1, NoStreamIsZero DEF FreedInv

(***************************************************************************)
(* Steps that free nothing and give no connection another stream.          *)
(***************************************************************************)
LEMMA SameFreed ==
    ASSUME PoolInv, FreedInv, Tried',
           UNCHANGED <<conns, made, pstreams, stream, streams, freed>>,
           \A s \in freed : s \in greetings => s \in greetings'
    PROVE  FreedInv'
BY DEF FreedInv, FreedByTwin, Twin, OrigLogin

LEMMA FreeKept ==
    ASSUME PoolInv, FreedInv, NEW k \in Conns, k <= conns, NEW gone, Free(gone),
           0 \notin gone,
           \A s \in gone : \/ s = stream[k]
                           \/ \E id \in Pids : LoginOf(id) = OrigLogin(k) /\ pstreams[id] = s,
           UNCHANGED <<conns, made>>,
           \A j \in Conns : j # k => stream'[j] = stream[j],
           stream'[k] \notin freed' \/ stream'[k] \in greetings \/ Twin(k),
           Tried'
    PROVE  FreedInv'
<1>1. /\ \A id \in Pids : pstreams'[id] = IF pstreams[id] \in gone THEN 0 ELSE pstreams[id]
      /\ freed' = freed \union gone /\ streams' = streams /\ greetings' = greetings
  BY DEF Free
<1>2. gone \subseteq 1 .. streams
  <2>1. ASSUME NEW s \in gone PROVE s \in 1 .. streams
    <3>1. s \in 0 .. MaxStreams /\ s <= streams /\ s # 0
      BY <2>1 DEF PoolInv, PoolTypeOK, NamesInv
    <3> QED
      BY <3>1, NoStreamIsZero
  <2> QED
    BY <2>1
<1>3. \A id \in Pids : pstreams'[id] \notin freed'
  <2>1. 0 \notin freed' /\ \A id \in Pids : pstreams[id] \notin freed
    BY <1>1, <1>2 DEF FreedInv
  <2> QED
    BY <1>1, <2>1
<1>4. \A j \in Conns : Twin(j) => Twin(j)'
  BY DEF Twin, OrigLogin
<1>5. ASSUME NEW j \in Conns, stream'[j] \in freed'
      PROVE  stream'[j] \in greetings' \/ Twin(j)'
  <2>1. CASE j = k
    BY <1>1, <1>4, <1>5, <2>1
  <2>2. CASE j # k /\ stream[j] \in freed
    BY <1>1, <1>4, <2>2 DEF FreedInv, FreedByTwin
  <2>3. CASE j # k /\ stream[j] \in gone
    <3>1. Twin(j)
      BY <2>3, HeldByTwin
    <3> QED
      BY <3>1, <1>4
  <2> QED
    BY <1>1, <1>5, <2>1, <2>2, <2>3
<1> QED
  BY <1>1, <1>2, <1>3, <1>5 DEF FreedInv, FreedByTwin

LEMMA FreedInitially == Init => FreedInv
BY PoolAssumption DEF Init, FreedInv, Tried, FreedByTwin

(***************************************************************************)
(* A close of one's own.                                                   *)
(***************************************************************************)
LEMMA CloseFrees ==
    ASSUME PoolInv, FreedInv, NEW k \in Conns, k <= conns, StreamClose(k),
           UNCHANGED connVars, pc' \in {"idle", "connect"}
    PROVE  FreedInv'
<1>1. Free(Closes(k)) /\ stream' = [stream EXCEPT ![k] = 0] /\ UNCHANGED <<conns, made>>
  BY DEF StreamClose, connVars
<1>2. stream'[k] = 0 /\ \A j \in Conns : j # k => stream'[j] = stream[j]
  BY <1>1 DEF PoolInv, PoolTypeOK
<1>3. \/ stream[k] # 0 /\ Closes(k) = {stream[k]}
      \/ Closes(k) = {}
      \/ pid[k] \in Pids /\ LoginOf(pid[k]) = OrigLogin(k)
         /\ Closes(k) = {pstreams[pid[k]]} \ {0}
  BY DEF Closes, PoolInv, PoolTypeOK, NamesInv
<1>4. /\ 0 \notin Closes(k)
      /\ \A s \in Closes(k) :
            \/ s = stream[k]
            \/ \E id \in Pids : LoginOf(id) = OrigLogin(k) /\ pstreams[id] = s
  BY <1>3
<1>5. Tried'
  BY DEF Tried
<1>6. 0 \notin freed'
  BY <1>1, <1>4, AliveIsNotFreed DEF Free
<1> QED
  BY <1>1, <1>2, <1>4, <1>5, <1>6, FreeKept

(***************************************************************************)
(* The steps of a connect.                                                 *)
(***************************************************************************)
LEMMA ConnectFrees ==
    ASSUME PoolInv, FreedInv,
           \/ TakeStream \/ NoStream \/ OpenKnown \/ OpenNew \/ OpenFails
           \/ GreetingRead \/ NoGreeting
    PROVE  FreedInv'
<1>1. cur \in Conns /\ cur <= conns
  BY DEF TakeStream, NoStream, OpenKnown, OpenNew, OpenFails, Attempt, GreetingRead,
         NoGreeting, PoolInv, MadeInv, Connecting
<1>2. stream \in [Conns -> 0 .. MaxStreams]
  BY DEF PoolInv, PoolTypeOK
<1>3. NameAgain(cur) \in Pids /\ LoginOf(NameAgain(cur)) = OrigLogin(cur)
  BY <1>1, NameAgainTyped DEF PoolInv
<1>4. CASE TakeStream
  <2>1. NameNow(cur) \in Pids
    BY <1>1, NameNowTyped
  <2>2. /\ UNCHANGED <<conns, made, pstreams, streams, freed, greetings>> /\ pc' = "idle"
        /\ stream' = [stream EXCEPT ![cur] = pstreams[NameNow(cur)]]
    BY <1>4 DEF TakeStream, connVars, streamVars
  <2>3. /\ stream'[cur] = pstreams[NameNow(cur)]
        /\ \A j \in Conns : j # cur => stream'[j] = stream[j]
    BY <2>2, <1>1, <1>2
  <2>4. stream'[cur] \notin freed
    BY <2>1, <2>3 DEF FreedInv
  <2> QED
    BY <2>2, <2>3, <2>4 DEF FreedInv, FreedByTwin, Tried, Twin, OrigLogin
<1>5. CASE NoStream
  <2>1. stream[cur] = 0
    BY <1>5 DEF NoStream, PoolInv, LoginInv
  <2>2. Tried'
    BY <1>5, <2>1 DEF NoStream, Tried
  <2> QED
    BY <1>5, <2>2, SameFreed DEF NoStream, connVars, streamVars
<1>6. CASE OpenKnown
  <2> DEFINE p == pstreams[NameAgain(cur)]
  <2>1. /\ UNCHANGED <<conns, made, pstreams, streams, freed, greetings, cur>>
        /\ stream' = [stream EXCEPT ![cur] = p] /\ p \in alive /\ pc = "attempt"
    BY <1>6 DEF OpenKnown, Attempt, connVars, streamVars
  <2>2. /\ stream'[cur] = p /\ \A j \in Conns : j # cur => stream'[j] = stream[j]
    BY <2>1, <1>1, <1>2
  <2>3. p \notin freed /\ p # 0
    BY <2>1, AliveIsNotFreed, NoStreamIsZero
  <2>4. p \in greetings \/ Twin(cur)
    <3>1. PICK j \in Conns : stream[j] = p
      BY <2>1 DEF PoolInv, AliveInv
    <3>2. CASE j = cur
      BY <3>1, <3>2, <2>1, <2>3 DEF FreedInv, Tried
    <3>3. CASE j # cur
      <4>1. OrigLogin(j) = OrigLogin(cur)
        BY <1>1, <1>3, <2>3, <3>1 DEF PoolInv, NamesInv
      <4>2. j <= conns
        BY <3>1, <2>3, NoStreamIsZero DEF PoolInv, MadeInv, Conns
      <4> QED
        BY <1>1, <3>3, <4>1, <4>2, TwinOf
    <3> QED
      BY <3>2, <3>3
  <2>5. \A j \in Conns : Twin(j) => Twin(j)'
    BY <2>1 DEF Twin, OrigLogin
  <2> QED
    BY <1>1, <2>1, <2>2, <2>3, <2>4, <2>5 DEF FreedInv, FreedByTwin, Tried
<1>7. CASE OpenNew
  <2> DEFINE s == streams + 1
             n == NameAgain(cur)
  <2>1. /\ UNCHANGED <<conns, made, cur>> /\ streams' = s
        /\ pstreams' = [pstreams EXCEPT ![n] = s]
        /\ greetings' = greetings \union {s}
        /\ stream' = [stream EXCEPT ![cur] = s]
        /\ freed' = freed \union ({pstreams[n]} \ {0})
    BY <1>7 DEF OpenNew, Attempt, connVars
  <2>2. /\ n \in Pids /\ LoginOf(n) = OrigLogin(cur) /\ pstreams[n] <= streams
        /\ pstreams[n] \in 0 .. MaxStreams /\ streams \in Nat
    BY <1>3, NoStreamIsZero DEF PoolInv, PoolTypeOK, NamesInv
  <2> HIDE DEF n
  <2>3. /\ stream'[cur] = s /\ \A j \in Conns : j # cur => stream'[j] = stream[j]
        /\ pstreams'[n] = s /\ \A i \in Pids : i # n => pstreams'[i] = pstreams[i]
    BY <2>1, <2>2, <1>1, <1>2 DEF PoolInv, PoolTypeOK
  <2>4. freed' \subseteq 1 .. streams /\ s \notin freed' /\ 1 .. streams \subseteq 1 .. s
    <3>1. {pstreams[n]} \ {0} \subseteq 1 .. streams
      BY <2>2
    <3>2. freed' \subseteq 1 .. streams
      BY <2>1, <3>1 DEF FreedInv
    <3>3. s \notin 1 .. streams /\ 1 .. streams \subseteq 1 .. s
      BY <2>2
    <3> QED
      BY <3>2, <3>3
  <2>5. ASSUME NEW i \in Pids PROVE pstreams'[i] \notin freed'
    <3>1. CASE i = n
      BY <3>1, <2>3, <2>4
    <3>2. CASE i # n
      <4>1. pstreams[i] \notin freed /\ (pstreams[i] # 0 => pstreams[i] # pstreams[n])
        BY <3>2, <2>2 DEF FreedInv, PoolInv, NamesInv
      <4> QED
        BY <3>2, <4>1, <2>1, <2>3
    <3> QED
      BY <3>1, <3>2
  <2>6. \A j \in Conns : Twin(j) => Twin(j)'
    BY <2>1 DEF Twin, OrigLogin
  <2>7. ASSUME NEW j \in Conns, stream'[j] \in freed'
        PROVE  stream'[j] \in greetings' \/ Twin(j)'
    <3>1. j # cur /\ stream'[j] = stream[j]
      BY <2>3, <2>4, <2>7
    <3>2. CASE stream[j] \in freed
      BY <3>1, <3>2, <2>1, <2>6 DEF FreedInv, FreedByTwin
    <3>3. CASE stream[j] = pstreams[n] /\ stream[j] # 0
      <4>1. Twin(j)
        BY <3>1, <3>3, <2>2, <1>1, HeldByTwin
      <4> QED
        BY <4>1, <2>6
    <3> QED
      BY <3>1, <3>2, <3>3, <2>1, <2>7
  <2>8. Tried'
    BY <2>1, <2>3 DEF Tried
  <2> QED
    BY <2>1, <2>4, <2>5, <2>7, <2>8 DEF FreedInv, FreedByTwin
<1>8. CASE OpenFails
  <2> DEFINE gone == {pstreams[NameAgain(cur)]} \ {0}
  <2>1. /\ Free(gone) /\ UNCHANGED <<conns, made, cur, stream>> /\ 0 \notin gone
        /\ \A s \in gone : \E id \in Pids :
              LoginOf(id) = OrigLogin(cur) /\ pstreams[id] = s
        /\ pc = "attempt" /\ pc' = "attempt" /\ greetings' = greetings
    BY <1>3, <1>8 DEF OpenFails, Attempt, Free, connVars
  <2> HIDE DEF gone
  <2>2. Tried'
    BY <2>1 DEF FreedInv, Tried, Twin, OrigLogin
  <2>3. stream[cur] # 0 => stream[cur] \in greetings \/ Twin(cur)
    BY <2>1 DEF FreedInv, Tried
  <2>4. 0 \notin freed'
    BY <2>1, AliveIsNotFreed DEF Free
  <2> QED
    BY <1>1, <2>1, <2>2, <2>3, <2>4, FreeKept
<1>9. CASE GreetingRead
  <2>1. stream[cur] \notin freed
    BY <1>9, AliveIsNotFreed DEF GreetingRead
  <2>2. Tried'
    BY <1>9 DEF GreetingRead, Tried
  <2>3. \A s \in freed : s \in greetings => s \in greetings'
    BY <1>9, <2>1 DEF GreetingRead
  <2> QED
    BY <1>9, <2>2, <2>3, SameFreed DEF GreetingRead, connVars
<1>10. CASE NoGreeting
  <2>1. Tried'
    BY <1>10 DEF NoGreeting, FreedInv, Tried, Twin, OrigLogin, connVars, streamVars
  <2> QED
    BY <1>10, <2>1, SameFreed DEF NoGreeting, connVars, streamVars
<1> QED
  BY <1>4, <1>5, <1>6, <1>7, <1>8, <1>9, <1>10

(***************************************************************************)
(* The other steps.                                                        *)
(***************************************************************************)
LEMMA OthersFree ==
    ASSUME PoolInv, FreedInv,
           \/ \E o \in Objects : Drop(o) \/ Connect(o) \/ UseFreed(o)
           \/ \E o \in Objects, l \in Logins : Authenticate(o, l)
           \/ \E o \in Objects, l \in Logins, x \in Suffixes \union {NoSuffix} :
                 ConstructFound(o, l, x)
           \/ GiveUp \/ LogIn \/ \E s \in Streams : ServerCloses(s)
    PROVE  FreedInv'
<1>1. UNCHANGED <<conns, made, pstreams, stream, streams, freed, greetings>>
  BY DEF Drop, Connect, UseFreed, Authenticate, ConstructFound, GiveUp, LogIn,
         ServerCloses, connVars, streamVars
<1>2. pc' \in {"idle", "connect", "login", "undefined"} \/ UNCHANGED <<pc, cur>>
  BY DEF Drop, Connect, UseFreed, Authenticate, ConstructFound, GiveUp, LogIn,
         ServerCloses, pathVars
<1>3. Tried'
  BY <1>1, <1>2 DEF FreedInv, Tried, Twin, OrigLogin
<1> QED
  BY <1>1, <1>3, SameFreed

LEMMA NewFrees ==
    ASSUME PoolInv, FreedInv, NEW o \in Objects, NEW l \in Logins,
           NEW x \in Suffixes \union {NoSuffix}, ConstructNew(o, l, x)
    PROVE  FreedInv'
<1>1. /\ conns' = conns + 1 /\ made' = [made EXCEPT ![conns + 1] = <<l, x>>]
      /\ UNCHANGED <<pstreams, stream, streams, freed, greetings>>
      /\ pc' = "idle"
  BY DEF ConstructNew, pathVars, streamVars
<1>2. \A j \in Conns : j <= conns => OrigLogin(j)' = OrigLogin(j)
  BY <1>1, NoStreamIsZero DEF OrigLogin, PoolInv, PoolTypeOK, Conns
<1>3. ASSUME NEW k \in Conns, stream[k] \in freed PROVE k <= conns
  BY <1>3, AliveIsNotFreed, NoStreamIsZero DEF PoolInv, MadeInv, Conns
<1>4. ASSUME NEW k \in Conns, k <= conns, Twin(k) PROVE Twin(k)'
  <2>1. PICK j \in 1 .. conns : j # k /\ OrigLogin(j) = OrigLogin(k)
    BY <1>4 DEF Twin
  <2>2. j \in Conns /\ j <= conns /\ j \in 1 .. conns'
    BY <1>1, PoolAssumption DEF PoolInv, PoolTypeOK, Conns
  <2> QED
    BY <1>2, <1>4, <2>1, <2>2 DEF Twin
<1> QED
  BY <1>1, <1>3, <1>4 DEF FreedInv, FreedByTwin, Tried

LEMMA FreedInvariant == Spec => []FreedInv
<1>1. ASSUME PoolInv, FreedInv, [Next]_vars PROVE FreedInv'
  <2>1. ASSUME NEW o \in Objects, Reconnect(o) \/ RequestFails(o) PROVE FreedInv'
    <3>1. object[o] # 0
      BY <2>1 DEF Reconnect, RequestFails
    <3>2. object[o] \in Conns /\ object[o] <= conns
      BY <1>1, <3>1, HeldObject
    <3>3. StreamClose(object[o]) /\ UNCHANGED connVars /\ pc' \in {"idle", "connect"}
      BY <2>1 DEF Reconnect, RequestFails, pathVars
    <3> QED
      BY <1>1, <3>2, <3>3, CloseFrees
  <2>2. CASE LogInFails
    <3>1. cur \in Conns /\ cur <= conns
      BY <1>1, <2>2 DEF LogInFails, PoolInv, MadeInv, Connecting
    <3> QED
      BY <1>1, <2>2, <3>1, CloseFrees DEF LogInFails
  <2>3. CASE UNCHANGED vars
    BY <1>1, <2>3 DEF FreedInv, FreedByTwin, Tried, Twin, OrigLogin, vars, connVars,
                      pathVars, streamVars
  <2> QED
    BY <1>1, <2>1, <2>2, <2>3, ConnectFrees, OthersFree, NewFrees DEF Next
<1> QED
  BY <1>1, FreedInitially, PoolInvariant, PTL DEF Spec

(***************************************************************************)
(* The types, and no attempt beyond retry_count.                           *)
(***************************************************************************)
THEOREM PoolTyped == Spec => []PoolTypeOK
<1>1. PoolInv => PoolTypeOK
  BY DEF PoolInv
<1> QED
  BY <1>1, PoolInvariant, PTL

(***************************************************************************)
(* tarantool_stream_close and tntll_stream_open: a pointer to a stream PHP *)
(* has freed stays only with a connection another one was made beside, for *)
(* the same login, or whose greeting was never read.                       *)
(***************************************************************************)
THEOREM OnlyTwinsDangle == Spec => []FreedByTwin
<1>1. FreedInv => FreedByTwin
  BY DEF FreedInv
<1> QED
  BY <1>1, FreedInvariant, PTL

(***************************************************************************)
(* __tarantool_connect: a stream is never had by connections made for      *)
(* different logins, whatever authenticate() has set since.                *)
(***************************************************************************)
THEOREM LoginsApart == Spec => []LoginsKeptApart
<1>1. PoolInv => LoginsKeptApart
  BY DEF PoolInv, NamesInv
<1> QED
  BY <1>1, PoolInvariant, PTL

(***************************************************************************)
(* __tarantool_connect and __tarantool_authenticate: between calls, a      *)
(* stream that is alive and that one connection has is logged in as that   *)
(* connection's login.                                                     *)
(***************************************************************************)
THEOREM RequestsRunAsLogin == Spec => []RunsAsLogin
<1>1. PoolInv => RunsAsLogin
  BY DEF PoolInv, LoginInv, RunsAsLogin, Opening, Shared
<1> QED
  BY <1>1, PoolInvariant, PTL
=============================================================================
