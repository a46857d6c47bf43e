---------------------------- MODULE RosterProofs ----------------------------
(***************************************************************************)
(* Who is told of whom: every player of a session asks to spawn once, and  *)
(* is announced to every other player once, for any clients, connections,  *)
(* vehicles and cells.  The shared world implements the roster; and who    *)
(* has got out of a vehicle does not ride on.                              *)
(***************************************************************************)
EXTENDS SharedWorldProofs

-----------------------------------------------------------------------------
(* No two places of a sequence hold x.                                     *)
Once(s, x) == \A i, j \in DOMAIN s : s[i] = x /\ s[j] = x => i = j

AuthEvent(n)  == [conn |-> n, msg |-> AuthRequest]
SpawnEvent(n) == [conn |-> n, msg |-> SpawnRequest]

(* Where the request of session n to spawn may be: what is passed from the *)
(* connection to the puppet is first the authentication of the client,     *)
(* then its answer, the deferred spawn, and the request itself.            *)
AuthSent(n)     == AuthRequest \in Range(up[n])
AuthRead(n)     == AuthEvent(n) \in Range(inbox["auth"])
AnswerSent(n)   == AuthResponse \in Range(down[n])
AnswerQueued(n) == AuthResponse \in Range(pool[n]["auth"])
Deferred(n)     == n \in pendingSpawn
SpawnAsked(n)   == SpawnRequest \in Range(up[n])
SpawnRead(n)    == SpawnEvent(n) \in Range(inbox["spawn"])
Spawned(n)      == n \in puppets

(* It is in one place at a time.                                           *)
OnePlaceOf(n) ==
    /\ AuthRead(n) => ~AuthSent(n)
    /\ AnswerSent(n) => ~(AuthSent(n) \/ AuthRead(n))
    /\ AnswerQueued(n) => ~(AuthSent(n) \/ AuthRead(n) \/ AnswerSent(n))
    /\ Deferred(n) => ~(\/ AuthSent(n) \/ AuthRead(n) \/ AnswerSent(n)
                       \/ AnswerQueued(n))
    /\ SpawnAsked(n) => ~(\/ AuthSent(n) \/ AuthRead(n) \/ AnswerSent(n)
                         \/ AnswerQueued(n) \/ Deferred(n))
    /\ SpawnRead(n) => ~(\/ AuthSent(n) \/ AuthRead(n) \/ AnswerSent(n)
                        \/ AnswerQueued(n) \/ Deferred(n) \/ SpawnAsked(n))
    /\ Spawned(n) => ~(\/ AuthSent(n) \/ AuthRead(n) \/ AnswerSent(n)
                      \/ AnswerQueued(n) \/ Deferred(n) \/ SpawnAsked(n)
                      \/ SpawnRead(n))

(* And once there.                                                         *)
OnceThere(n) ==
    /\ Once(up[n], AuthRequest)
    /\ Once(up[n], SpawnRequest)
    /\ Once(inbox["auth"], AuthEvent(n))
    /\ Once(inbox["spawn"], SpawnEvent(n))
    /\ Once(down[n], AuthResponse)
    /\ Once(pool[n]["auth"], AuthResponse)

(* Only a handle that has been used has a request anywhere.                *)
NotBefore(n) ==
    n \notin used => ~(\/ AuthSent(n) \/ AuthRead(n) \/ AnswerSent(n)
                     \/ AnswerQueued(n) \/ Deferred(n) \/ SpawnAsked(n)
                     \/ SpawnRead(n) \/ Spawned(n) \/ Open(n))

(* The player is there before its client can ask.                          *)
PlayerFirst(n) ==
    n \notin players \cup dropped =>
        ~(\/ AnswerSent(n) \/ AnswerQueued(n) \/ Deferred(n) \/ SpawnAsked(n)
          \/ SpawnRead(n))

RequestInv ==
    \A n \in Conn :
        OnePlaceOf(n) /\ OnceThere(n) /\ NotBefore(n) /\ PlayerFirst(n)

-----------------------------------------------------------------------------
(* The screen of n has heard of p, or is about to.                         *)
Told(n, p) == OnWay(n, Load(p)) \/ view[n][p] # "unseen"

ToldOnce(n, p) ==
    /\ Once(down[n], Load(p))
    /\ Once(pool[n]["load"], Load(p))
    /\ OnWire(n, Load(p)) => ~Queued(n, Load(p))
    /\ OnWay(n, Load(p)) => view[n][p] = "unseen"

(* Only those who have met in the level, and both are, or have left.       *)
ToldOfOthers(n, p) ==
    Told(n, p) => /\ n # p
                  /\ n \in puppets \cup dropped
                  /\ p \in puppets \cup dropped

AnnounceInv == \A n, p \in Conn : ToldOnce(n, p) /\ ToldOfOthers(n, p)

-----------------------------------------------------------------------------
(* What once means for the sequences that reading and writing make.        *)
LEMMA OnceAppend ==
    ASSUME NEW S, NEW s \in Seq(S), NEW y \in S, NEW x, Once(s, x),
           y = x => x \notin Range(s)
    PROVE  Once(Append(s, y), x)
<1>1. /\ DOMAIN Append(s, y) = 1 .. Len(s) + 1 /\ DOMAIN s = 1 .. Len(s)
      /\ Len(s) \in Nat
      /\ Append(s, y)[Len(s) + 1] = y
      /\ \A i \in 1 .. Len(s) : Append(s, y)[i] = s[i]
  BY AppendProperties
<1>2. \A i \in 1 .. Len(s) : s[i] = x => y # x
  BY <1>1 DEF Range
<1>3. \A i \in 1 .. Len(s) + 1 : i \in 1 .. Len(s) \/ i = Len(s) + 1
  BY <1>1
<1> QED
  BY <1>1, <1>2, <1>3 DEF Once

LEMMA OnceTail ==
    ASSUME NEW S, NEW s \in Seq(S), s # <<>>, NEW x, Once(s, x)
    PROVE  /\ Once(Tail(s), x)
           /\ x \in Range(Tail(s)) => x \in Range(s) /\ Head(s) # x
<1>1. /\ Tail(s) \in Seq(S)
      /\ Len(Tail(s)) = Len(s) - 1
      /\ \A i \in 1 .. Len(Tail(s)) : Tail(s)[i] = s[i + 1]
      /\ Len(s) \in Nat \ {0}
      /\ Head(s) = s[1]
  BY HeadTailProperties
<1>2. /\ DOMAIN s = 1 .. Len(s) /\ DOMAIN Tail(s) = 1 .. Len(Tail(s))
      /\ \A i \in DOMAIN Tail(s) : i \in Nat \ {0} /\ i + 1 \in DOMAIN s
      /\ 1 \in DOMAIN s
  BY <1>1
<1>3. ASSUME NEW i \in DOMAIN Tail(s), NEW j \in DOMAIN Tail(s),
             Tail(s)[i] = x, Tail(s)[j] = x
      PROVE  i = j
  <2>1. i + 1 = j + 1
    BY <1>1, <1>2, <1>3 DEF Once
  <2> QED
    BY <1>2, <2>1
<1>4. ASSUME NEW i \in DOMAIN Tail(s), Tail(s)[i] = x
      PROVE  x \in Range(s) /\ Head(s) # x
  <2>1. s[i + 1] = x /\ i + 1 # 1
    BY <1>1, <1>2, <1>4
  <2> QED
    BY <1>1, <1>2, <2>1 DEF Once, Range
<1> QED
  BY <1>3, <1>4 DEF Once, Range

LEMMA OnceConcat ==
    ASSUME NEW S, NEW s \in Seq(S), NEW t \in Seq(S), NEW x,
           Once(s, x), Once(t, x), x \in Range(s) => x \notin Range(t)
    PROVE  Once(s \o t, x)
<1> SUFFICES ASSUME NEW i \in DOMAIN (s \o t), NEW j \in DOMAIN (s \o t),
                    (s \o t)[i] = x, (s \o t)[j] = x
             PROVE  i = j
  BY DEF Once
<1>1. /\ DOMAIN s = 1 .. Len(s) /\ DOMAIN t = 1 .. Len(t)
      /\ Len(s) \in Nat /\ Len(t) \in Nat
      /\ DOMAIN (s \o t) = 1 .. Len(s) + Len(t)
      /\ \A k \in 1 .. Len(s) + Len(t) :
            (s \o t)[k] = IF k <= Len(s) THEN s[k] ELSE t[k - Len(s)]
  BY ConcatProperties
<1>2. \A k \in 1 .. Len(s) + Len(t) :
         /\ k \in Nat
         /\ k <= Len(s) => k \in DOMAIN s
         /\ ~(k <= Len(s)) => k - Len(s) \in DOMAIN t
  BY <1>1
<1>3. \A k \in 1 .. Len(s) + Len(t) : (s \o t)[k] = x =>
         /\ k <= Len(s) => s[k] = x /\ x \in Range(s)
         /\ ~(k <= Len(s)) => t[k - Len(s)] = x /\ x \in Range(t)
  BY <1>1, <1>2 DEF Range
<1>4. CASE i <= Len(s) /\ j <= Len(s)
  BY <1>1, <1>2, <1>3, <1>4 DEF Once
<1>5. CASE ~(i <= Len(s)) /\ ~(j <= Len(s))
  <2>1. i - Len(s) = j - Len(s)
    BY <1>1, <1>2, <1>3, <1>5 DEF Once
  <2> QED
    BY <1>1, <1>2, <2>1
<1> QED
  BY <1>1, <1>3, <1>4, <1>5

LEMMA PostOnce ==
    ASSUME TypeOK,
           NEW box, \A n \in Conn : box[n] \in Seq(DownMsg),
           Post(box),
           NEW n \in Conn, NEW x, Once(down[n], x), Once(box[n], x),
           x \in Range(down[n]) => x \notin Range(box[n])
    PROVE  Once(down'[n], x)
<1>1. down[n] \in Seq(DownMsg) /\ box[n] \in Seq(DownMsg)
  BY DEF TypeOK, WireTypeOK
<1>2. Once(down[n] \o box[n], x)
  BY <1>1, OnceConcat
<1> QED
  BY <1>2 DEF Post

(* The messages that carry the request.                                    *)
LEMMA RequestMessages ==
    /\ \A m \in UpMsg : /\ m.type = "auth" <=> m = AuthRequest
                        /\ m.type = "spawn" <=> m = SpawnRequest
    /\ AuthRequest # SpawnRequest
    /\ \A m \in DownMsg : m.type = "auth" <=> m = AuthResponse
    /\ \A n, k : AuthEvent(n) = AuthEvent(k) => n = k
    /\ \A n, k : SpawnEvent(n) = SpawnEvent(k) => n = k
    /\ \A n : AuthEvent(n).conn = n /\ SpawnEvent(n).conn = n
    /\ \A e \in Event("auth") : e = AuthEvent(e.conn)
    /\ \A e \in Event("spawn") : e = SpawnEvent(e.conn)
<1>1. /\ \A m \in UpMsg : /\ m.type = "auth" <=> m = AuthRequest
                          /\ m.type = "spawn" <=> m = SpawnRequest
      /\ AuthRequest # SpawnRequest
      /\ \A m \in DownMsg : m.type = "auth" <=> m = AuthResponse
  BY DEF UpMsg, DownMsg, AuthRequest, SpawnRequest, AuthResponse
<1>2. /\ \A n, k : AuthEvent(n) = AuthEvent(k) => n = k
      /\ \A n, k : SpawnEvent(n) = SpawnEvent(k) => n = k
      /\ \A n : AuthEvent(n).conn = n /\ SpawnEvent(n).conn = n
  BY DEF AuthEvent, SpawnEvent
<1>3. /\ \A e \in Event("auth") : e = AuthEvent(e.conn)
      /\ \A e \in Event("spawn") : e = SpawnEvent(e.conn)
  BY <1>1 DEF Event, AuthEvent, SpawnEvent
<1> QED
  BY <1>1, <1>2, <1>3

-----------------------------------------------------------------------------
(* A step that puts the request of n nowhere it was not.                   *)
LEMMA RequestKept ==
    ASSUME NEW n \in Conn,
           OnePlaceOf(n), NotBefore(n), PlayerFirst(n),
           AuthSent(n)' => AuthSent(n), AuthRead(n)' => AuthRead(n),
           AnswerSent(n)' => AnswerSent(n),
           AnswerQueued(n)' => AnswerQueued(n),
           Deferred(n)' => Deferred(n), SpawnAsked(n)' => SpawnAsked(n),
           SpawnRead(n)' => SpawnRead(n), Spawned(n)' => Spawned(n),
           Open(n)' => Open(n), used \subseteq used',
           players \cup dropped \subseteq players' \cup dropped'
    PROVE  OnePlaceOf(n)' /\ NotBefore(n)' /\ PlayerFirst(n)'
BY DEF OnePlaceOf, NotBefore, PlayerFirst

(* A message that is not sent does not come.                               *)
LEMMA NotPosted ==
    ASSUME TypeOK,
           NEW box, \A n \in Conn : box[n] \in Seq(DownMsg),
           Post(box),
           NEW n \in Conn, NEW x, x \notin Range(box[n])
    PROVE  /\ x \in Range(down'[n]) <=> x \in Range(down[n])
           /\ Once(down[n], x) => Once(down'[n], x)
<1>1. \A m : OnWire(n, m)' <=>
                (OnWire(n, m) \/ (holder[n] # None /\ m \in Range(box[n])))
  BY PostNews
<1>2. \A m : /\ OnWire(n, m)' <=> m \in Range(down'[n])
             /\ OnWire(n, m) <=> m \in Range(down[n])
  BY DEF OnWire, Range
<1>3. Once(box[n], x)
  BY DEF Once, Range
<1> QED
  BY <1>1, <1>2, <1>3, PostOnce

(* All that a new puppet's spawn sends, and to whom.                       *)
LEMMA SpawnNewsSays ==
    ASSUME NEW n \in Conn, NEW others \in SUBSET Conn, n \notin others,
           NEW order \in Orders(others), NEW m \in Conn, NEW p \in Conn
    PROVE  /\ Load(p) \in Range(SpawnNews(n, others, order)[m]) <=>
                \/ m = n /\ p \in others
                \/ m \in others /\ p = n
           /\ AuthResponse \notin Range(SpawnNews(n, others, order)[m])
           /\ Once(SpawnNews(n, others, order)[m], Load(p))
<1> DEFINE snapshot == [i \in DOMAIN order |-> Load(order[i])]
<1>1. /\ order \in Seq(others)
      /\ \A x \in others : \E i \in DOMAIN order : order[i] = x
      /\ \A i, j \in DOMAIN order : order[i] = order[j] => i = j
  BY OrderType
<1>2. snapshot \in Seq(DownMsg) /\ <<SpawnResponse(n)>> \in Seq(DownMsg)
  BY <1>1, MessageTypes
<1>3. Range(<<SpawnResponse(n)>> \o snapshot)
        = Range(<<SpawnResponse(n)>>) \cup Range(snapshot)
  <2> DEFINE first == <<SpawnResponse(n)>>
  <2>1. first \in Seq(DownMsg) /\ snapshot \in Seq(DownMsg)
    BY <1>2
  <2> HIDE DEF first, snapshot
  <2>2. Range(first \o snapshot) = Range(first) \cup Range(snapshot)
    BY <2>1, RangeConcatenation
  <2> QED
    BY <2>2 DEF first
<1>4. /\ \A x : Range(<<x>>) = {x}
      /\ Range(<<>>) = {}
  BY DEF Range
<1>5. Range(snapshot) = {Load(q) : q \in others}
  <2>1. Range(snapshot) \subseteq {Load(q) : q \in others}
    BY <1>1 DEF Range
  <2>2. ASSUME NEW q \in others
        PROVE  Load(q) \in Range(snapshot)
    <3>1. PICK i \in DOMAIN order : order[i] = q
      BY <1>1
    <3>2. i \in DOMAIN snapshot /\ snapshot[i] = Load(q)
      BY <3>1
    <3> HIDE DEF snapshot
    <3> QED
      BY <3>2 DEF Range
  <2> QED
    BY <2>1, <2>2
<1>6. SpawnNews(n, others, order)[m] =
        IF m = n THEN <<SpawnResponse(n)>> \o snapshot
        ELSE IF m \in others THEN <<Load(n)>> ELSE <<>>
  BY DEF SpawnNews
<1>7. Once(snapshot, Load(p))
  <2>1. ASSUME NEW i \in DOMAIN snapshot, NEW j \in DOMAIN snapshot,
               snapshot[i] = snapshot[j]
        PROVE  i = j
    <3>1. Load(order[i]) = Load(order[j])
      BY <2>1
    <3>2. order[i] = order[j]
      BY <3>1, MessageKinds
    <3> QED
      BY <1>1, <3>2
  <2> QED
    BY <2>1 DEF Once
<1> HIDE DEF snapshot
<1>8. Range(SpawnNews(n, others, order)[m]) =
        IF m = n THEN {SpawnResponse(n)} \cup {Load(q) : q \in others}
        ELSE IF m \in others THEN {Load(n)} ELSE {}
  BY <1>3, <1>4, <1>5, <1>6
<1>9. AuthResponse \notin Range(SpawnNews(n, others, order)[m])
  BY <1>8, MessageKinds
<1>10. Once(SpawnNews(n, others, order)[m], Load(p))
  <2>1. \A x : Once(<<x>>, Load(p))
    BY DEF Once
  <2>2. Once(<<>>, Load(p))
    BY DEF Once
  <2>3. Load(p) \notin Range(<<SpawnResponse(n)>>)
    BY <1>4, MessageKinds
  <2>4. Once(<<SpawnResponse(n)>> \o snapshot, Load(p))
    BY <1>2, <1>7, <2>1, <2>3, OnceConcat
  <2> QED
    BY <1>6, <2>1, <2>2, <2>4
<1>11. Load(p) \in Range(SpawnNews(n, others, order)[m]) <=>
          \/ m = n /\ p \in others
          \/ m \in others /\ p = n
  <2>1. /\ Load(p) # SpawnResponse(n)
        /\ \A q : Load(p) = Load(q) => p = q
    BY MessageKinds
  <2> QED
    BY <1>8, <2>1
<1> QED
  BY <1>9, <1>10, <1>11

(* The news of a spawn is to the player of the others, and to them of it.  *)
LEMMA ToldOfSpawn ==
    ASSUME NEW n, NEW others, NEW order, NEW m, NEW p,
           n \in Conn, others \in SUBSET Conn, n \notin others,
           order \in Orders(others), m \in Conn, p \in Conn,
           Load(p) \in Range(SpawnNews(n, others, order)[m])
    PROVE  \/ m = n /\ p \in others
           \/ m \in others /\ p = n
BY SpawnNewsHolds

(* It leaves out nobody, in either direction.                              *)
LEMMA SpawnNewsTells ==
    ASSUME NEW n \in Conn, NEW others \in SUBSET Conn, n \notin others,
           NEW order \in Orders(others), NEW p \in others
    PROVE  /\ Load(p) \in Range(SpawnNews(n, others, order)[n])
           /\ Load(n) \in Range(SpawnNews(n, others, order)[p])
<1>1. p \in Conn
  OBVIOUS
<1> QED
  BY <1>1, SpawnNewsSays

(* To send nothing is to post empty boxes.                                 *)
LEMMA SilentPost ==
    ASSUME TypeOK, down' = down
    PROVE  \E box :
              /\ \A n \in Conn : box[n] \in Seq(DownMsg) /\ Range(box[n]) = {}
              /\ Post(box)
<1> DEFINE box == [n \in Conn |-> <<>>]
<1>1. \A n \in Conn : box[n] = <<>>
  OBVIOUS
<1>2. Post(box)
  <2>1. \A n \in Conn : down[n] = IF holder[n] = None THEN down[n]
                                                      ELSE down[n] \o box[n]
    BY <1>1 DEF TypeOK, WireTypeOK
  <2>2. down' = [n \in Conn |-> down[n]]
    BY DEF TypeOK, WireTypeOK
  <2> QED
    BY <2>1, <2>2 DEF Post
<1>3. \A n \in Conn : box[n] \in Seq(DownMsg) /\ Range(box[n]) = {}
  BY <1>1 DEF Range
<1> HIDE DEF box
<1> QED
  BY <1>2, <1>3

(* The handlers of vehicle requests send only news of vehicles.            *)
LEMMA VehiclePosts ==
    ASSUME TypeOK, NEW e,
           \/ EnterKnownVehicle(e) \/ EnterNewVehicle(e) \/ RefuseEnter(e)
           \/ HandleExitVehicleRequest(e)
    PROVE  \E box :
              /\ \A n \in Conn : box[n] \in Seq(DownMsg)
              /\ Post(box)
              /\ \A n \in Conn : \A m \in Range(box[n]) :
                    m.type \in {"vload", "venter", "vexit", "vcontrol"}
<1> USE DEF TypeOK, WireTypeOK, ServerTypeOK
<1>a. /\ Range(<<>>) = {}
      /\ \A m : Range(<<m>>) = {m}
      /\ \A k, m : Range(<<k, m>>) = {k, m}
  BY DEF Range
<1>b. ASSUME down' = down
      PROVE  \E box :
                /\ \A n \in Conn : box[n] \in Seq(DownMsg)
                /\ Post(box)
                /\ \A n \in Conn : \A m \in Range(box[n]) :
                      m.type \in {"vload", "venter", "vexit", "vcontrol"}
  <2>1. PICK box : /\ \A n \in Conn : box[n] \in Seq(DownMsg) /\ Range(box[n]) = {}
                   /\ Post(box)
    BY <1>b, SilentPost
  <2> QED
    BY <2>1
<1>1. CASE EnterKnownVehicle(e)
  <2>1. e.msg \in UpMsg /\ e.msg.type = "enter"
    BY <1>1, PublishType DEF EnterKnownVehicle, UpType
  <2>2. e.msg.id \in Conn /\ e.msg.vehicle \in Vehicle
    BY <1>1, <2>1, MessageFields DEF EnterKnownVehicle, OwnedBy
  <2> DEFINE box == [m \in Conn |->
                 IF m = e.conn THEN IF e.msg.driver
                                    THEN <<VehicleControl(e.msg.vehicle)>>
                                    ELSE <<>>
                 ELSE IF m \in players
                      THEN <<VehicleEnter(e.msg.id, e.msg.vehicle)>>
                 ELSE <<>>]
  <2>3. \A m \in Conn : box[m] \in Seq(DownMsg)
    BY <2>2, MessageTypes
  <2>4. \A m \in Conn : \A k \in Range(box[m]) :
           k.type \in {"vload", "venter", "vexit", "vcontrol"}
    BY <1>a, MessageKinds
  <2>5. Post(box)
    BY <1>1 DEF EnterKnownVehicle
  <2> HIDE DEF box
  <2> QED
    BY <2>3, <2>4, <2>5
<1>2. CASE EnterNewVehicle(e)
  <2>1. e.msg \in UpMsg /\ e.msg.type = "enter"
    BY <1>2, PublishType DEF EnterNewVehicle, UpType
  <2>2. e.msg.id \in Conn
    BY <1>2, <2>1, MessageFields DEF EnterNewVehicle, OwnedBy
  <2> DEFINE box(v) == [m \in Conn |->
                 IF m = e.conn THEN IF e.msg.driver THEN <<VehicleControl(v)>>
                                                    ELSE <<>>
                 ELSE IF m \in players
                      THEN <<VehicleLoad(v), VehicleEnter(e.msg.id, v)>>
                 ELSE <<>>]
  <2>3. PICK v \in Vehicle : Post(box(v))
    BY <1>2 DEF EnterNewVehicle
  <2>4. \A m \in Conn : box(v)[m] \in Seq(DownMsg)
    BY <2>2, MessageTypes
  <2>5. \A m \in Conn : \A k \in Range(box(v)[m]) :
           k.type \in {"vload", "venter", "vexit", "vcontrol"}
    <3>1. /\ VehicleControl(v).type = "vcontrol"
          /\ VehicleLoad(v).type = "vload"
          /\ VehicleEnter(e.msg.id, v).type = "venter"
      BY MessageKinds
    <3>2. \A m \in Conn : Range(box(v)[m]) \subseteq
             {VehicleControl(v), VehicleLoad(v), VehicleEnter(e.msg.id, v)}
      BY <1>a
    <3> QED
      BY <3>1, <3>2
  <2> HIDE DEF box
  <2> QED
    BY <2>3, <2>4, <2>5
<1>3. CASE RefuseEnter(e)
  BY <1>3, <1>b DEF RefuseEnter
<1>4. CASE HandleExitVehicleRequest(e)
  <2>1. CASE OwnedBy(e.msg.id, e.conn) /\ attached[e.msg.id] # None
    <3> DEFINE box == Broadcast(players \ {e.conn}, VehicleExit(e.msg.id))
    <3>1. Post(box)
      BY <1>4, <2>1 DEF HandleExitVehicleRequest
    <3>2. VehicleExit(e.msg.id) \in DownMsg
      BY <2>1, MessageTypes DEF OwnedBy
    <3>3. \A m \in Conn : box[m] \in Seq(DownMsg)
      BY <3>2, BroadcastType
    <3>4. \A m \in Conn : \A k \in Range(box[m]) :
             k.type \in {"vload", "venter", "vexit", "vcontrol"}
      BY <1>a, MessageKinds DEF Broadcast
    <3> HIDE DEF box
    <3> QED
      BY <3>1, <3>3, <3>4
  <2>2. CASE ~(OwnedBy(e.msg.id, e.conn) /\ attached[e.msg.id] # None)
    BY <1>4, <1>b, <2>2 DEF HandleExitVehicleRequest
  <2> QED
    BY <2>1, <2>2
<1> QED
  BY <1>1, <1>2, <1>3, <1>4

(* What the dispatcher of the server takes out of its queues.              *)
LEMMA PublishRequests ==
    ASSUME TypeOK, NEW t \in UpType, NEW e, Publish(t, e), NEW n \in Conn,
           OnceThere(n)
    PROVE  /\ AuthSent(n)' <=> AuthSent(n)
           /\ SpawnAsked(n)' <=> SpawnAsked(n)
           /\ AuthRead(n)' => AuthRead(n) /\ ~(t = "auth" /\ e.conn = n)
           /\ SpawnRead(n)' => SpawnRead(n) /\ ~(t = "spawn" /\ e.conn = n)
           /\ t = "auth" /\ e.conn = n => AuthRead(n)
           /\ t = "spawn" /\ e.conn = n => SpawnRead(n)
           /\ Once(inbox'["auth"], AuthEvent(n))
           /\ Once(inbox'["spawn"], SpawnEvent(n))
           /\ up' = up /\ used' = used /\ dropped' = dropped
           /\ holder' = holder
<1>1. /\ inbox[t] \in Seq(Event(t)) /\ inbox[t] # <<>> /\ e = Head(inbox[t])
      /\ up' = up /\ used' = used /\ dropped' = dropped /\ holder' = holder
  BY DEF Publish, TypeOK, ServerTypeOK
<1>2. \A u \in UpType : inbox'[u] = IF u = t THEN Tail(inbox[t]) ELSE inbox[u]
  BY DEF Publish, TypeOK, ServerTypeOK
<1>3. Range(inbox[t]) = {e} \cup Range(Tail(inbox[t]))
  BY <1>1, RangeHeadTail
<1>4. e \in Event(t)
  BY <1>1
<1>5. /\ t = "auth" => e = AuthEvent(e.conn)
      /\ t = "spawn" => e = SpawnEvent(e.conn)
  BY <1>4, RequestMessages
<1>6. \A x : Once(inbox[t], x) =>
         /\ Once(Tail(inbox[t]), x)
         /\ x \in Range(Tail(inbox[t])) => x \in Range(inbox[t]) /\ e # x
  BY <1>1, OnceTail
<1>7. Once(inbox["auth"], AuthEvent(n)) /\ Once(inbox["spawn"], SpawnEvent(n))
  BY DEF OnceThere
<1>8. "auth" \in UpType /\ "spawn" \in UpType
  BY DEF UpType
<1>9. /\ AuthRead(n)' => AuthRead(n) /\ ~(t = "auth" /\ e.conn = n)
      /\ t = "auth" /\ e.conn = n => AuthRead(n)
      /\ Once(inbox'["auth"], AuthEvent(n))
  <2>1. AuthRead(n)' <=> AuthEvent(n) \in Range(inbox'["auth"])
    BY DEF AuthRead, AuthEvent, AuthRequest, Range
  <2> QED
    BY <1>2, <1>3, <1>5, <1>6, <1>7, <1>8, <2>1 DEF AuthRead
<1>10. /\ SpawnRead(n)' => SpawnRead(n) /\ ~(t = "spawn" /\ e.conn = n)
       /\ t = "spawn" /\ e.conn = n => SpawnRead(n)
       /\ Once(inbox'["spawn"], SpawnEvent(n))
  <2>1. SpawnRead(n)' <=> SpawnEvent(n) \in Range(inbox'["spawn"])
    BY DEF SpawnRead, SpawnEvent, SpawnRequest, Range
  <2> QED
    BY <1>2, <1>3, <1>5, <1>6, <1>7, <1>8, <2>1 DEF SpawnRead
<1>11. /\ AuthSent(n)' <=> AuthSent(n)
       /\ SpawnAsked(n)' <=> SpawnAsked(n)
  BY <1>1 DEF AuthSent, SpawnAsked, AuthRequest, SpawnRequest
<1> QED
  BY <1>1, <1>9, <1>10, <1>11

(* What the client keeps of the request is not touched by the server.      *)
LEMMA ServerLeaves ==
    ASSUME UNCHANGED clientVars, NEW n \in Conn
    PROVE  /\ AnswerQueued(n)' <=> AnswerQueued(n)
           /\ Deferred(n)' <=> Deferred(n)
           /\ OnceThere(n) => Once(pool'[n]["auth"], AuthResponse)
           /\ holder' = holder => (Open(n)' <=> Open(n))
BY DEF clientVars, AnswerQueued, Deferred, OnceThere, Open, Range, AuthResponse

LEMMA ServerRequests ==
    ASSUME TypeOK, GhostInv, RequestInv, ServerNext, UNCHANGED clientVars
    PROVE  RequestInv'
<1> USE DEF TypeOK, WireTypeOK, ServerTypeOK
<1>0. MembersLive
  BY DEF GhostInv
<1> SUFFICES ASSUME NEW n \in Conn
             PROVE  OnePlaceOf(n)' /\ OnceThere(n)' /\ NotBefore(n)'
                      /\ PlayerFirst(n)'
  BY DEF RequestInv
<1>a. OnePlaceOf(n) /\ OnceThere(n) /\ NotBefore(n) /\ PlayerFirst(n)
  BY DEF RequestInv
<1>b. /\ AnswerQueued(n)' <=> AnswerQueued(n)
      /\ Deferred(n)' <=> Deferred(n)
      /\ Once(pool'[n]["auth"], AuthResponse)
      /\ holder' = holder => (Open(n)' <=> Open(n))
  BY <1>a, ServerLeaves
<1>c. /\ AuthSent(n)' <=> AuthRequest \in Range(up'[n])
      /\ SpawnAsked(n)' <=> SpawnRequest \in Range(up'[n])
      /\ AuthRead(n)' <=> AuthEvent(n) \in Range(inbox'["auth"])
      /\ SpawnRead(n)' <=> SpawnEvent(n) \in Range(inbox'["spawn"])
      /\ AnswerSent(n)' <=> AuthResponse \in Range(down'[n])
      /\ Spawned(n)' <=> n \in puppets'
  BY DEF AuthSent, SpawnAsked, AuthRead, SpawnRead, AnswerSent, Spawned,
         AuthRequest, SpawnRequest, AuthResponse, AuthEvent, SpawnEvent, Range
<1>d. OnceThere(n)' <=> /\ Once(up'[n], AuthRequest)
                        /\ Once(up'[n], SpawnRequest)
                        /\ Once(inbox'["auth"], AuthEvent(n))
                        /\ Once(inbox'["spawn"], SpawnEvent(n))
                        /\ Once(down'[n], AuthResponse)
                        /\ Once(pool'[n]["auth"], AuthResponse)
  BY DEF OnceThere, Once, AuthRequest, SpawnRequest, AuthResponse, AuthEvent,
         SpawnEvent
(* A step in which the server reads nothing and answers no authentication. *)
<1>e. ASSUME up' = up, down' = down, inbox' = inbox, holder' = holder,
             used' = used, dropped' = dropped, players' = players,
             puppets' = puppets
      PROVE  OnePlaceOf(n)' /\ OnceThere(n)' /\ NotBefore(n)' /\ PlayerFirst(n)'
  <2>1. OnceThere(n)'
    BY <1>a, <1>b, <1>d, <1>e DEF OnceThere
  <2>2. /\ AuthSent(n)' => AuthSent(n)
        /\ AuthRead(n)' => AuthRead(n)
        /\ AnswerSent(n)' => AnswerSent(n)
        /\ SpawnAsked(n)' => SpawnAsked(n)
        /\ SpawnRead(n)' => SpawnRead(n)
        /\ Spawned(n)' => Spawned(n)
    BY <1>c, <1>e DEF AuthSent, SpawnAsked, AuthRead, SpawnRead, AnswerSent, Spawned
  <2> QED
    BY <1>a, <1>b, <1>e, <2>1, <2>2, RequestKept
<1>1. ASSUME NEW k \in Conn, Receive(k)
      PROVE  OnePlaceOf(n)' /\ OnceThere(n)' /\ NotBefore(n)' /\ PlayerFirst(n)'
  <2> DEFINE m == Head(up[k])
             e == [conn |-> k, msg |-> m]
  <2>1. /\ up[k] \in Seq(UpMsg) /\ up[k] # <<>> /\ m \in UpMsg
        /\ m.type \in UpType
        /\ inbox' = [inbox EXCEPT ![m.type] = Append(@, e)]
        /\ up' = [up EXCEPT ![k] = Tail(@)]
        /\ down' = down /\ holder' = holder /\ used' = used
        /\ dropped' = dropped /\ players' = players /\ puppets' = puppets
    BY <1>1, MessageFields DEF Receive
  <2>2. e \in Event(m.type)
    BY <2>1 DEF Event
  <2> HIDE DEF m, e
  <2>3. \A u \in UpType : inbox'[u] = IF u = m.type THEN Append(inbox[u], e)
                                      ELSE inbox[u]
    BY <2>1
  <2>4. up'[n] = IF n = k THEN Tail(up[n]) ELSE up[n]
    BY <2>1
  <2>5. m = Head(up[k]) /\ e = [conn |-> k, msg |-> m]
    BY DEF m, e
  <2>6. \A x \in {AuthRequest, SpawnRequest} :
           /\ Once(up'[n], x)
           /\ x \in Range(up'[n]) => x \in Range(up[n]) /\ ~(n = k /\ m = x)
           /\ n = k /\ m = x => x \in Range(up[n])
    <3> TAKE x \in {AuthRequest, SpawnRequest}
    <3>1. Once(up[n], x)
      BY <1>a DEF OnceThere
    <3>2. CASE n = k
      <4>1. /\ Once(Tail(up[n]), x)
            /\ x \in Range(Tail(up[n])) => x \in Range(up[n]) /\ m # x
        BY <2>1, <2>5, <3>1, <3>2, OnceTail
      <4>2. m \in Range(up[n])
        BY <2>1, <2>5, <3>2, RangeHeadTail
      <4> QED
        BY <2>4, <3>2, <4>1, <4>2
    <3>3. CASE n # k
      BY <2>4, <3>1, <3>3
    <3> QED
      BY <3>2, <3>3
  <2>7. /\ m.type = "auth" <=> m = AuthRequest
        /\ m.type = "spawn" <=> m = SpawnRequest
        /\ AuthRequest # SpawnRequest
        /\ "auth" \in UpType /\ "spawn" \in UpType
    BY <2>1, RequestMessages DEF UpType
  <2>8. /\ e = AuthEvent(n) => n = k /\ m = AuthRequest
        /\ e = SpawnEvent(n) => n = k /\ m = SpawnRequest
    BY <2>5 DEF AuthEvent, SpawnEvent
  <2>9. /\ AuthRead(n)' => AuthRead(n) \/ (n = k /\ m = AuthRequest)
        /\ Once(inbox'["auth"], AuthEvent(n))
    <3>1. CASE m.type = "auth"
      <4>1. inbox'["auth"] = Append(inbox["auth"], e) /\ e \in Event("auth")
            /\ inbox["auth"] \in Seq(Event("auth"))
        BY <2>2, <2>3, <2>7, <3>1
      <4>2. Range(inbox'["auth"]) = Range(inbox["auth"]) \cup {e}
        BY <4>1, RangeAppend
      <4>3. n = k /\ m = AuthRequest => AuthEvent(n) \notin Range(inbox["auth"])
        BY <1>a, <2>6 DEF OnePlaceOf, AuthSent, AuthRead
      <4>4. Once(inbox'["auth"], AuthEvent(n))
        BY <1>a, <2>8, <4>1, <4>3, OnceAppend DEF OnceThere
      <4> QED
        BY <1>c, <2>8, <4>2, <4>4 DEF AuthRead
    <3>2. CASE m.type # "auth"
      BY <1>a, <1>c, <2>3, <2>7, <3>2 DEF OnceThere, AuthRead
    <3> QED
      BY <3>1, <3>2
  <2>10. /\ SpawnRead(n)' => SpawnRead(n) \/ (n = k /\ m = SpawnRequest)
         /\ Once(inbox'["spawn"], SpawnEvent(n))
    <3>1. CASE m.type = "spawn"
      <4>1. inbox'["spawn"] = Append(inbox["spawn"], e) /\ e \in Event("spawn")
            /\ inbox["spawn"] \in Seq(Event("spawn"))
        BY <2>2, <2>3, <2>7, <3>1
      <4>2. Range(inbox'["spawn"]) = Range(inbox["spawn"]) \cup {e}
        BY <4>1, RangeAppend
      <4>3. n = k /\ m = SpawnRequest
               => SpawnEvent(n) \notin Range(inbox["spawn"])
        BY <1>a, <2>6 DEF OnePlaceOf, SpawnAsked, SpawnRead
      <4>4. Once(inbox'["spawn"], SpawnEvent(n))
        BY <1>a, <2>8, <4>1, <4>3, OnceAppend DEF OnceThere
      <4> QED
        BY <1>c, <2>8, <4>2, <4>4 DEF SpawnRead
    <3>2. CASE m.type # "spawn"
      BY <1>a, <1>c, <2>3, <2>7, <3>2 DEF OnceThere, SpawnRead
    <3> QED
      BY <3>1, <3>2
  <2>11. OnceThere(n)'
    BY <1>a, <1>b, <1>d, <2>1, <2>6, <2>9, <2>10 DEF OnceThere
  <2>12. /\ AuthSent(n)' => AuthSent(n) /\ ~(n = k /\ m = AuthRequest)
         /\ n = k /\ m = AuthRequest => AuthSent(n)
         /\ SpawnAsked(n)' => SpawnAsked(n) /\ ~(n = k /\ m = SpawnRequest)
         /\ n = k /\ m = SpawnRequest => SpawnAsked(n)
         /\ AnswerSent(n)' => AnswerSent(n)
         /\ Spawned(n)' => Spawned(n)
         /\ Open(n)' => Open(n)
    BY <1>b, <1>c, <2>1, <2>6 DEF AuthSent, SpawnAsked, AnswerSent, Spawned
  <2> QED
    BY <1>a, <1>b, <2>1, <2>7, <2>9, <2>10, <2>11, <2>12
       DEF OnePlaceOf, NotBefore, PlayerFirst
<1>2. CASE BeginDispatch
  BY <1>2, <1>e DEF BeginDispatch, wireVars
<1>3. CASE EndDispatch
  BY <1>3, <1>e DEF EndDispatch, wireVars
<1>4. ASSUME NEW k \in Conn, OnDisconnection(k)
      PROVE  OnePlaceOf(n)' /\ OnceThere(n)' /\ NotBefore(n)' /\ PlayerFirst(n)'
  <2>1. /\ players' = players \ {k} /\ dropped' = dropped \cup {k}
        /\ holder' = holder /\ used' = used /\ inbox' = inbox
        /\ up'[n] = IF n = k THEN <<>> ELSE up[n]
        /\ puppets' = puppets \ {k}
    BY <1>4 DEF OnDisconnection, Remove
  <2>2. /\ AuthResponse \in Range(down'[n]) <=> AuthResponse \in Range(down[n])
        /\ Once(down'[n], AuthResponse)
    <3>1. CASE k \in puppets
      <4> DEFINE box == [m \in Conn |-> IF m \in players \ {k} THEN LeaveNews(k)
                                                             ELSE <<>>]
      <4>1. Post(box)
        BY <1>4, <3>1 DEF OnDisconnection, Remove
      <4>2. \A m \in Conn : box[m] \in Seq(DownMsg)
        BY MessageTypes DEF LeaveNews
      <4>3. AuthResponse \notin Range(box[n])
        BY MessageKinds DEF LeaveNews, Range
      <4> HIDE DEF box
      <4> QED
        BY <1>a, <4>1, <4>2, <4>3, NotPosted DEF OnceThere
    <3>2. CASE k \notin puppets
      BY <1>4, <1>a, <3>2 DEF OnDisconnection, OnceThere
    <3> QED
      BY <3>1, <3>2
  <2>3. \A x : /\ x \in Range(up'[n]) => x \in Range(up[n])
               /\ Once(up[n], x) => Once(up'[n], x)
    BY <2>1 DEF Once, Range
  <2>4. OnceThere(n)'
    BY <1>a, <1>b, <1>d, <2>1, <2>2, <2>3 DEF OnceThere
  <2>5. /\ AuthSent(n)' => AuthSent(n)
        /\ AuthRead(n)' => AuthRead(n)
        /\ AnswerSent(n)' => AnswerSent(n)
        /\ SpawnAsked(n)' => SpawnAsked(n)
        /\ SpawnRead(n)' => SpawnRead(n)
        /\ Spawned(n)' => Spawned(n)
    BY <1>c, <2>1, <2>2, <2>3
       DEF AuthSent, SpawnAsked, AuthRead, SpawnRead, AnswerSent, Spawned
  <2> QED
    BY <1>a, <1>b, <2>1, <2>4, <2>5, RequestKept
<1>5. ASSUME NEW e, HandleSpawnCharacterRequest(e)
      PROVE  OnePlaceOf(n)' /\ OnceThere(n)' /\ NotBefore(n)' /\ PlayerFirst(n)'
  <2>1. Publish("spawn", e) /\ players' = players /\ "spawn" \in UpType
    BY <1>5 DEF HandleSpawnCharacterRequest, UpType
  <2>2. /\ AuthSent(n)' <=> AuthSent(n)
        /\ SpawnAsked(n)' <=> SpawnAsked(n)
        /\ AuthRead(n)' => AuthRead(n)
        /\ SpawnRead(n)' => SpawnRead(n) /\ e.conn # n
        /\ e.conn = n => SpawnRead(n)
        /\ Once(inbox'["auth"], AuthEvent(n))
        /\ Once(inbox'["spawn"], SpawnEvent(n))
        /\ up' = up /\ used' = used /\ dropped' = dropped /\ holder' = holder
    BY <1>a, <2>1, PublishRequests
  <2>3. e.conn \in Conn /\ e.conn \in Live
    BY <1>0, <2>1, PublishLive, PublishType
  <2>4. \E box : /\ \A m \in Conn : box[m] \in Seq(DownMsg)
                 /\ Post(box)
                 /\ AuthResponse \notin Range(box[n])
    <3>1. CASE e.conn \in players
      <4> DEFINE others == puppets \ {e.conn}
      <4>1. PICK order \in Orders(others) : Post(SpawnNews(e.conn, others, order))
        BY <1>5, <3>1 DEF HandleSpawnCharacterRequest
      <4>2. \A m \in Conn : SpawnNews(e.conn, others, order)[m] \in Seq(DownMsg)
        BY <2>3, SpawnNewsType
      <4>3. AuthResponse \notin Range(SpawnNews(e.conn, others, order)[n])
        <5>1. others \in SUBSET Conn /\ e.conn \notin others
          OBVIOUS
        <5> HIDE DEF others
        <5> QED
          BY <2>3, <5>1, SpawnNewsSays
      <4> QED
        BY <4>1, <4>2, <4>3
    <3>2. CASE e.conn \notin players
      <4> DEFINE box == Broadcast({e.conn}, SpawnResponse(None))
      <4>1. Post(box)
        BY <1>5, <3>2 DEF HandleSpawnCharacterRequest
      <4>2. \A m \in Conn : box[m] \in Seq(DownMsg)
        BY MessageTypes, BroadcastType
      <4>3. AuthResponse \notin Range(box[n])
        BY MessageKinds DEF Broadcast, Range
      <4> QED
        BY <4>1, <4>2, <4>3
    <3> QED
      BY <3>1, <3>2
  <2>5. /\ AuthResponse \in Range(down'[n]) <=> AuthResponse \in Range(down[n])
        /\ Once(down'[n], AuthResponse)
    BY <1>a, <2>4, NotPosted DEF OnceThere
  <2>6. OnceThere(n)'
    BY <1>a, <1>b, <1>d, <2>2, <2>5 DEF OnceThere
  <2>7. Spawned(n)' => Spawned(n) \/ e.conn = n
    BY <1>5, <1>c DEF HandleSpawnCharacterRequest, Spawned
  <2>8. AnswerSent(n)' => AnswerSent(n)
    BY <1>c, <2>5 DEF AnswerSent
  <2> QED
    BY <1>a, <1>b, <2>1, <2>2, <2>6, <2>7, <2>8
       DEF OnePlaceOf, NotBefore, PlayerFirst
<1>6. ASSUME NEW e,
             \/ EnterKnownVehicle(e) \/ EnterNewVehicle(e) \/ RefuseEnter(e)
             \/ HandleExitVehicleRequest(e)
      PROVE  OnePlaceOf(n)' /\ OnceThere(n)' /\ NotBefore(n)' /\ PlayerFirst(n)'
  <2>1. /\ players' = players /\ puppets' = puppets
        /\ \E t \in {"enter", "exit"} : Publish(t, e)
    BY <1>6 DEF EnterKnownVehicle, EnterNewVehicle, RefuseEnter,
                HandleExitVehicleRequest
  <2>2. PICK t \in {"enter", "exit"} : Publish(t, e)
    BY <2>1
  <2>3. /\ AuthSent(n)' => AuthSent(n)
        /\ SpawnAsked(n)' => SpawnAsked(n)
        /\ AuthRead(n)' => AuthRead(n)
        /\ SpawnRead(n)' => SpawnRead(n)
        /\ Once(inbox'["auth"], AuthEvent(n))
        /\ Once(inbox'["spawn"], SpawnEvent(n))
        /\ up' = up /\ used' = used /\ dropped' = dropped /\ holder' = holder
    <3>1. t \in UpType
      BY DEF UpType
    <3> QED
      BY <1>a, <2>2, <3>1, PublishRequests
  <2>4. /\ AuthResponse \in Range(down'[n]) <=> AuthResponse \in Range(down[n])
        /\ Once(down'[n], AuthResponse)
    <3>1. PICK box : /\ \A k \in Conn : box[k] \in Seq(DownMsg)
                     /\ Post(box)
                     /\ \A k \in Conn : \A m \in Range(box[k]) :
                           m.type \in {"vload", "venter", "vexit", "vcontrol"}
      BY <1>6, VehiclePosts
    <3>2. AuthResponse \notin Range(box[n])
      BY <3>1, MessageKinds
    <3> QED
      BY <1>a, <3>1, <3>2, NotPosted DEF OnceThere
  <2>5. OnceThere(n)'
    BY <1>a, <1>b, <1>d, <2>3, <2>4 DEF OnceThere
  <2>6. /\ AnswerSent(n)' => AnswerSent(n)
        /\ Spawned(n)' => Spawned(n)
    BY <1>c, <2>1, <2>4 DEF AnswerSent, Spawned
  <2> QED
    BY <1>a, <1>b, <2>1, <2>3, <2>5, <2>6, RequestKept
<1>7. ASSUME NEW e, HandleAuthentication(e)
      PROVE  OnePlaceOf(n)' /\ OnceThere(n)' /\ NotBefore(n)' /\ PlayerFirst(n)'
  <2>1. /\ Publish("auth", e) /\ "auth" \in UpType
        /\ players' = players \cup {e.conn} /\ puppets' = puppets
    BY <1>7 DEF HandleAuthentication, UpType
  <2>2. /\ AuthSent(n)' <=> AuthSent(n)
        /\ SpawnAsked(n)' <=> SpawnAsked(n)
        /\ AuthRead(n)' => AuthRead(n) /\ e.conn # n
        /\ SpawnRead(n)' => SpawnRead(n)
        /\ e.conn = n => AuthRead(n)
        /\ Once(inbox'["auth"], AuthEvent(n))
        /\ Once(inbox'["spawn"], SpawnEvent(n))
        /\ up' = up /\ used' = used /\ dropped' = dropped /\ holder' = holder
    BY <1>a, <2>1, PublishRequests
  <2> DEFINE box == Broadcast({e.conn}, AuthResponse)
  <2>3. Post(box)
    BY <1>7 DEF HandleAuthentication
  <2>4. \A m \in Conn : box[m] \in Seq(DownMsg)
    BY MessageTypes, BroadcastType
  <2>5. /\ AuthResponse \in Range(box[n]) => e.conn = n
        /\ Once(box[n], AuthResponse)
    BY DEF Broadcast, Range, Once
  <2> HIDE DEF box
  <2>6. Once(down'[n], AuthResponse)
    <3>1. AuthResponse \in Range(box[n]) => AuthResponse \notin Range(down[n])
      BY <1>a, <2>2, <2>5 DEF OnePlaceOf, AnswerSent
    <3> QED
      BY <1>a, <2>3, <2>4, <2>5, <3>1, PostOnce DEF OnceThere
  <2>7. AnswerSent(n)' => AnswerSent(n) \/ e.conn = n
    BY <1>c, <2>3, <2>4, <2>5, NotPosted DEF AnswerSent
  <2>8. OnceThere(n)'
    BY <1>a, <1>b, <1>d, <2>2, <2>6 DEF OnceThere
  <2>9. Spawned(n)' => Spawned(n)
    BY <1>c, <2>1 DEF Spawned
  <2> QED
    BY <1>a, <1>b, <2>1, <2>2, <2>7, <2>8, <2>9
       DEF OnePlaceOf, NotBefore, PlayerFirst
<1> QED
  BY <1>1, <1>2, <1>3, <1>4, <1>5, <1>6, <1>7 DEF ServerNext, ServerHandle

(* What the client appends to the channel.                                 *)
LEMMA UpAppend ==
    ASSUME TypeOK, NEW k \in Conn, NEW m \in UpMsg,
           up' = [up EXCEPT ![k] = Append(@, m)],
           NEW n \in Conn, NEW x, Once(up[n], x),
           n = k /\ m = x => x \notin Range(up[n])
    PROVE  /\ Once(up'[n], x)
           /\ x \in Range(up'[n]) => x \in Range(up[n]) \/ (n = k /\ m = x)
<1>1. up[n] \in Seq(UpMsg) /\ up'[n] = IF n = k THEN Append(up[n], m) ELSE up[n]
  BY DEF TypeOK, WireTypeOK
<1>2. Range(Append(up[n], m)) = Range(up[n]) \cup {m}
  BY <1>1, RangeAppend
<1>3. n = k => Once(Append(up[n], m), x)
  BY <1>1, OnceAppend
<1> QED
  BY <1>1, <1>2, <1>3

LEMMA ClientRequests ==
    ASSUME TypeOK, RequestInv, ClientNext, UNCHANGED serverVars
    PROVE  RequestInv'
<1> USE DEF TypeOK, WireTypeOK, ClientTypeOK
<1> SUFFICES ASSUME NEW n \in Conn
             PROVE  OnePlaceOf(n)' /\ OnceThere(n)' /\ NotBefore(n)'
                      /\ PlayerFirst(n)'
  BY DEF RequestInv
<1>a. OnePlaceOf(n) /\ OnceThere(n) /\ NotBefore(n) /\ PlayerFirst(n)
  BY DEF RequestInv
<1>b. /\ AuthRead(n)' <=> AuthRead(n)
      /\ SpawnRead(n)' <=> SpawnRead(n)
      /\ Spawned(n)' <=> Spawned(n)
      /\ Once(inbox'["auth"], AuthEvent(n))
      /\ Once(inbox'["spawn"], SpawnEvent(n))
      /\ players' = players /\ puppets' = puppets
  BY <1>a DEF serverVars, AuthRead, SpawnRead, Spawned, AuthEvent, SpawnEvent,
              AuthRequest, SpawnRequest, Range, OnceThere
<1>c. /\ AuthSent(n)' <=> AuthRequest \in Range(up'[n])
      /\ SpawnAsked(n)' <=> SpawnRequest \in Range(up'[n])
      /\ AnswerSent(n)' <=> AuthResponse \in Range(down'[n])
      /\ AnswerQueued(n)' <=> AuthResponse \in Range(pool'[n]["auth"])
      /\ Deferred(n)' <=> n \in pendingSpawn'
      /\ Open(n)' <=> holder'[n] # None
  BY DEF AuthSent, SpawnAsked, AnswerSent, AnswerQueued, Deferred, Open,
         AuthRequest, SpawnRequest, AuthResponse, Range
<1>d. OnceThere(n)' <=> /\ Once(up'[n], AuthRequest)
                        /\ Once(up'[n], SpawnRequest)
                        /\ Once(inbox'["auth"], AuthEvent(n))
                        /\ Once(inbox'["spawn"], SpawnEvent(n))
                        /\ Once(down'[n], AuthResponse)
                        /\ Once(pool'[n]["auth"], AuthResponse)
  BY DEF OnceThere, Once, AuthRequest, SpawnRequest, AuthResponse, AuthEvent,
         SpawnEvent
(* A step that puts nothing of the request anywhere.                       *)
<1>e. ASSUME \A x \in {AuthRequest, SpawnRequest} :
                /\ x \in Range(up'[n]) => x \in Range(up[n])
                /\ Once(up'[n], x),
             AuthResponse \in Range(down'[n]) => AuthResponse \in Range(down[n]),
             Once(down'[n], AuthResponse),
             pool'[n]["auth"] = pool[n]["auth"],
             n \in pendingSpawn' => n \in pendingSpawn,
             holder'[n] # None => holder[n] # None,
             used \subseteq used', dropped' = dropped
      PROVE  OnePlaceOf(n)' /\ OnceThere(n)' /\ NotBefore(n)' /\ PlayerFirst(n)'
  <2>1. OnceThere(n)'
    BY <1>a, <1>b, <1>d, <1>e DEF OnceThere
  <2>2. /\ AuthSent(n)' => AuthSent(n)
        /\ AnswerSent(n)' => AnswerSent(n)
        /\ AnswerQueued(n)' => AnswerQueued(n)
        /\ Deferred(n)' => Deferred(n)
        /\ SpawnAsked(n)' => SpawnAsked(n)
        /\ Open(n)' => Open(n)
    BY <1>c, <1>e DEF AuthSent, SpawnAsked, AnswerSent, AnswerQueued, Deferred, Open
  <2> QED
    BY <1>a, <1>b, <1>e, <2>1, <2>2, RequestKept
<1>f. \A x \in {AuthRequest, SpawnRequest} : Once(up[n], x)
  BY <1>a DEF OnceThere
<1>g. Once(down[n], AuthResponse) /\ Once(pool[n]["auth"], AuthResponse)
  BY <1>a DEF OnceThere
<1>h. AuthRequest # SpawnRequest /\ AuthRequest \in UpMsg /\ SpawnRequest \in UpMsg
  BY RequestMessages, MessageTypes
<1>1. ASSUME NEW c \in Client, OnWorldAttached(c) \/ OnAfterWorldDetach(c)
      PROVE  OnePlaceOf(n)' /\ OnceThere(n)' /\ NotBefore(n)' /\ PlayerFirst(n)'
  BY <1>1, <1>e, <1>f, <1>g DEF OnWorldAttached, OnAfterWorldDetach, wireVars
<1>2. ASSUME NEW c \in Client, NEW k \in Conn, Connect(c, k)
      PROVE  OnePlaceOf(n)' /\ OnceThere(n)' /\ NotBefore(n)' /\ PlayerFirst(n)'
  <2>1. /\ used' = used \cup {k} /\ k \notin used
        /\ holder' = [holder EXCEPT ![k] = c]
        /\ up' = [up EXCEPT ![k] = <<AuthRequest>>]
        /\ dropped' = dropped /\ down' = down
        /\ pool' = pool /\ pendingSpawn' = pendingSpawn
    BY <1>2 DEF Connect, clientVars
  <2>2. CASE n # k
    BY <1>e, <1>f, <1>g, <2>1, <2>2
  <2>3. CASE n = k
    <3>1. up'[n] = <<AuthRequest>>
      BY <2>1, <2>3
    <3>2. /\ Once(up'[n], AuthRequest)
          /\ Once(up'[n], SpawnRequest)
          /\ Range(up'[n]) = {AuthRequest}
      BY <3>1 DEF Once, Range
    <3>3. OnceThere(n)'
      BY <1>b, <1>d, <1>g, <2>1, <3>2
    <3>4. /\ ~SpawnAsked(n)' /\ (AnswerSent(n)' <=> AnswerSent(n))
          /\ (AnswerQueued(n)' <=> AnswerQueued(n))
          /\ (Deferred(n)' <=> Deferred(n))
      BY <1>c, <1>h, <2>1, <3>2 DEF AnswerSent, AnswerQueued, Deferred
    <3>5. n \notin used /\ n \in used'
      BY <2>1, <2>3
    <3> QED
      BY <1>a, <1>b, <2>1, <3>3, <3>4, <3>5
         DEF OnePlaceOf, NotBefore, PlayerFirst
  <2> QED
    BY <2>2, <2>3
<1>3. ASSUME NEW k \in Conn, OnDisconnected(k)
      PROVE  OnePlaceOf(n)' /\ OnceThere(n)' /\ NotBefore(n)' /\ PlayerFirst(n)'
  <2>1. /\ holder' = [holder EXCEPT ![k] = None]
        /\ down'[n] = IF n = k THEN <<>> ELSE down[n]
        /\ pendingSpawn' = pendingSpawn \ {k}
        /\ up' = up /\ used' = used /\ dropped' = dropped /\ pool' = pool
    BY <1>3 DEF OnDisconnected
  <2>2. /\ AuthResponse \in Range(down'[n]) => AuthResponse \in Range(down[n])
        /\ Once(down'[n], AuthResponse)
    BY <1>g, <2>1 DEF Once, Range
  <2>3. holder'[n] # None => holder[n] # None
    BY <2>1
  <2> QED
    BY <1>e, <1>f, <2>1, <2>2, <2>3
<1>4. ASSUME NEW k \in Conn, OnConsume(k)
      PROVE  OnePlaceOf(n)' /\ OnceThere(n)' /\ NotBefore(n)' /\ PlayerFirst(n)'
  <2> DEFINE m == Head(down[k])
  <2>1. /\ down[k] \in Seq(DownMsg) /\ down[k] # <<>> /\ m \in DownMsg
        /\ m.type \in DownType
        /\ pool' = [pool EXCEPT ![k][m.type] = Append(@, m)]
        /\ down' = [down EXCEPT ![k] = Tail(@)]
        /\ up' = up /\ used' = used /\ dropped' = dropped /\ holder' = holder
        /\ pendingSpawn' = pendingSpawn
    BY <1>4, MessageFields DEF OnConsume
  <2>2. m = Head(down[k]) /\ "auth" \in DownType
    BY DEF DownType
  <2> HIDE DEF m
  <2>3. pool'[n]["auth"] = IF n = k /\ m.type = "auth"
                           THEN Append(pool[n]["auth"], m) ELSE pool[n]["auth"]
    BY <2>1, <2>2
  <2>4. down'[n] = IF n = k THEN Tail(down[n]) ELSE down[n]
    BY <2>1
  <2>5. m.type = "auth" <=> m = AuthResponse
    BY <2>1, RequestMessages
  <2>6. /\ Once(down'[n], AuthResponse)
        /\ AnswerSent(n)' => AnswerSent(n) /\ ~(n = k /\ m = AuthResponse)
        /\ n = k /\ m = AuthResponse => AnswerSent(n)
    <3>1. CASE n = k
      <4>1. /\ Once(Tail(down[n]), AuthResponse)
            /\ AuthResponse \in Range(Tail(down[n])) =>
                  AuthResponse \in Range(down[n]) /\ m # AuthResponse
        BY <1>g, <2>1, <2>2, <3>1, OnceTail
      <4>2. m \in Range(down[n])
        BY <2>1, <2>2, <3>1, RangeHeadTail
      <4> QED
        BY <1>c, <2>4, <3>1, <4>1, <4>2 DEF AnswerSent
    <3>2. CASE n # k
      BY <1>c, <1>g, <2>4, <3>2 DEF AnswerSent
    <3> QED
      BY <3>1, <3>2
  <2>7. /\ Once(pool'[n]["auth"], AuthResponse)
        /\ AnswerQueued(n)' => AnswerQueued(n) \/ (n = k /\ m = AuthResponse)
    <3>1. CASE n = k /\ m.type = "auth"
      <4>1. pool[n]["auth"] \in Seq(DownMsg)
        BY <2>2
      <4>2. AuthResponse \notin Range(pool[n]["auth"])
        BY <1>a, <2>5, <2>6, <3>1 DEF OnePlaceOf, AnswerQueued
      <4>3. Once(Append(pool[n]["auth"], m), AuthResponse)
        BY <1>g, <2>1, <4>1, <4>2, OnceAppend
      <4> QED
        BY <2>3, <2>5, <3>1, <4>3
    <3>2. CASE ~(n = k /\ m.type = "auth")
      BY <1>c, <1>g, <2>3, <3>2 DEF AnswerQueued
    <3> QED
      BY <3>1, <3>2
  <2>8. OnceThere(n)'
    BY <1>b, <1>d, <1>f, <2>1, <2>6, <2>7
  <2>9. /\ AuthSent(n)' <=> AuthSent(n)
        /\ SpawnAsked(n)' <=> SpawnAsked(n)
        /\ Deferred(n)' <=> Deferred(n)
        /\ Open(n)' <=> Open(n)
    BY <1>c, <2>1 DEF AuthSent, SpawnAsked, Deferred, Open
  <2> QED
    BY <1>a, <1>b, <2>1, <2>6, <2>7, <2>8, <2>9
       DEF OnePlaceOf, NotBefore, PlayerFirst
<1>5. ASSUME NEW k \in Conn, BeginUpdate(k)
      PROVE  OnePlaceOf(n)' /\ OnceThere(n)' /\ NotBefore(n)' /\ PlayerFirst(n)'
  BY <1>5, <1>e, <1>f, <1>g DEF BeginUpdate, wireVars
(* The deferred spawn and its answer: the request is sent.                 *)
<1>i. ASSUME NEW k \in Conn, TrySendSpawnCharacter(k),
             pendingSpawn' = pendingSpawn \ {k},
             ~AuthSent(k), ~SpawnAsked(k),
             n = k => ~SpawnRead(n) /\ ~Spawned(n) /\ ~AuthRead(n)
                        /\ ~AnswerSent(n) /\ n \in used
                        /\ n \in players \cup dropped /\ ~AnswerQueued(n)',
             AnswerQueued(n)' => AnswerQueued(n),
             Once(pool'[n]["auth"], AuthResponse),
             down' = down, holder' = holder, used' = used, dropped' = dropped
      PROVE  OnePlaceOf(n)' /\ OnceThere(n)' /\ NotBefore(n)' /\ PlayerFirst(n)'
  <2>1. up' = [up EXCEPT ![k] = Append(@, SpawnRequest)]
    BY <1>i DEF TrySendSpawnCharacter
  <2>2. \A x \in {AuthRequest, SpawnRequest} :
           /\ Once(up'[n], x)
           /\ x \in Range(up'[n]) =>
                 x \in Range(up[n]) \/ (n = k /\ SpawnRequest = x)
    <3>1. n = k => SpawnRequest \notin Range(up[n])
      BY <1>i DEF SpawnAsked
    <3> QED
      BY <1>f, <1>h, <2>1, <3>1, UpAppend
  <2>3. OnceThere(n)'
    BY <1>b, <1>d, <1>g, <1>i, <2>2
  <2>4. /\ AuthSent(n)' => AuthSent(n)
        /\ SpawnAsked(n)' => SpawnAsked(n) \/ n = k
        /\ AnswerSent(n)' <=> AnswerSent(n)
        /\ Deferred(n)' => Deferred(n) /\ n # k
        /\ Open(n)' <=> Open(n)
    BY <1>c, <1>h, <1>i, <2>2 DEF AuthSent, SpawnAsked, AnswerSent, Deferred, Open
  <2> QED
    BY <1>a, <1>b, <1>i, <2>3, <2>4 DEF OnePlaceOf, NotBefore, PlayerFirst
<1>6. ASSUME NEW k \in Conn, EndUpdate(k)
      PROVE  OnePlaceOf(n)' /\ OnceThere(n)' /\ NotBefore(n)' /\ PlayerFirst(n)'
  <2>1. /\ used' = used /\ dropped' = dropped /\ holder' = holder
        /\ down' = down /\ pool' = pool
    BY <1>6 DEF EndUpdate
  <2>2. CASE UNCHANGED <<up, pendingSpawn>>
    BY <1>e, <1>f, <1>g, <2>1, <2>2
  <2>3. CASE k \in pendingSpawn /\ TrySendSpawnCharacter(k)
               /\ pendingSpawn' = pendingSpawn \ {k}
    <3>1. Deferred(k) /\ OnePlaceOf(k) /\ NotBefore(k) /\ PlayerFirst(k)
      BY <2>3 DEF Deferred, RequestInv
    <3>2. AnswerQueued(n)' <=> AnswerQueued(n)
      BY <1>c, <2>1 DEF AnswerQueued
    <3> QED
      BY <1>g, <1>i, <2>1, <2>3, <3>1, <3>2
         DEF OnePlaceOf, NotBefore, PlayerFirst
  <2> QED
    BY <1>6, <2>2, <2>3 DEF EndUpdate
<1>7. ASSUME NEW k \in Conn, HandleAuthResponse(k)
      PROVE  OnePlaceOf(n)' /\ OnceThere(n)' /\ NotBefore(n)' /\ PlayerFirst(n)'
  <2>1. /\ Dispatch(k, "auth") /\ "auth" \in DownType
        /\ \/ /\ TrySendSpawnCharacter(k)
              /\ pendingSpawn' = pendingSpawn \ {k}
           \/ /\ pendingSpawn' = pendingSpawn \cup {k}
              /\ up' = up
    BY <1>7 DEF HandleAuthResponse, DownType
  <2>2. /\ used' = used /\ dropped' = dropped /\ holder' = holder
        /\ down' = down
        /\ pool' = [pool EXCEPT ![k]["auth"] = Tail(@)]
        /\ pool[k]["auth"] \in Seq(DownMsgOf("auth")) /\ pool[k]["auth"] # <<>>
    BY <2>1 DEF Dispatch
  <2>3. Head(pool[k]["auth"]) = AuthResponse
    <3>1. Head(pool[k]["auth"]) \in DownMsgOf("auth")
      BY <2>2
    <3> QED
      BY <3>1, RequestMessages DEF DownMsgOf
  <2>4. /\ AnswerQueued(k)
        /\ OnePlaceOf(k) /\ NotBefore(k) /\ PlayerFirst(k)
    <3>1. AuthResponse \in Range(pool[k]["auth"])
      BY <2>2, <2>3, RangeHeadTail
    <3> QED
      BY <3>1 DEF AnswerQueued, RequestInv
  <2>5. pool'[n]["auth"] = IF n = k THEN Tail(pool[n]["auth"]) ELSE pool[n]["auth"]
    BY <2>1, <2>2
  <2>6. /\ Once(pool'[n]["auth"], AuthResponse)
        /\ AnswerQueued(n)' => AnswerQueued(n) /\ n # k
    <3>1. CASE n = k
      <4>1. /\ Once(Tail(pool[n]["auth"]), AuthResponse)
            /\ AuthResponse \notin Range(Tail(pool[n]["auth"]))
        BY <1>g, <2>2, <2>3, <3>1, OnceTail
      <4> QED
        BY <1>c, <2>5, <3>1, <4>1
    <3>2. CASE n # k
      BY <1>c, <1>g, <2>5, <3>2 DEF AnswerQueued
    <3> QED
      BY <3>1, <3>2
  <2>7. CASE TrySendSpawnCharacter(k) /\ pendingSpawn' = pendingSpawn \ {k}
    BY <1>i, <2>2, <2>4, <2>6, <2>7 DEF OnePlaceOf, NotBefore, PlayerFirst
  <2>8. CASE pendingSpawn' = pendingSpawn \cup {k} /\ up' = up
    <3>1. OnceThere(n)'
      BY <1>b, <1>d, <1>f, <1>g, <2>2, <2>6, <2>8
    <3>2. /\ AuthSent(n)' <=> AuthSent(n)
          /\ SpawnAsked(n)' <=> SpawnAsked(n)
          /\ AnswerSent(n)' <=> AnswerSent(n)
          /\ Deferred(n)' => Deferred(n) \/ n = k
          /\ Open(n)' <=> Open(n)
      BY <1>c, <2>2, <2>8 DEF AuthSent, SpawnAsked, AnswerSent, Deferred, Open
    <3> QED
      BY <1>a, <1>b, <2>2, <2>4, <2>6, <3>1, <3>2
         DEF OnePlaceOf, NotBefore, PlayerFirst
  <2> QED
    BY <2>1, <2>7, <2>8
<1>8. ASSUME NEW k \in Conn, NEW t \in DownType \ {"auth"}, Dispatch(k, t),
             up' = up, pendingSpawn' = pendingSpawn
      PROVE  OnePlaceOf(n)' /\ OnceThere(n)' /\ NotBefore(n)' /\ PlayerFirst(n)'
  <2>1. /\ used' = used /\ dropped' = dropped /\ holder' = holder
        /\ down' = down /\ pool' = [pool EXCEPT ![k][t] = Tail(@)]
    BY <1>8 DEF Dispatch
  <2>2. pool'[n]["auth"] = pool[n]["auth"]
    BY <2>1 DEF DownType
  <2> QED
    BY <1>e, <1>f, <1>g, <1>8, <2>1, <2>2
<1>9. ASSUME NEW k \in Conn, OnVehicleEnter(k) \/ OnVehicleExit(k)
      PROVE  OnePlaceOf(n)' /\ OnceThere(n)' /\ NotBefore(n)' /\ PlayerFirst(n)'
  <2>1. PICK m \in UpMsg : m.type \in {"enter", "exit"} /\ Ask(k, m)
    <3>1. k \in Conn /\ (\E i \in RequestIds(k) : TRUE) => RequestIds(k) \subseteq Conn \cup {None}
      BY <1>9, ClientAssumption DEF RequestIds, OnVehicleEnter, OnVehicleExit, Playing, Open
    <3>2. CASE OnVehicleEnter(k)
      <4>1. PICK i \in RequestIds(k), v \in cars[k] \cup {None}, driver \in BOOLEAN :
               Ask(k, EnterRequest(i, v, driver))
        BY <3>2 DEF OnVehicleEnter
      <4>2. i \in Conn \cup {None} /\ v \in Vehicle \cup {None}
        BY <3>1, <4>1
      <4>3. EnterRequest(i, v, driver) \in UpMsg
        BY <4>1, <4>2, MessageTypes
      <4> QED
        BY <4>1, <4>3 DEF EnterRequest
    <3>3. CASE OnVehicleExit(k)
      <4>1. PICK i \in RequestIds(k) : Ask(k, ExitRequest(i))
        BY <3>3 DEF OnVehicleExit
      <4>2. ExitRequest(i) \in UpMsg
        BY <3>1, <4>1, MessageTypes
      <4> QED
        BY <4>1, <4>2 DEF ExitRequest
    <3> QED
      BY <1>9, <3>2, <3>3
  <2>2. /\ up' = [up EXCEPT ![k] = Append(@, m)]
        /\ used' = used /\ dropped' = dropped /\ holder' = holder
        /\ down' = down /\ pool' = pool /\ pendingSpawn' = pendingSpawn
    BY <2>1 DEF Ask
  <2>3. m # AuthRequest /\ m # SpawnRequest
    BY <2>1 DEF AuthRequest, SpawnRequest
  <2>4. \A x \in {AuthRequest, SpawnRequest} :
           /\ Once(up'[n], x)
           /\ x \in Range(up'[n]) => x \in Range(up[n])
    BY <1>f, <2>1, <2>2, <2>3, UpAppend
  <2> QED
    BY <1>e, <1>g, <2>2, <2>4
<1> QED
  BY <1>1, <1>2, <1>3, <1>4, <1>5, <1>6, <1>7, <1>8, <1>9
     DEF ClientNext, ClientHandle, HandleCharacterLoad, HandleEntityUnload,
         HandleSpawnCharacterResponse, HandleVehicleLoad, HandleMounting, DownType

-----------------------------------------------------------------------------
(* The announcements after a step of the server, from what it sends.       *)
LEMMA ServerNews ==
    ASSUME TypeOK, AnnounceInv, NoMissingPuppet, UNCHANGED clientVars,
           holder' = holder, puppets' \subseteq Conn,
           puppets \cup dropped \subseteq puppets' \cup dropped',
           NEW box, \A n \in Conn : box[n] \in Seq(DownMsg), Post(box),
           \A n, p \in Conn : Once(box[n], Load(p)),
           \A n, p \in Conn : Load(p) \in Range(box[n]) =>
              /\ n # p /\ ~Told(n, p)
              /\ n \in puppets' \cup dropped' /\ p \in puppets' \cup dropped',
           \A n, p \in puppets' : n # p =>
              (n \in puppets /\ p \in puppets) \/ Load(p) \in Range(box[n])
    PROVE  AnnounceInv' /\ NoMissingPuppet'
<1>a. pool' = pool /\ view' = view
  BY DEF clientVars
<1>b. \A n, p :
         /\ Queued(n, Load(p))' <=> Queued(n, Load(p))
         /\ OnWay(n, Load(p))' <=> OnWire(n, Load(p))' \/ Queued(n, Load(p))
         /\ OnWay(n, Load(p)) <=> OnWire(n, Load(p)) \/ Queued(n, Load(p))
         /\ Told(n, p)' <=> OnWay(n, Load(p))' \/ view[n][p] # "unseen"
         /\ Told(n, p) <=> OnWay(n, Load(p)) \/ view[n][p] # "unseen"
  BY <1>a DEF Queued, OnWay, Told, Load, Range
<1>c. \A n \in Conn : \A m : OnWire(n, m)' <=>
         (OnWire(n, m) \/ (holder[n] # None /\ m \in Range(box[n])))
  BY PostNews
<1>1. ASSUME NEW n \in Conn, NEW p \in Conn
      PROVE  ToldOnce(n, p)' /\ ToldOfOthers(n, p)'
  <2>1. ToldOnce(n, p) /\ ToldOfOthers(n, p)
    BY DEF AnnounceInv
  <2>2. Load(p) \in Range(box[n]) => ~OnWire(n, Load(p)) /\ ~Queued(n, Load(p))
    BY <1>b
  <2>3. Once(down'[n], Load(p))
    <3>1. Load(p) \in Range(down[n]) => Load(p) \notin Range(box[n])
      BY <2>2 DEF OnWire
    <3> QED
      BY <2>1, <3>1, PostOnce DEF ToldOnce
  <2>4. Once(pool'[n]["load"], Load(p))
    BY <1>a, <2>1 DEF ToldOnce
  <2>5. /\ OnWire(n, Load(p))' => ~Queued(n, Load(p))'
        /\ OnWay(n, Load(p))' => view'[n][p] = "unseen"
    BY <1>a, <1>b, <1>c, <2>1, <2>2 DEF ToldOnce
  <2>6. ToldOfOthers(n, p)'
    BY <1>b, <1>c, <2>1 DEF ToldOfOthers
  <2>7. ToldOnce(n, p)' <=>
           /\ Once(down'[n], Load(p)) /\ Once(pool'[n]["load"], Load(p))
           /\ OnWire(n, Load(p))' => ~Queued(n, Load(p))'
           /\ OnWay(n, Load(p))' => view'[n][p] = "unseen"
    BY DEF ToldOnce, Once, Load
  <2> QED
    BY <2>3, <2>4, <2>5, <2>6, <2>7
<1>2. ASSUME NEW n \in puppets', NEW p \in puppets', n # p, Open(n)'
      PROVE  view'[n][p] \in {"shown", "skipped"} \/ OnWay(n, Load(p))'
  <2>1. holder[n] # None /\ n \in Conn /\ p \in Conn
    BY <1>2 DEF Open
  <2>2. CASE n \in puppets /\ p \in puppets
    <3>1. view[n][p] \in {"shown", "skipped"} \/ OnWay(n, Load(p))
      BY <1>2, <2>1, <2>2 DEF NoMissingPuppet, Open
    <3> QED
      BY <1>a, <1>b, <1>c, <2>1, <3>1
  <2>3. CASE Load(p) \in Range(box[n])
    BY <1>b, <1>c, <2>1, <2>3
  <2> QED
    BY <1>2, <2>2, <2>3
<1> QED
  BY <1>1, <1>2 DEF AnnounceInv, NoMissingPuppet

(* The server announces everyone in the level to everyone in it, once: a   *)
(* puppet and the viewer have not met before the later of them spawns.     *)
LEMMA ServerAnnounces ==
    ASSUME TypeOK, GhostInv, RequestInv, AnnounceInv, NoMissingPuppet,
           ServerNext, UNCHANGED clientVars
    PROVE  AnnounceInv' /\ NoMissingPuppet'
<1> USE DEF TypeOK, WireTypeOK, ServerTypeOK
<1>0. MembersLive
  BY DEF GhostInv
<1>a. \A n \in Conn : OnceThere(n) /\ OnePlaceOf(n)
  BY DEF RequestInv
(* A step that announces nobody and brings nobody into the level.          *)
<1>b. ASSUME NEW box, \A n \in Conn : box[n] \in Seq(DownMsg), Post(box),
             \A n, p \in Conn : Load(p) \notin Range(box[n]),
             holder' = holder, puppets' \subseteq puppets,
             puppets \cup dropped \subseteq puppets' \cup dropped'
      PROVE  AnnounceInv' /\ NoMissingPuppet'
  <2>1. \A n, p \in Conn : Once(box[n], Load(p))
    BY <1>b DEF Once, Range
  <2>2. puppets' \subseteq Conn
    BY <1>b
  <2> QED
    BY <1>b, <2>1, <2>2, ServerNews
<1>c. ASSUME down' = down, holder' = holder, puppets' \subseteq puppets,
             puppets \cup dropped \subseteq puppets' \cup dropped'
      PROVE  AnnounceInv' /\ NoMissingPuppet'
  <2>1. PICK box : /\ \A n \in Conn : box[n] \in Seq(DownMsg) /\ Range(box[n]) = {}
                   /\ Post(box)
    BY <1>c, SilentPost
  <2> QED
    BY <1>b, <1>c, <2>1
<1>1. ASSUME NEW n \in Conn, Receive(n)
      PROVE  AnnounceInv' /\ NoMissingPuppet'
  BY <1>1, <1>c DEF Receive
<1>2. CASE BeginDispatch \/ EndDispatch
  BY <1>2, <1>c DEF BeginDispatch, EndDispatch, wireVars
<1>3. ASSUME NEW n \in Conn, OnDisconnection(n)
      PROVE  AnnounceInv' /\ NoMissingPuppet'
  <2>1. /\ holder' = holder /\ puppets' = puppets \ {n}
        /\ dropped' = dropped \cup {n}
    BY <1>3 DEF OnDisconnection, Remove
  <2>2. CASE n \in puppets
    <3> DEFINE box == [m \in Conn |-> IF m \in players \ {n} THEN LeaveNews(n)
                                                           ELSE <<>>]
    <3>1. Post(box)
      BY <1>3, <2>2 DEF OnDisconnection, Remove
    <3>2. \A m \in Conn : box[m] \in Seq(DownMsg)
      BY MessageTypes DEF LeaveNews
    <3>3. \A m, p \in Conn : Load(p) \notin Range(box[m])
      <4>1. Range(<<>>) = {}
        BY DEF Range
      <4> QED
        BY <4>1, LeaveNewsHolds
    <3> HIDE DEF box
    <3> QED
      BY <1>b, <2>1, <3>1, <3>2, <3>3
  <2>3. CASE n \notin puppets
    BY <1>3, <1>c, <2>1, <2>3 DEF OnDisconnection
  <2> QED
    BY <2>2, <2>3
<1>4. ASSUME NEW e, HandleSpawnCharacterRequest(e)
      PROVE  AnnounceInv' /\ NoMissingPuppet'
  <2>1. Publish("spawn", e) /\ "spawn" \in UpType
    BY <1>4 DEF HandleSpawnCharacterRequest, UpType
  <2>2. /\ e.conn \in Live /\ e.conn \in Conn
        /\ dropped' = dropped /\ holder' = holder
    BY <1>0, <2>1, PublishLive, PublishType
  <2>3. CASE e.conn \in players
    <3> DEFINE others == puppets \ {e.conn}
    <3>1. puppets' = puppets \cup {e.conn}
      BY <1>4, <2>3 DEF HandleSpawnCharacterRequest
    <3>2. PICK order \in Orders(others) : Post(SpawnNews(e.conn, others, order))
      BY <1>4, <2>3 DEF HandleSpawnCharacterRequest
    <3>3. e.conn \notin puppets /\ e.conn \notin dropped
      <4>1. SpawnRead(e.conn)
        BY <1>a, <2>1, <2>2, PublishRequests
      <4> QED
        BY <1>a, <2>2, <4>1 DEF OnePlaceOf, Spawned, Live
    <3>4. others = puppets /\ others \in SUBSET Conn /\ e.conn \notin others
      BY <3>3
    <3> DEFINE box == SpawnNews(e.conn, others, order)
    <3>5. \A n \in Conn : box[n] \in Seq(DownMsg)
      BY <2>2, <3>4, SpawnNewsType
    <3> HIDE DEF others
    <3>6. \A n, p \in Conn :
             /\ Load(p) \in Range(SpawnNews(e.conn, others, order)[n]) <=>
                   \/ n = e.conn /\ p \in others
                   \/ n \in others /\ p = e.conn
             /\ Once(SpawnNews(e.conn, others, order)[n], Load(p))
      <4>1. e.conn \in Conn /\ others \in SUBSET Conn /\ e.conn \notin others
        BY <2>2, <3>4
      <4>2. TAKE n \in Conn, p \in Conn
      <4>3. ASSUME Load(p) \in Range(SpawnNews(e.conn, others, order)[n])
            PROVE  \/ n = e.conn /\ p \in others
                   \/ n \in others /\ p = e.conn
        <5>1. order \in Orders(others) /\ n \in Conn /\ p \in Conn
          BY <3>2
        <5> QED
          BY <4>1, <4>3, <5>1, ToldOfSpawn
      <4>5. ASSUME \/ n = e.conn /\ p \in others
                   \/ n \in others /\ p = e.conn
            PROVE  Load(p) \in Range(SpawnNews(e.conn, others, order)[n])
        BY <4>1, <4>5, SpawnNewsTells
      <4>4. Once(SpawnNews(e.conn, others, order)[n], Load(p))
        BY <4>1, SpawnNewsSays
      <4> QED
        BY <4>3, <4>4, <4>5
    <3>7. Post(box)
      BY <3>2
    <3>8. \A n, p \in Conn : Load(p) \in Range(box[n]) <=>
             (n = e.conn /\ p \in puppets) \/ (p = e.conn /\ n \in puppets)
      BY <3>4, <3>6
    <3>11. \A n, p \in Conn : Once(box[n], Load(p))
      BY <3>6
    <3> HIDE DEF box
    <3>9. \A n, p \in Conn : Load(p) \in Range(box[n]) =>
             /\ n # p /\ ~Told(n, p)
             /\ n \in puppets' \cup dropped' /\ p \in puppets' \cup dropped'
      BY <3>1, <3>3, <3>8 DEF AnnounceInv, ToldOfOthers
    <3>10. /\ \A n, p \in puppets' : n # p =>
                 (n \in puppets /\ p \in puppets) \/ Load(p) \in Range(box[n])
           /\ puppets' \subseteq Conn
           /\ puppets \cup dropped \subseteq puppets' \cup dropped'
      BY <2>2, <3>1, <3>8
    <3> QED
      BY <2>2, <3>5, <3>7, <3>9, <3>10, <3>11, ServerNews
  <2>4. CASE e.conn \notin players
    <3> DEFINE box == Broadcast({e.conn}, SpawnResponse(None))
    <3>1. Post(box) /\ puppets' = puppets
      BY <1>4, <2>4 DEF HandleSpawnCharacterRequest
    <3>2. \A n \in Conn : box[n] \in Seq(DownMsg)
      BY MessageTypes, BroadcastType
    <3>3. \A n, p \in Conn : Load(p) \notin Range(box[n])
      BY MessageKinds DEF Broadcast, Range
    <3> HIDE DEF box
    <3> QED
      BY <1>b, <2>2, <3>1, <3>2, <3>3
  <2> QED
    BY <2>3, <2>4
<1>5. ASSUME NEW e,
             \/ EnterKnownVehicle(e) \/ EnterNewVehicle(e) \/ RefuseEnter(e)
             \/ HandleExitVehicleRequest(e)
      PROVE  AnnounceInv' /\ NoMissingPuppet'
  <2>1. puppets' = puppets /\ dropped' = dropped /\ holder' = holder
    BY <1>5 DEF EnterKnownVehicle, EnterNewVehicle, RefuseEnter,
                HandleExitVehicleRequest, Publish
  <2>2. PICK box : /\ \A n \in Conn : box[n] \in Seq(DownMsg)
                   /\ Post(box)
                   /\ \A n \in Conn : \A m \in Range(box[n]) :
                         m.type \in {"vload", "venter", "vexit", "vcontrol"}
    BY <1>5, VehiclePosts
  <2>3. \A n, p \in Conn : Load(p) \notin Range(box[n])
    BY <2>2, MessageKinds
  <2> QED
    BY <1>b, <2>1, <2>2, <2>3
<1>6. ASSUME NEW e, HandleAuthentication(e)
      PROVE  AnnounceInv' /\ NoMissingPuppet'
  <2> DEFINE box == Broadcast({e.conn}, AuthResponse)
  <2>1. /\ Post(box)
        /\ puppets' = puppets /\ dropped' = dropped /\ holder' = holder
    BY <1>6 DEF HandleAuthentication, Publish
  <2>2. \A n \in Conn : box[n] \in Seq(DownMsg)
    BY MessageTypes, BroadcastType
  <2>3. \A n, p \in Conn : Load(p) \notin Range(box[n])
    BY MessageKinds DEF Broadcast, Range
  <2> HIDE DEF box
  <2> QED
    BY <1>b, <2>1, <2>2, <2>3
<1> QED
  BY <1>1, <1>2, <1>3, <1>4, <1>5, <1>6 DEF ServerNext, ServerHandle

-----------------------------------------------------------------------------
(* The announcements after a step of a client.                             *)
LEMMA ClientNews ==
    ASSUME TypeOK, AnnounceInv, NoMissingPuppet, RequestInv,
           UNCHANGED serverVars, dropped' = dropped,
           \A n \in Conn : Open(n)' => Open(n) \/ n \notin used,
           \A n, p \in Conn :
              /\ ToldOnce(n, p)'
              /\ Told(n, p)' => Told(n, p)
              /\ Open(n)' /\ p \notin dropped
                   /\ (view[n][p] \in {"shown", "skipped"} \/ OnWay(n, Load(p)))
                    => view'[n][p] \in {"shown", "skipped"} \/ OnWay(n, Load(p))',
           \A p \in puppets : p \notin dropped
    PROVE  AnnounceInv' /\ NoMissingPuppet'
<1>1. puppets' = puppets /\ puppets \subseteq Conn
  BY DEF serverVars, TypeOK, ServerTypeOK
<1>2. AnnounceInv'
  <2>1. \A n, p \in Conn : ToldOfOthers(n, p)'
    BY <1>1 DEF AnnounceInv, ToldOfOthers
  <2> QED
    BY <2>1 DEF AnnounceInv
<1>3. NoMissingPuppet'
  <2>1. \A n \in puppets : n \in used
    BY <1>1 DEF RequestInv, NotBefore, Spawned
  <2> QED
    BY <1>1, <2>1 DEF NoMissingPuppet
<1> QED
  BY <1>2, <1>3

(* What a dispatch of queue t leaves of the announcements of others.       *)
LEMMA DispatchNews ==
    ASSUME TypeOK, AnnounceInv, NEW n \in Conn, NEW t \in DownType, Dispatch(n, t),
           NEW k \in Conn, NEW p \in Conn
    PROVE  /\ Once(down'[k], Load(p)) /\ Once(pool'[k]["load"], Load(p))
           /\ OnWire(k, Load(p))' <=> OnWire(k, Load(p))
           /\ Queued(k, Load(p)) <=>
                 Queued(k, Load(p))' \/ (k = n /\ Load(p) = Head(pool[n][t]))
           /\ k = n /\ Load(p) = Head(pool[n][t]) => ~Queued(k, Load(p))'
<1>1. /\ down' = down
      /\ OnWire(k, Load(p))' <=> OnWire(k, Load(p))
      /\ Queued(k, Load(p)) <=>
            Queued(k, Load(p))' \/ (k = n /\ Load(p) = Head(pool[n][t]))
  BY DispatchTakes, MessageTypes
<1>2. ToldOnce(k, p)
  BY DEF AnnounceInv
<1>3. /\ pool[n][t] \in Seq(DownMsgOf(t)) /\ pool[n][t] # <<>>
      /\ \A u \in DownType :
            pool'[k][u] = IF k = n /\ u = t THEN Tail(pool[n][t]) ELSE pool[k][u]
  BY DEF Dispatch, TypeOK, ClientTypeOK
<1>4. "load" \in DownType /\ Load(p).type = "load"
  BY MessageKinds DEF DownType
<1>5. Head(pool[n][t]).type = t
  BY DispatchType
<1>6. CASE k = n /\ t = "load"
  <2>1. /\ Once(Tail(pool[n]["load"]), Load(p))
        /\ Load(p) \in Range(Tail(pool[n]["load"])) => Head(pool[n]["load"]) # Load(p)
    BY <1>2, <1>3, <1>6, OnceTail DEF ToldOnce
  <2>2. pool'[k]["load"] = Tail(pool[n]["load"])
    BY <1>3, <1>4, <1>6
  <2>3. Queued(k, Load(p))' <=> Load(p) \in Range(pool'[k]["load"])
    BY <1>4 DEF Queued, Load, Range
  <2> QED
    BY <1>1, <1>2, <1>6, <2>1, <2>2, <2>3 DEF ToldOnce
<1>7. CASE ~(k = n /\ t = "load")
  <2>1. pool'[k]["load"] = pool[k]["load"]
    BY <1>3, <1>4, <1>7
  <2> QED
    BY <1>1, <1>2, <1>4, <1>5, <1>7, <2>1 DEF ToldOnce
<1> QED
  BY <1>6, <1>7

(* A dispatch of anything but an announcement or a removal.                *)
LEMMA OtherDispatchNews ==
    ASSUME TypeOK, GhostInv, RequestInv, AnnounceInv, NoMissingPuppet,
           UNCHANGED serverVars, NEW n \in Conn,
           NEW t \in DownType \ {"load", "unload"}, Dispatch(n, t), view' = view
    PROVE  AnnounceInv' /\ NoMissingPuppet'
<1>1. holder' = holder /\ dropped' = dropped
  BY DispatchTakes
<1>2. \A p \in puppets : p \notin dropped
  BY DEF GhostInv, MembersLive, Live, TypeOK, ServerTypeOK
<1>3. ASSUME NEW k \in Conn, NEW p \in Conn
      PROVE  /\ ToldOnce(k, p)'
             /\ OnWay(k, Load(p))' <=> OnWay(k, Load(p))
  <2>1. /\ Once(down'[k], Load(p)) /\ Once(pool'[k]["load"], Load(p))
        /\ OnWire(k, Load(p))' <=> OnWire(k, Load(p))
        /\ Queued(k, Load(p)) <=>
              Queued(k, Load(p))' \/ (k = n /\ Load(p) = Head(pool[n][t]))
    BY DispatchNews
  <2>2. Head(pool[n][t]) # Load(p)
    <3>1. Head(pool[n][t]).type = t
      BY DispatchType DEF DownMsgOf
    <3>2. Load(p).type = "load"
      BY DEF Load
    <3> QED
      BY <3>1, <3>2
  <2>3. ToldOnce(k, p)
    BY DEF AnnounceInv
  <2>4. /\ OnWay(k, Load(p))' <=> OnWire(k, Load(p))' \/ Queued(k, Load(p))'
        /\ OnWay(k, Load(p)) <=> OnWire(k, Load(p)) \/ Queued(k, Load(p))
        /\ ToldOnce(k, p)' <=>
              /\ Once(down'[k], Load(p)) /\ Once(pool'[k]["load"], Load(p))
              /\ OnWire(k, Load(p))' => ~Queued(k, Load(p))'
              /\ OnWay(k, Load(p))' => view'[k][p] = "unseen"
    BY DEF OnWay, ToldOnce, Once, Load
  <2> QED
    BY <2>1, <2>2, <2>3, <2>4 DEF ToldOnce
<1>4. \A k, p \in Conn : Told(k, p)' => Told(k, p)
  BY <1>3 DEF Told
<1>5. \A k \in Conn : Open(k)' => Open(k)
  BY <1>1 DEF Open
<1> QED
  BY <1>1, <1>2, <1>3, <1>4, <1>5, ClientNews

(* The screen takes up the announcement, or skips it.                      *)
LEMMA LoadNews ==
    ASSUME TypeOK, GhostInv, RequestInv, AnnounceInv, NoMissingPuppet,
           UNCHANGED serverVars, NEW n \in Conn, HandleCharacterLoad(n)
    PROVE  AnnounceInv' /\ NoMissingPuppet'
<1> DEFINE p == Head(pool[n]["load"]).id
<1>0. Dispatch(n, "load") /\ "load" \in DownType
  BY DEF HandleCharacterLoad, DownType
<1>1. /\ holder' = holder /\ dropped' = dropped
      /\ Head(pool[n]["load"]) \in DownMsgOf("load")
  BY <1>0, DispatchTakes
<1>2. p \in Conn /\ Head(pool[n]["load"]) = Load(p)
  BY <1>1, MessageIs
<1>3. view' = [view EXCEPT ![n][p] = IF holder[n] \in ready THEN "shown"
                                     ELSE IF @ = "shown" THEN @ ELSE "skipped"]
  BY DEF HandleCharacterLoad
<1>4. view \in [Conn -> [Conn -> Life]]
  BY DEF TypeOK, ClientTypeOK
<1> HIDE DEF p
<1>5. /\ \A k, q \in Conn : k # n \/ q # p => view'[k][q] = view[k][q]
      /\ view'[n][p] \in {"shown", "skipped"}
  BY <1>2, <1>3, <1>4
<1>6. \A q \in puppets : q \notin dropped
  BY DEF GhostInv, MembersLive, Live, TypeOK, ServerTypeOK
<1>7. ASSUME NEW k \in Conn, NEW q \in Conn
      PROVE  /\ ToldOnce(k, q)'
             /\ Told(k, q)' => Told(k, q)
             /\ view[k][q] \in {"shown", "skipped"} \/ OnWay(k, Load(q)) =>
                   view'[k][q] \in {"shown", "skipped"} \/ OnWay(k, Load(q))'
  <2>1. /\ Once(down'[k], Load(q)) /\ Once(pool'[k]["load"], Load(q))
        /\ OnWire(k, Load(q))' <=> OnWire(k, Load(q))
        /\ Queued(k, Load(q)) <=>
              Queued(k, Load(q))' \/ (k = n /\ Load(q) = Load(p))
        /\ k = n /\ Load(q) = Load(p) => ~Queued(k, Load(q))'
    BY <1>0, <1>2, DispatchNews
  <2>2. ToldOnce(k, q)
    BY DEF AnnounceInv
  <2>3. /\ OnWay(k, Load(q))' <=> OnWire(k, Load(q))' \/ Queued(k, Load(q))'
        /\ OnWay(k, Load(q)) <=> OnWire(k, Load(q)) \/ Queued(k, Load(q))
        /\ ToldOnce(k, q)' <=>
              /\ Once(down'[k], Load(q)) /\ Once(pool'[k]["load"], Load(q))
              /\ OnWire(k, Load(q))' => ~Queued(k, Load(q))'
              /\ OnWay(k, Load(q))' => view'[k][q] = "unseen"
        /\ Told(k, q)' <=> OnWay(k, Load(q))' \/ view'[k][q] # "unseen"
        /\ Told(k, q) <=> OnWay(k, Load(q)) \/ view[k][q] # "unseen"
    BY DEF OnWay, ToldOnce, Once, Load, Told
  <2>4. CASE k = n /\ q = p
    BY <1>5, <2>1, <2>2, <2>3, <2>4 DEF ToldOnce
  <2>5. CASE ~(k = n /\ q = p)
    <3>1. ~(k = n /\ Load(q) = Load(p))
      BY <2>5, MessageKinds
    <3> QED
      BY <1>5, <2>1, <2>2, <2>3, <2>5, <3>1 DEF ToldOnce
  <2> QED
    BY <2>4, <2>5
<1>8. \A k \in Conn : Open(k)' => Open(k)
  BY <1>1 DEF Open
<1> QED
  BY <1>1, <1>6, <1>7, <1>8, ClientNews

(* The screen loses the puppet of a player who has gone.                   *)
LEMMA UnloadNews ==
    ASSUME TypeOK, GhostInv, RequestInv, AnnounceInv, NoMissingPuppet,
           UNCHANGED serverVars, NEW n \in Conn, HandleEntityUnload(n)
    PROVE  AnnounceInv' /\ NoMissingPuppet'
<1> DEFINE p == Head(pool[n]["unload"]).id
<1>0. Dispatch(n, "unload") /\ "unload" \in DownType
  BY DEF HandleEntityUnload, DownType
<1>1. /\ holder' = holder /\ dropped' = dropped
      /\ Head(pool[n]["unload"]) \in DownMsgOf("unload")
      /\ \A k \in Conn, m \in DownMsg :
            Queued(k, m) <=>
               Queued(k, m)' \/ (k = n /\ m = Head(pool[n]["unload"]))
  BY <1>0, DispatchTakes
<1>2. p \in Conn /\ Head(pool[n]["unload"]) = Unload(p)
  BY <1>1, MessageIs
<1>3. view' = [view EXCEPT ![n][p] = IF @ = "shown" THEN "gone" ELSE @]
  BY DEF HandleEntityUnload
<1>4. view \in [Conn -> [Conn -> Life]]
  BY DEF TypeOK, ClientTypeOK
<1> HIDE DEF p
<1>5. /\ \A k, q \in Conn : k # n \/ q # p => view'[k][q] = view[k][q]
      /\ view'[n][p] = IF view[n][p] = "shown" THEN "gone" ELSE view[n][p]
  BY <1>2, <1>3, <1>4
<1>6. \A q \in puppets : q \notin dropped
  BY DEF GhostInv, MembersLive, Live, TypeOK, ServerTypeOK
<1>9. p \in dropped
  <2>1. Queued(n, Unload(p))
    BY <1>1, <1>2, MessageTypes
  <2> QED
    BY <1>2, <2>1 DEF GhostInv, UnloadsOfTheGone, OnWay
<1>7. ASSUME NEW k \in Conn, NEW q \in Conn
      PROVE  /\ ToldOnce(k, q)'
             /\ Told(k, q)' => Told(k, q)
             /\ q \notin dropped => view'[k][q] = view[k][q]
             /\ OnWay(k, Load(q))' <=> OnWay(k, Load(q))
  <2>1. /\ Once(down'[k], Load(q)) /\ Once(pool'[k]["load"], Load(q))
        /\ OnWire(k, Load(q))' <=> OnWire(k, Load(q))
        /\ Queued(k, Load(q)) <=> Queued(k, Load(q))'
    BY <1>0, <1>2, DispatchNews, MessageKinds
  <2>2. ToldOnce(k, q)
    BY DEF AnnounceInv
  <2>3. /\ OnWay(k, Load(q))' <=> OnWire(k, Load(q))' \/ Queued(k, Load(q))'
        /\ OnWay(k, Load(q)) <=> OnWire(k, Load(q)) \/ Queued(k, Load(q))
        /\ ToldOnce(k, q)' <=>
              /\ Once(down'[k], Load(q)) /\ Once(pool'[k]["load"], Load(q))
              /\ OnWire(k, Load(q))' => ~Queued(k, Load(q))'
              /\ OnWay(k, Load(q))' => view'[k][q] = "unseen"
        /\ Told(k, q)' <=> OnWay(k, Load(q))' \/ view'[k][q] # "unseen"
        /\ Told(k, q) <=> OnWay(k, Load(q)) \/ view[k][q] # "unseen"
    BY DEF OnWay, ToldOnce, Once, Load, Told
  <2>4. /\ view[k][q] = "unseen" <=> view'[k][q] = "unseen"
        /\ q \notin dropped => view'[k][q] = view[k][q]
    BY <1>5, <1>9
  <2> QED
    BY <2>1, <2>2, <2>3, <2>4 DEF ToldOnce
<1>8. \A k \in Conn : Open(k)' => Open(k)
  BY <1>1 DEF Open
<1> QED
  BY <1>1, <1>6, <1>7, <1>8, ClientNews

(* The client reads one message.                                           *)
LEMMA ConsumeNews ==
    ASSUME TypeOK, GhostInv, RequestInv, AnnounceInv, NoMissingPuppet,
           UNCHANGED serverVars, NEW n \in Conn, OnConsume(n)
    PROVE  AnnounceInv' /\ NoMissingPuppet'
<1> DEFINE m == Head(down[n])
<1>1. /\ down[n] \in Seq(DownMsg) /\ down[n] # <<>> /\ m \in DownMsg
      /\ \A k \in Conn : down'[k] = IF k = n THEN Tail(down[n]) ELSE down[k]
      /\ \A k \in Conn, u \in DownType :
            pool'[k][u] = IF k = n /\ u = m.type
                          THEN Append(pool[n][u], m) ELSE pool[k][u]
      /\ \A k \in Conn, x \in DownMsg :
            /\ OnWire(k, x) <=> OnWire(k, x)' \/ (k = n /\ x = m)
            /\ Queued(k, x)' <=> Queued(k, x) \/ (k = n /\ x = m)
  BY ConsumeMoves
<1>2. /\ holder' = holder /\ dropped' = dropped /\ view' = view
      /\ pool \in [Conn -> [DownType -> Seq(DownMsg)]]
  BY DEF OnConsume, TypeOK, ClientTypeOK
<1>3. Range(down[n]) = {m} \cup Range(Tail(down[n])) /\ m \in Range(down[n])
  BY <1>1, RangeHeadTail
<1>4. \A q \in puppets : q \notin dropped
  BY DEF GhostInv, MembersLive, Live, TypeOK, ServerTypeOK
<1> HIDE DEF m
<1>7. ASSUME NEW k \in Conn, NEW p \in Conn
      PROVE  /\ ToldOnce(k, p)'
             /\ OnWay(k, Load(p))' <=> OnWay(k, Load(p))
  <2>1. ToldOnce(k, p) /\ Load(p) \in DownMsg
    BY MessageTypes DEF AnnounceInv
  <2>2. /\ OnWire(k, Load(p)) <=> OnWire(k, Load(p))' \/ (k = n /\ Load(p) = m)
        /\ Queued(k, Load(p))' <=> Queued(k, Load(p)) \/ (k = n /\ Load(p) = m)
    BY <1>1, <2>1
  <2>3. /\ OnWay(k, Load(p))' <=> OnWire(k, Load(p))' \/ Queued(k, Load(p))'
        /\ OnWay(k, Load(p)) <=> OnWire(k, Load(p)) \/ Queued(k, Load(p))
        /\ ToldOnce(k, p)' <=>
              /\ Once(down'[k], Load(p)) /\ Once(pool'[k]["load"], Load(p))
              /\ OnWire(k, Load(p))' => ~Queued(k, Load(p))'
              /\ OnWay(k, Load(p))' => view'[k][p] = "unseen"
        /\ OnWire(k, Load(p))' <=> Load(p) \in Range(down'[k])
        /\ Queued(k, Load(p)) <=> Load(p) \in Range(pool[k]["load"])
    BY DEF OnWay, OnWire, Queued, ToldOnce, Once, Load, Range
  <2>4. /\ Once(down'[k], Load(p))
        /\ k = n /\ Load(p) = m => ~OnWire(k, Load(p))'
    <3>1. CASE k = n
      <4>1. /\ Once(Tail(down[n]), Load(p))
            /\ Load(p) \in Range(Tail(down[n])) => m # Load(p)
        BY <1>1, <2>1, <3>1, OnceTail DEF m, ToldOnce
      <4> QED
        BY <1>1, <2>3, <3>1, <4>1
    <3>2. CASE k # n
      BY <1>1, <2>1, <3>2 DEF ToldOnce
    <3> QED
      BY <3>1, <3>2
  <2>5. Once(pool'[k]["load"], Load(p))
    <3>0. "load" \in DownType /\ pool[k]["load"] \in Seq(DownMsg)
      BY <1>2 DEF DownType
    <3>1. CASE k = n /\ m.type = "load"
      <4>1. Load(p) = m => Load(p) \notin Range(pool[k]["load"])
        BY <2>1, <2>2, <2>3, <3>1 DEF ToldOnce
      <4>2. Once(Append(pool[k]["load"], m), Load(p))
        BY <1>1, <2>1, <3>0, <4>1, OnceAppend DEF ToldOnce
      <4> QED
        BY <1>1, <3>0, <3>1, <4>2
    <3>2. CASE ~(k = n /\ m.type = "load")
      <4>1. pool'[k]["load"] = pool[k]["load"]
        BY <1>1, <3>0, <3>2
      <4> QED
        BY <2>1, <4>1 DEF ToldOnce
    <3> QED
      BY <3>1, <3>2
  <2> QED
    BY <1>2, <2>1, <2>2, <2>3, <2>4, <2>5 DEF ToldOnce
<1>8. \A k, p \in Conn : Told(k, p)' => Told(k, p)
  BY <1>2, <1>7 DEF Told
<1>9. \A k \in Conn : Open(k)' => Open(k)
  BY <1>2 DEF Open
<1> QED
  BY <1>2, <1>4, <1>7, <1>8, <1>9, ClientNews

(* The client loses its connection.                                        *)
LEMMA DisconnectNews ==
    ASSUME TypeOK, GhostInv, RequestInv, AnnounceInv, NoMissingPuppet,
           UNCHANGED serverVars, NEW n \in Conn, OnDisconnected(n)
    PROVE  AnnounceInv' /\ NoMissingPuppet'
<1>1. /\ \A k \in Conn : down'[k] = IF k = n THEN <<>> ELSE down[k]
      /\ \A k \in Conn : view'[k] = IF k = n THEN EmptyView ELSE view[k]
      /\ \A k \in Conn : holder'[k] = IF k = n THEN None ELSE holder[k]
      /\ pool' = pool /\ pool[n] = EmptyPool /\ dropped' = dropped
  BY DEF OnDisconnected, Idle, TypeOK, WireTypeOK, ClientTypeOK
<1>2. \A q \in puppets : q \notin dropped
  BY DEF GhostInv, MembersLive, Live, TypeOK, ServerTypeOK
<1>3. ASSUME NEW k \in Conn, NEW p \in Conn
      PROVE  /\ ToldOnce(k, p)'
             /\ Told(k, p)' => Told(k, p)
             /\ Open(k)' /\ (view[k][p] \in {"shown", "skipped"}
                                 \/ OnWay(k, Load(p))) =>
                   view'[k][p] \in {"shown", "skipped"} \/ OnWay(k, Load(p))'
  <2>1. ToldOnce(k, p)
    BY DEF AnnounceInv
  <2>2. /\ OnWay(k, Load(p))' <=> OnWire(k, Load(p))' \/ Queued(k, Load(p))'
        /\ OnWay(k, Load(p)) <=> OnWire(k, Load(p)) \/ Queued(k, Load(p))
        /\ ToldOnce(k, p)' <=>
              /\ Once(down'[k], Load(p)) /\ Once(pool'[k]["load"], Load(p))
              /\ OnWire(k, Load(p))' => ~Queued(k, Load(p))'
              /\ OnWay(k, Load(p))' => view'[k][p] = "unseen"
        /\ Told(k, p)' <=> OnWay(k, Load(p))' \/ view'[k][p] # "unseen"
        /\ Told(k, p) <=> OnWay(k, Load(p)) \/ view[k][p] # "unseen"
        /\ OnWire(k, Load(p))' <=> Load(p) \in Range(down'[k])
        /\ OnWire(k, Load(p)) <=> Load(p) \in Range(down[k])
        /\ Queued(k, Load(p)) <=> Load(p) \in Range(pool[k]["load"])
        /\ Queued(k, Load(p))' <=> Load(p) \in Range(pool'[k]["load"])
        /\ Open(k)' <=> holder'[k] # None
    BY DEF OnWay, OnWire, Queued, ToldOnce, Once, Load, Range, Told, Open
  <2>3. CASE k = n
    <3>1. /\ Load(p) \notin Range(<<>>) /\ Once(<<>>, Load(p))
          /\ view'[k][p] = "unseen" /\ pool'[k]["load"] = <<>>
      BY <1>1, <2>3 DEF Range, Once, EmptyView, EmptyPool, DownType
    <3> QED
      BY <1>1, <2>2, <2>3, <3>1
  <2>4. CASE k # n
    <3>1. view'[k] = view[k] /\ down'[k] = down[k] /\ pool'[k] = pool[k]
      BY <1>1, <2>4
    <3> QED
      BY <2>1, <2>2, <3>1 DEF ToldOnce
  <2> QED
    BY <2>3, <2>4
<1>4. \A k \in Conn : Open(k)' => Open(k)
  BY <1>1 DEF Open
<1> QED
  BY <1>1, <1>2, <1>3, <1>4, ClientNews

(* A step of a client that neither reads nor shows anything.               *)
LEMMA StillClientNews ==
    ASSUME TypeOK, GhostInv, RequestInv, AnnounceInv, NoMissingPuppet,
           UNCHANGED serverVars, dropped' = dropped,
           down' = down, pool' = pool, view' = view,
           \A n \in Conn : Open(n)' => Open(n) \/ n \notin used
    PROVE  AnnounceInv' /\ NoMissingPuppet'
<1>1. \A q \in puppets : q \notin dropped
  BY DEF GhostInv, MembersLive, Live, TypeOK, ServerTypeOK
<1>2. \A n, p \in Conn : /\ ToldOnce(n, p)' <=> ToldOnce(n, p)
                         /\ Told(n, p)' <=> Told(n, p)
                         /\ OnWay(n, Load(p))' <=> OnWay(n, Load(p))
  BY DEF ToldOnce, Told, OnWay, OnWire, Queued, Once, Load, Range
<1> QED
  BY <1>1, <1>2, ClientNews DEF AnnounceInv

LEMMA ClientAnnounces ==
    ASSUME TypeOK, GhostInv, RequestInv, AnnounceInv, NoMissingPuppet,
           ClientNext, UNCHANGED serverVars
    PROVE  AnnounceInv' /\ NoMissingPuppet'
<1>1. ASSUME NEW c \in Client, OnWorldAttached(c) \/ OnAfterWorldDetach(c)
      PROVE  AnnounceInv' /\ NoMissingPuppet'
  BY <1>1, StillClientNews DEF OnWorldAttached, OnAfterWorldDetach, wireVars, Open
<1>2. ASSUME NEW c \in Client, NEW n \in Conn, Connect(c, n)
      PROVE  AnnounceInv' /\ NoMissingPuppet'
  <2>1. down' = down /\ pool' = pool /\ view' = view /\ dropped' = dropped
    BY <1>2 DEF Connect, clientVars
  <2>2. \A k \in Conn : Open(k)' => Open(k) \/ k \notin used
    BY <1>2 DEF Connect, Open, TypeOK, WireTypeOK
  <2> QED
    BY <2>1, <2>2, StillClientNews
<1>3. ASSUME NEW n \in Conn, BeginUpdate(n) \/ EndUpdate(n)
      PROVE  AnnounceInv' /\ NoMissingPuppet'
  BY <1>3, StillClientNews DEF BeginUpdate, EndUpdate, wireVars, Open
<1>4. ASSUME NEW n \in Conn, OnVehicleEnter(n) \/ OnVehicleExit(n)
      PROVE  AnnounceInv' /\ NoMissingPuppet'
  BY <1>4, StillClientNews DEF OnVehicleEnter, OnVehicleExit, Ask, Open
<1>5. ASSUME NEW n \in Conn, HandleAuthResponse(n)
      PROVE  AnnounceInv' /\ NoMissingPuppet'
  BY <1>5, OtherDispatchNews DEF HandleAuthResponse, DownType
<1>6. ASSUME NEW n \in Conn, HandleSpawnCharacterResponse(n)
      PROVE  AnnounceInv' /\ NoMissingPuppet'
  BY <1>6, OtherDispatchNews DEF HandleSpawnCharacterResponse, DownType
<1>7. ASSUME NEW n \in Conn, HandleVehicleLoad(n)
      PROVE  AnnounceInv' /\ NoMissingPuppet'
  BY <1>7, OtherDispatchNews DEF HandleVehicleLoad, DownType
<1>8. ASSUME NEW n \in Conn, HandleMounting(n)
      PROVE  AnnounceInv' /\ NoMissingPuppet'
  BY <1>8, OtherDispatchNews DEF HandleMounting, DownType
<1> QED
  BY <1>1, <1>2, <1>3, <1>4, <1>5, <1>6, <1>7, <1>8, LoadNews, UnloadNews,
     ConsumeNews, DisconnectNews DEF ClientNext, ClientHandle

-----------------------------------------------------------------------------
LEMMA AnnounceInit == Init => RequestInv /\ AnnounceInv /\ NoMissingPuppet
<1> SUFFICES ASSUME Init
             PROVE  RequestInv /\ AnnounceInv /\ NoMissingPuppet
  OBVIOUS
<1>1. /\ used = {} /\ dropped = {} /\ players = {} /\ puppets = {}
      /\ pendingSpawn = {}
      /\ inbox["auth"] = <<>> /\ inbox["spawn"] = <<>>
      /\ \A n \in Conn : /\ up[n] = <<>> /\ down[n] = <<>> /\ holder[n] = None
                         /\ pool[n]["auth"] = <<>> /\ pool[n]["load"] = <<>>
                         /\ \A p \in Conn : view[n][p] = "unseen"
  BY DEF Init, WireInit, ServerInit, ClientInit, UpType, EmptyPool, EmptyView,
         DownType
<1>2. Range(<<>>) = {} /\ \A x : Once(<<>>, x)
  BY DEF Range, Once
<1>3. RequestInv
  <2> SUFFICES ASSUME NEW n \in Conn
               PROVE  OnePlaceOf(n) /\ OnceThere(n) /\ NotBefore(n) /\ PlayerFirst(n)
    BY DEF RequestInv
  <2>1. ~(\/ AuthSent(n) \/ AuthRead(n) \/ AnswerSent(n) \/ AnswerQueued(n)
          \/ Deferred(n) \/ SpawnAsked(n) \/ SpawnRead(n) \/ Spawned(n)
          \/ Open(n))
    BY <1>1, <1>2 DEF AuthSent, AuthRead, AnswerSent, AnswerQueued, Deferred,
                      SpawnAsked, SpawnRead, Spawned, Open
  <2>2. OnceThere(n)
    BY <1>1, <1>2 DEF OnceThere
  <2> QED
    BY <2>1, <2>2 DEF OnePlaceOf, NotBefore, PlayerFirst
<1>4. AnnounceInv
  <2> SUFFICES ASSUME NEW n \in Conn, NEW p \in Conn
               PROVE  ToldOnce(n, p) /\ ToldOfOthers(n, p)
    BY DEF AnnounceInv
  <2>1. ~OnWire(n, Load(p)) /\ ~Queued(n, Load(p))
    BY <1>1, MessageKinds DEF OnWire, Queued, Range
  <2> QED
    BY <1>1, <1>2, <2>1 DEF ToldOnce, ToldOfOthers, Told, OnWay
<1>5. NoMissingPuppet
  BY <1>1 DEF NoMissingPuppet
<1> QED
  BY <1>3, <1>4, <1>5

(* Who has asked, who has been told and who is in the level move together: *)
(* each part of the invariant needs the others.                            *)
RosterInv == GhostInv /\ RequestInv /\ AnnounceInv /\ NoMissingPuppet

LEMMA RosterStep == TypeOK /\ RosterInv /\ [Next]_vars => RosterInv'
<1> SUFFICES ASSUME TypeOK, RosterInv, [Next]_vars
             PROVE  RosterInv'
  OBVIOUS
<1> USE DEF RosterInv
<1>1. CASE ServerNext /\ UNCHANGED clientVars
  BY <1>1, ServerGhostStep, ServerRequests, ServerAnnounces
<1>2. CASE ClientNext /\ UNCHANGED serverVars
  BY <1>2, ClientGhostStep, ClientRequests, ClientAnnounces
<1>3. CASE UNCHANGED vars
  <2>1. /\ UNCHANGED serverVars /\ UNCHANGED clientVars /\ UNCHANGED wireVars
    BY <1>3 DEF vars
  <2>2. GhostInv'
    BY <2>1, StillClientGhosts DEF wireVars, clientVars, Live
  <2>3. RequestInv'
    BY <2>1 DEF RequestInv, OnePlaceOf, OnceThere, NotBefore, PlayerFirst,
                AuthSent, AuthRead, AnswerSent, AnswerQueued, Deferred,
                SpawnAsked, SpawnRead, Spawned, Open, Once, Range,
                wireVars, serverVars, clientVars
  <2>4. AnnounceInv' /\ NoMissingPuppet'
    BY <2>1, StillClientNews DEF wireVars, clientVars, Open
  <2> QED
    BY <2>2, <2>3, <2>4
<1> QED
  BY <1>1, <1>2, <1>3 DEF Next

LEMMA RosterCorrect == Spec => [](TypeOK /\ RosterInv)
<1>1. Init => RosterInv
  BY AnnounceInit, GhostInit DEF RosterInv
<1> QED
  BY <1>1, RosterStep, TypeCorrect, PTL DEF Spec

(* Two players in the level see each other, or the news is on the way:     *)
(* between the announcement of a new puppet and the snapshot its player is *)
(* sent, Level::AddPlayer leaves nobody out, whoever joins, leaves or is   *)
(* still loading.                                                          *)
THEOREM NobodyMissing == Spec => []NoMissingPuppet
<1>1. RosterInv => NoMissingPuppet
  BY DEF RosterInv
<1> QED
  BY <1>1, RosterCorrect, PTL

(* A player of a session spawns once: the deferred retry of the spawn      *)
(* request never sends a second one, none arrives before its player, and   *)
(* no screen is told of a puppet twice.                                    *)
THEOREM SpawnsOnce == Spec => []SpawnedOnce
<1>1. TypeOK /\ RosterInv => RequestedOnce
  <2> SUFFICES ASSUME TypeOK, RosterInv
               PROVE  RequestedOnce
    OBVIOUS
  <2>1. ASSUME NEW i \in DOMAIN inbox["spawn"]
        PROVE  /\ inbox["spawn"][i] = SpawnEvent(inbox["spawn"][i].conn)
               /\ inbox["spawn"][i].conn \in Live
               /\ inbox["spawn"][i].conn \in Conn
               /\ SpawnRead(inbox["spawn"][i].conn)
    <3>1. inbox["spawn"] \in Seq(Event("spawn")) /\ "spawn" \in UpType
      BY DEF TypeOK, ServerTypeOK, UpType
    <3>2. inbox["spawn"][i] \in Event("spawn")
      BY <3>1
    <3>3. /\ inbox["spawn"][i] = SpawnEvent(inbox["spawn"][i].conn)
          /\ inbox["spawn"][i].conn \in Conn
      BY <3>2, RequestMessages DEF Event
    <3>4. inbox["spawn"][i].conn \in Live
      BY <3>1 DEF RosterInv, GhostInv, MembersLive
    <3>5. SpawnRead(inbox["spawn"][i].conn)
      BY <3>3 DEF SpawnRead, Range
    <3> QED
      BY <3>3, <3>4, <3>5
  <2>2. ASSUME NEW i \in DOMAIN inbox["spawn"]
        PROVE  inbox["spawn"][i].conn \in players \ puppets
    BY <2>1 DEF RosterInv, RequestInv, OnePlaceOf, PlayerFirst, Live, Spawned
  <2>3. ASSUME NEW i \in DOMAIN inbox["spawn"], NEW j \in DOMAIN inbox["spawn"],
               inbox["spawn"][i].conn = inbox["spawn"][j].conn
        PROVE  i = j
    <3> DEFINE c == inbox["spawn"][i].conn
    <3>1. c \in Conn /\ inbox["spawn"][i] = SpawnEvent(c)
          /\ inbox["spawn"][j] = SpawnEvent(c)
      BY <2>1, <2>3
    <3>2. Once(inbox["spawn"], SpawnEvent(c))
      BY <3>1 DEF RosterInv, RequestInv, OnceThere
    <3> HIDE DEF c
    <3> QED
      BY <3>1, <3>2 DEF Once
  <2> QED
    BY <2>2, <2>3 DEF RequestedOnce
<1>2. TypeOK /\ RosterInv => AnnouncedOnce
  <2> SUFFICES ASSUME TypeOK, RosterInv, NEW n \in Conn, NEW p \in Conn,
                      OnWay(n, Load(p))
               PROVE  /\ view[n][p] = "unseen"
                      /\ Cardinality({i \in DOMAIN down[n] : down[n][i] = Load(p)})
                         + Cardinality({i \in DOMAIN pool[n]["load"] :
                                           pool[n]["load"][i] = Load(p)}) = 1
    BY DEF AnnouncedOnce
  <2>1. ToldOnce(n, p)
    BY DEF RosterInv, AnnounceInv
  <2> DEFINE Sent  == {i \in DOMAIN down[n] : down[n][i] = Load(p)}
             Here  == {i \in DOMAIN pool[n]["load"] :
                          pool[n]["load"][i] = Load(p)}
  <2>2. /\ OnWire(n, Load(p)) <=> Sent # {}
        /\ Queued(n, Load(p)) <=> Here # {}
    BY MessageKinds DEF OnWire, Queued, Range
  <2>3. /\ \A i, j \in Sent : i = j
        /\ \A i, j \in Here : i = j
    BY <2>1 DEF ToldOnce, Once
  <2>4. (Sent = {} /\ Here # {}) \/ (Sent # {} /\ Here = {})
    BY <2>1, <2>2 DEF ToldOnce, OnWay
  <2> HIDE DEF Sent, Here
  <2>5. \A S : S # {} /\ (\A i, j \in S : i = j) => Cardinality(S) = 1
    <3> SUFFICES ASSUME NEW S, S # {}, \A i, j \in S : i = j
                 PROVE  Cardinality(S) = 1
      OBVIOUS
    <3>1. PICK i : S = {i}
      OBVIOUS
    <3> QED
      BY <3>1, FS_Singleton
  <2>6. Cardinality({}) = 0
    BY FS_EmptySet
  <2>7. Cardinality(Sent) + Cardinality(Here) = 1
    BY <2>3, <2>4, <2>5, <2>6
  <2> QED
    BY <2>1, <2>7 DEF ToldOnce, Sent, Here
<1> QED
  BY <1>1, <1>2, RosterCorrect, PTL DEF SpawnedOnce

-----------------------------------------------------------------------------
(* The roster of the shared world: the substitution of SharedWorld, with   *)
(* the screens that are on.                                                *)
Watching == {n \in Conn : Open(n)}

(* A step of the server is a player who joins, one who leaves, or none.    *)
LEMMA ServerRoster ==
    ASSUME TypeOK, RosterInv, ServerNext, UNCHANGED clientVars
    PROVE  /\ Watching' = Watching /\ view' = view
           /\ \/ puppets' = puppets /\ dropped' = dropped
              \/ \E n \in Conn : Screens!Join(n)
              \/ \E n \in Conn : Screens!Leave(n)
<1> USE DEF TypeOK, WireTypeOK, ServerTypeOK
<1>1. view' = view
  BY DEF clientVars
<1>2. holder' = holder => Watching' = Watching
  BY DEF Watching, Open
<1>3. Watching = {n \in Conn : Open(n)} /\ Watching' = {n \in Conn : Open(n)'}
  BY DEF Watching
<1>4. CASE BeginDispatch \/ EndDispatch \/ \E n \in Conn : Receive(n)
  BY <1>1, <1>2, <1>4 DEF BeginDispatch, EndDispatch, Receive, wireVars
<1>5. ASSUME NEW n \in Conn, OnDisconnection(n)
      PROVE  Watching' = Watching /\ Screens!Leave(n)
  <2>1. /\ holder' = holder /\ n \in Live /\ dropped' = dropped \cup {n}
        /\ puppets' = puppets \ {n}
    BY <1>5 DEF OnDisconnection, Remove
  <2> QED
    BY <1>1, <1>2, <1>3, <2>1 DEF Screens!Leave, Live
<1>6. ASSUME NEW e, HandleSpawnCharacterRequest(e)
      PROVE  /\ Watching' = Watching
             /\ \/ puppets' = puppets /\ dropped' = dropped
                \/ \E n \in Conn : Screens!Join(n)
  <2>1. Publish("spawn", e) /\ "spawn" \in UpType /\ MembersLive
    BY <1>6 DEF HandleSpawnCharacterRequest, UpType, RosterInv, GhostInv
  <2>2. /\ e.conn \in Live /\ e.conn \in Conn
        /\ dropped' = dropped /\ holder' = holder
    BY <2>1, PublishLive, PublishType
  <2>3. CASE e.conn \in players
    <3>1. puppets' = puppets \cup {e.conn}
      BY <1>6, <2>3 DEF HandleSpawnCharacterRequest
    <3>2. e.conn \notin puppets
      <4>1. OnceThere(e.conn) /\ OnePlaceOf(e.conn)
        BY <2>2 DEF RosterInv, RequestInv
      <4>2. \A n \in Conn : OnceThere(n) /\ OnePlaceOf(n)
        BY DEF RosterInv, RequestInv
      <4>3. SpawnRead(e.conn)
        BY <2>1, <2>2, <4>2, PublishRequests
      <4> QED
        BY <4>1, <4>3 DEF OnePlaceOf, Spawned
    <3>3. Screens!Join(e.conn)
      BY <1>1, <1>2, <1>3, <2>2, <3>1, <3>2 DEF Screens!Join, Live
    <3> QED
      BY <1>2, <2>2, <3>3
  <2>4. CASE e.conn \notin players
    BY <1>2, <1>6, <2>2, <2>4 DEF HandleSpawnCharacterRequest
  <2> QED
    BY <2>3, <2>4
<1>7. ASSUME NEW e,
             \/ EnterKnownVehicle(e) \/ EnterNewVehicle(e) \/ RefuseEnter(e)
             \/ HandleExitVehicleRequest(e) \/ HandleAuthentication(e)
      PROVE  Watching' = Watching /\ puppets' = puppets /\ dropped' = dropped
  BY <1>2, <1>7 DEF EnterKnownVehicle, EnterNewVehicle, RefuseEnter,
                    HandleExitVehicleRequest, HandleAuthentication, Publish
<1> QED
  BY <1>1, <1>4, <1>5, <1>6, <1>7 DEF ServerNext, ServerHandle

(* No step of a client closes the server's end.                            *)
LEMMA ClientDrops ==
    ASSUME ClientNext
    PROVE  dropped' = dropped
BY DEF ClientNext, ClientHandle, OnWorldAttached, OnAfterWorldDetach, Connect,
       OnDisconnected, OnConsume, BeginUpdate, EndUpdate, OnVehicleEnter,
       OnVehicleExit, Ask, HandleAuthResponse, HandleCharacterLoad,
       HandleEntityUnload, HandleSpawnCharacterResponse, HandleVehicleLoad,
       HandleMounting, Dispatch, wireVars

(* A step of a client is a screen that is turned on or off, a puppet it     *)
(* shows or hides, or none.                                                *)
LEMMA ClientRoster ==
    ASSUME TypeOK, RosterInv, ClientNext, UNCHANGED serverVars
    PROVE  \/ Watching' = Watching /\ view' = view
           \/ \E n \in Conn : Screens!Watch(n) \/ Screens!StopWatching(n)
           \/ \E n, p \in Conn : Screens!Show(n, p) \/ Screens!Hide(n, p)
<1> USE DEF TypeOK, WireTypeOK, ServerTypeOK, ClientTypeOK
<1>1. puppets' = puppets
  BY DEF serverVars
<1>2. Watching = {n \in Conn : Open(n)} /\ Watching' = {n \in Conn : Open(n)'}
  BY DEF Watching
<1>3. holder' = holder => Watching' = Watching
  BY DEF Watching, Open
<1>4. ASSUME NEW c \in Client, NEW n \in Conn, Connect(c, n)
      PROVE  Screens!Watch(n)
  <2>1. /\ dropped' = dropped /\ view' = view /\ n \notin used
        /\ \A k \in Conn : holder'[k] = IF k = n THEN c ELSE holder[k]
    BY <1>4 DEF Connect, clientVars
  <2>2. ~Open(n) /\ n \notin puppets /\ n \notin dropped
    BY <2>1 DEF RosterInv, RequestInv, NotBefore, Spawned
  <2>3. Watching' = Watching \cup {n}
    BY <2>1, NoneAssumption DEF Watching, Open
  <2> QED
    BY <1>1, <1>2, <2>1, <2>2, <2>3 DEF Screens!Watch
<1>5. ASSUME NEW n \in Conn, OnDisconnected(n)
      PROVE  Screens!StopWatching(n)
  <2>1. /\ dropped' = dropped /\ Open(n)
        /\ view' = [view EXCEPT ![n] = EmptyView]
        /\ \A k \in Conn : holder'[k] = IF k = n THEN None ELSE holder[k]
    BY <1>5 DEF OnDisconnected
  <2>2. Watching' = Watching \ {n}
    BY <2>1 DEF Watching, Open
  <2> QED
    BY <1>1, <1>2, <2>1, <2>2
       DEF Screens!StopWatching, Screens!Blank, EmptyView
<1>6. ASSUME NEW n \in Conn, HandleCharacterLoad(n)
      PROVE  \E p \in Conn : Screens!Show(n, p)
  <2> DEFINE p == Head(pool[n]["load"]).id
  <2>0. Dispatch(n, "load") /\ "load" \in DownType
    BY <1>6 DEF HandleCharacterLoad, DownType
  <2>1. /\ holder' = holder /\ dropped' = dropped /\ pool[n] # EmptyPool
        /\ Head(pool[n]["load"]) \in DownMsgOf("load")
        /\ \A k \in Conn, m \in DownMsg :
              Queued(k, m) <=>
                 Queued(k, m)' \/ (k = n /\ m = Head(pool[n]["load"]))
    BY <2>0, DispatchTakes
  <2>2. p \in Conn /\ Head(pool[n]["load"]) = Load(p)
    BY <2>1, MessageIs
  <2>3. view' = [view EXCEPT ![n][p] = IF holder[n] \in ready THEN "shown"
                                       ELSE IF @ = "shown" THEN @ ELSE "skipped"]
    BY <1>6 DEF HandleCharacterLoad
  <2> HIDE DEF p
  <2>4. Queued(n, Load(p))
    BY <2>1, <2>2, MessageTypes
  <2>5. /\ view[n][p] = "unseen" /\ n # p
        /\ p \in puppets \cup dropped
    BY <2>2, <2>4 DEF RosterInv, AnnounceInv, ToldOnce, ToldOfOthers, Told, OnWay
  <2>6. Open(n)
    BY <2>1 DEF RosterInv, GhostInv, ClosedIsEmpty, Open
  <2>7. \E life \in {"shown", "skipped"} : view' = [view EXCEPT ![n][p] = life]
    <3>1. CASE holder[n] \in ready
      <4>1. view' = [view EXCEPT ![n][p] = "shown"]
        BY <2>2, <2>3, <3>1
      <4> QED
        BY <4>1
    <3>2. CASE holder[n] \notin ready
      <4>1. view' = [view EXCEPT ![n][p] = "skipped"]
        BY <2>2, <2>3, <2>5, <3>2
      <4> QED
        BY <4>1
    <3> QED
      BY <3>1, <3>2
  <2> QED
    BY <1>1, <1>2, <1>3, <2>1, <2>2, <2>5, <2>6, <2>7 DEF Screens!Show
<1>7. ASSUME NEW n \in Conn, HandleEntityUnload(n)
      PROVE  \/ Watching' = Watching /\ view' = view
             \/ \E p \in Conn : Screens!Hide(n, p)
  <2> DEFINE p == Head(pool[n]["unload"]).id
  <2>0. Dispatch(n, "unload") /\ "unload" \in DownType
    BY <1>7 DEF HandleEntityUnload, DownType
  <2>1. /\ holder' = holder /\ dropped' = dropped
        /\ Head(pool[n]["unload"]) \in DownMsgOf("unload")
        /\ \A k \in Conn, m \in DownMsg :
              Queued(k, m) <=>
                 Queued(k, m)' \/ (k = n /\ m = Head(pool[n]["unload"]))
    BY <2>0, DispatchTakes
  <2>2. p \in Conn /\ Head(pool[n]["unload"]) = Unload(p)
    BY <2>1, MessageIs
  <2>3. view' = [view EXCEPT ![n][p] = IF @ = "shown" THEN "gone" ELSE @]
    BY <1>7 DEF HandleEntityUnload
  <2> HIDE DEF p
  <2>4. p \in dropped
    <3>1. Queued(n, Unload(p))
      BY <2>1, <2>2, MessageTypes
    <3> QED
      BY <2>2, <3>1 DEF RosterInv, GhostInv, UnloadsOfTheGone, OnWay
  <2>5. CASE view[n][p] = "shown"
    <3>1. view' = [view EXCEPT ![n][p] = "gone"]
      BY <2>2, <2>3, <2>5
    <3>2. Screens!Hide(n, p)
      BY <1>1, <1>2, <1>3, <2>1, <2>4, <2>5, <3>1 DEF Screens!Hide
    <3> QED
      BY <2>2, <3>2
  <2>6. CASE view[n][p] # "shown"
    <3>1. view' = view
      BY <2>2, <2>3, <2>6
    <3> QED
      BY <1>3, <2>1, <3>1
  <2> QED
    BY <2>5, <2>6
<1>8. ASSUME NEW n \in Conn,
             \/ OnConsume(n) \/ BeginUpdate(n) \/ EndUpdate(n)
             \/ OnVehicleEnter(n) \/ OnVehicleExit(n)
             \/ HandleAuthResponse(n) \/ HandleSpawnCharacterResponse(n)
             \/ HandleVehicleLoad(n) \/ HandleMounting(n)
      PROVE  Watching' = Watching /\ view' = view
  BY <1>3, <1>8 DEF OnConsume, BeginUpdate, EndUpdate, OnVehicleEnter,
     OnVehicleExit, Ask, HandleAuthResponse, HandleSpawnCharacterResponse,
     HandleVehicleLoad, HandleMounting, Dispatch, wireVars
<1>9. ASSUME NEW c \in Client, OnWorldAttached(c) \/ OnAfterWorldDetach(c)
      PROVE  Watching' = Watching /\ view' = view
  BY <1>3, <1>9 DEF OnWorldAttached, OnAfterWorldDetach, wireVars
<1> QED
  BY <1>4, <1>5, <1>6, <1>7, <1>8, <1>9 DEF ClientNext, ClientHandle

(* The shared world implements the roster: whatever the channels, the      *)
(* dispatchers and the game's loading screens do, a player is shown to     *)
(* another at most once and only while or after being in the level, stays  *)
(* until after leaving it, and does not come back.                         *)
THEOREM Implementation == Spec => ImplementsRoster
<1>1. Init => Screens!RosterInit
  BY DEF Init, WireInit, ServerInit, ClientInit, Screens!RosterInit,
         Screens!Blank, EmptyView, Open
<1>2. TypeOK /\ RosterInv /\ [Next]_vars => [Screens!RosterNext]_Screens!rosterVars
  <2> SUFFICES ASSUME TypeOK, RosterInv, [Next]_vars
               PROVE  [Screens!RosterNext]_Screens!rosterVars
    OBVIOUS
  <2>1. Watching = {n \in Conn : Open(n)} /\ Watching' = {n \in Conn : Open(n)'}
    BY DEF Watching
  <2>2. CASE ServerNext /\ UNCHANGED clientVars
    BY <2>1, <2>2, ServerRoster DEF Screens!RosterNext, Screens!rosterVars
  <2>3. CASE ClientNext /\ UNCHANGED serverVars
    <3>1. puppets' = puppets
      BY <2>3 DEF serverVars
    <3>2. dropped' = dropped
      BY <2>3, ClientDrops
    <3> QED
      BY <2>1, <2>3, <3>1, <3>2, ClientRoster
         DEF Screens!RosterNext, Screens!rosterVars
  <2>4. CASE UNCHANGED vars
    <3>1. /\ puppets' = puppets /\ dropped' = dropped /\ view' = view
          /\ holder' = holder
      BY <2>4 DEF vars, wireVars, serverVars, clientVars
    <3>2. Watching' = Watching
      BY <3>1 DEF Watching, Open
    <3> QED
      BY <2>1, <3>1, <3>2 DEF Screens!rosterVars
  <2> QED
    BY <2>2, <2>3, <2>4 DEF Next
<1> QED
  BY <1>1, <1>2, RosterCorrect, PTL DEF Spec, ImplementsRoster, Screens!RosterSpec

-----------------------------------------------------------------------------
(* Riders.  Requests to get in and out that name the puppet of session n,   *)
(* on the wire and in the queues of the server.                            *)
Enters(m, n) == m.type = "enter" /\ m.id = n
Exits(m, n)  == m.type = "exit" /\ m.id = n

EntersIn(s, n) == \E i \in DOMAIN s : Enters(s[i], n)
ExitsIn(s, n)  == \E i \in DOMAIN s : Exits(s[i], n)

EnterRead(n) == \E i \in DOMAIN inbox["enter"] :
                   inbox["enter"][i].conn = n /\ Enters(inbox["enter"][i].msg, n)
ExitRead(n)  == \E i \in DOMAIN inbox["exit"] :
                   inbox["exit"][i].conn = n /\ Exits(inbox["exit"][i].msg, n)

(* Whoever gets in gets out later.                                         *)
GetsOut(s, n) ==
    \A i \in DOMAIN s : Enters(s[i], n) => \E j \in DOMAIN s : i < j /\ Exits(s[j], n)

Aboard(n)  == attached[n] # None \/ EnterRead(n)
Leaving(n) == ExitRead(n) \/ ExitsIn(up[n], n)

(* A client has one session at a time, and it is told its own id alone.     *)
OneHolder  == \A m, n \in Conn : holder[m] = holder[n] => m = n \/ holder[m] = None
OwnAnswers == \A n, p \in Conn : OnWay(n, SpawnResponse(p)) => p = n

(* Who rides, or is about to, knows the id under which it does and will     *)
(* ask under that id to get out; and who sits in no vehicle has asked.      *)
RiderOf(n) ==
    Open(n) =>
        /\ Aboard(n) \/ EntersIn(up[n], n) => remoteId[holder[n]] = n
        /\ n \notin mounted => GetsOut(up[n], n)
        /\ n \notin mounted /\ Aboard(n) => Leaving(n)

RidersInv == OneHolder /\ OwnAnswers /\ \A n \in Conn : RiderOf(n)

-----------------------------------------------------------------------------
(* The wire: what reading and writing do to who gets in and out.            *)
LEMMA TailRides ==
    ASSUME NEW S, NEW s \in Seq(S), s # <<>>, NEW n
    PROVE  /\ EntersIn(s, n) <=> Enters(Head(s), n) \/ EntersIn(Tail(s), n)
           /\ ExitsIn(s, n) <=> Exits(Head(s), n) \/ ExitsIn(Tail(s), n)
           /\ GetsOut(s, n) => /\ GetsOut(Tail(s), n)
                               /\ Enters(Head(s), n) => ExitsIn(Tail(s), n)
<1>1. /\ Tail(s) \in Seq(S)
      /\ Len(Tail(s)) = Len(s) - 1
      /\ \A i \in 1 .. Len(Tail(s)) : Tail(s)[i] = s[i + 1]
      /\ Len(s) \in Nat \ {0}
      /\ Head(s) = s[1]
  BY HeadTailProperties
<1>2. DOMAIN s = 1 .. Len(s) /\ DOMAIN Tail(s) = 1 .. Len(s) - 1
  BY <1>1
<1>3. \A i \in DOMAIN Tail(s) : i + 1 \in DOMAIN s /\ Tail(s)[i] = s[i + 1]
  BY <1>1, <1>2
<1>4. \A i \in DOMAIN s : i # 1 => i - 1 \in DOMAIN Tail(s) /\ Tail(s)[i - 1] = s[i]
  BY <1>1, <1>2
<1>5. 1 \in DOMAIN s
  BY <1>1, <1>2
<1>6. EntersIn(s, n) <=> Enters(Head(s), n) \/ EntersIn(Tail(s), n)
  BY <1>1, <1>3, <1>4, <1>5 DEF EntersIn
<1>7. ExitsIn(s, n) <=> Exits(Head(s), n) \/ ExitsIn(Tail(s), n)
  BY <1>1, <1>3, <1>4, <1>5 DEF ExitsIn
<1>8. ASSUME GetsOut(s, n), NEW i \in DOMAIN Tail(s), Enters(Tail(s)[i], n)
      PROVE  \E j \in DOMAIN Tail(s) : i < j /\ Exits(Tail(s)[j], n)
  <2>1. PICK j \in DOMAIN s : i + 1 < j /\ Exits(s[j], n)
    BY <1>3, <1>8 DEF GetsOut
  <2>2. j - 1 \in DOMAIN Tail(s) /\ i < j - 1 /\ Tail(s)[j - 1] = s[j]
    BY <1>1, <1>2, <2>1
  <2> QED
    BY <2>1, <2>2
<1>9. ASSUME GetsOut(s, n), Enters(Head(s), n)
      PROVE  ExitsIn(Tail(s), n)
  <2>1. PICK j \in DOMAIN s : 1 < j /\ Exits(s[j], n)
    BY <1>1, <1>5, <1>9 DEF GetsOut
  <2>2. j - 1 \in DOMAIN Tail(s) /\ Tail(s)[j - 1] = s[j]
    BY <1>1, <1>2, <2>1
  <2> QED
    BY <2>1, <2>2 DEF ExitsIn
<1> QED
  BY <1>6, <1>7, <1>8, <1>9 DEF GetsOut

LEMMA AppendRides ==
    ASSUME NEW S, NEW s \in Seq(S), NEW m \in S, NEW n
    PROVE  /\ EntersIn(Append(s, m), n) <=> EntersIn(s, n) \/ Enters(m, n)
           /\ ExitsIn(Append(s, m), n) <=> ExitsIn(s, n) \/ Exits(m, n)
           /\ GetsOut(s, n) /\ ~Enters(m, n) => GetsOut(Append(s, m), n)
           /\ Exits(m, n) => GetsOut(Append(s, m), n)
<1> DEFINE l == Len(s)
           t == Append(s, m)
<1>1. /\ DOMAIN t = 1 .. l + 1 /\ DOMAIN s = 1 .. l /\ l \in Nat
      /\ t[l + 1] = m
      /\ \A i \in 1 .. l : t[i] = s[i]
  BY AppendProperties
<1> HIDE DEF t, l
<1>2. EntersIn(t, n) <=> EntersIn(s, n) \/ Enters(m, n)
  BY <1>1 DEF EntersIn
<1>3. ExitsIn(t, n) <=> ExitsIn(s, n) \/ Exits(m, n)
  BY <1>1 DEF ExitsIn
<1>4. ASSUME GetsOut(s, n), ~Enters(m, n) PROVE GetsOut(t, n)
  BY <1>1, <1>4 DEF GetsOut
<1>5. ASSUME Exits(m, n) PROVE GetsOut(t, n)
  <2>1. ~Enters(m, n)
    BY <1>5 DEF Exits, Enters
  <2>2. \A i \in DOMAIN t : Enters(t[i], n) => i < l + 1
    BY <1>1, <2>1
  <2> QED
    BY <1>1, <1>5, <2>2 DEF GetsOut
<1> QED
  BY <1>2, <1>3, <1>4, <1>5 DEF t

(* A session whose requests and seat are left alone.                       *)
LEMMA RiderStays ==
    ASSUME NEW n \in Conn, RiderOf(n),
           Open(n)' => Open(n) /\ holder'[n] = holder[n]
                         /\ remoteId'[holder[n]] = remoteId[holder[n]],
           Open(n)' /\ n \in mounted => n \in mounted',
           up'[n] = up[n], attached'[n] = attached[n],
           EnterRead(n)' => EnterRead(n), ExitRead(n) => ExitRead(n)'
    PROVE  RiderOf(n)'
BY DEF RiderOf, Aboard, Leaving

(* One that sends what is no request to get in.                            *)
LEMMA RiderSends ==
    ASSUME TypeOK, NEW n \in Conn, RiderOf(n), NEW m \in UpMsg, m.type = "spawn",
           up' = [up EXCEPT ![n] = Append(@, m)],
           UNCHANGED <<holder, remoteId, mounted, attached, inbox>>
    PROVE  RiderOf(n)'
<1>1. up[n] \in Seq(UpMsg) /\ up'[n] = Append(up[n], m)
  BY DEF TypeOK, WireTypeOK
<1>2. ~Enters(m, n) /\ ~Exits(m, n)
  BY DEF Enters, Exits
<1>3. /\ EntersIn(up'[n], n) <=> EntersIn(up[n], n)
      /\ ExitsIn(up'[n], n) <=> ExitsIn(up[n], n)
      /\ GetsOut(up[n], n) => GetsOut(up'[n], n)
  BY <1>1, <1>2, AppendRides
<1> QED
  BY <1>3 DEF RiderOf, Aboard, Leaving, EnterRead, ExitRead, Open

(* The queues: what publishing an event does.                              *)
LEMMA PublishRides ==
    ASSUME TypeOK, NEW t \in UpType, NEW e, Publish(t, e), NEW n \in Conn
    PROVE  /\ EnterRead(n)' => EnterRead(n)
           /\ t = "enter" /\ e.conn = n /\ Enters(e.msg, n) => EnterRead(n)
           /\ ExitRead(n) => \/ ExitRead(n)'
                             \/ t = "exit" /\ e.conn = n /\ Exits(e.msg, n)
           /\ t = "exit" => ~EnterRead(n)'
           /\ holder' = holder /\ up' = up
<1>1. /\ inbox[t] \in Seq(Event(t)) /\ inbox[t] # <<>> /\ e = Head(inbox[t])
      /\ \A u \in UpType : inbox'[u] = IF u = t THEN Tail(inbox[t]) ELSE inbox[u]
      /\ holder' = holder /\ up' = up
      /\ \A u \in Earlier(t) : inbox[u] = <<>>
  BY DEF Publish, TypeOK, ServerTypeOK
<1> DEFINE s == inbox[t]
<1>2. /\ Len(s) \in Nat \ {0} /\ Head(s) = s[1]
      /\ DOMAIN s = 1 .. Len(s) /\ DOMAIN Tail(s) = 1 .. Len(s) - 1
      /\ \A i \in DOMAIN Tail(s) : Tail(s)[i] = s[i + 1]
  BY <1>1, HeadTailProperties
<1> HIDE DEF s
<1>3. /\ \A i \in DOMAIN Tail(s) : i + 1 \in DOMAIN s /\ Tail(s)[i] = s[i + 1]
      /\ \A i \in DOMAIN s : i = 1 \/ (i - 1 \in DOMAIN Tail(s) /\ Tail(s)[i - 1] = s[i])
      /\ 1 \in DOMAIN s /\ e = s[1]
  BY <1>1, <1>2 DEF s
<1>4. {"enter", "exit"} \subseteq UpType /\ "enter" \in Earlier("exit")
  BY DEF UpType, Earlier
<1>5. CASE t = "enter"
  <2>1. inbox["enter"] = s /\ inbox'["enter"] = Tail(s) /\ inbox'["exit"] = inbox["exit"]
    BY <1>1, <1>4, <1>5 DEF s
  <2> QED
    BY <1>1, <1>3, <1>5, <2>1 DEF EnterRead, ExitRead
<1>6. CASE t = "exit"
  <2>1. /\ inbox["exit"] = s /\ inbox'["exit"] = Tail(s)
        /\ inbox["enter"] = <<>> /\ inbox'["enter"] = <<>>
    BY <1>1, <1>4, <1>6 DEF s
  <2>2. ~EnterRead(n) /\ ~EnterRead(n)'
    BY <2>1 DEF EnterRead
  <2>3. ASSUME ExitRead(n) PROVE ExitRead(n)' \/ (e.conn = n /\ Exits(e.msg, n))
    <3>1. PICK i \in DOMAIN s : s[i].conn = n /\ Exits(s[i].msg, n)
      BY <2>1, <2>3 DEF ExitRead
    <3>2. CASE i = 1
      BY <1>3, <3>1, <3>2
    <3>3. CASE i # 1
      <4>1. \E j \in DOMAIN Tail(s) : Tail(s)[j].conn = n /\ Exits(Tail(s)[j].msg, n)
        BY <1>3, <3>1, <3>3
      <4> QED
        BY <2>1, <4>1 DEF ExitRead
    <3> QED
      BY <3>2, <3>3
  <2> QED
    BY <1>1, <1>6, <2>2, <2>3
<1>7. CASE t \notin {"enter", "exit"}
  <2>1. inbox'["enter"] = inbox["enter"] /\ inbox'["exit"] = inbox["exit"]
    BY <1>1, <1>4, <1>7
  <2> QED
    BY <1>1, <1>7, <2>1 DEF EnterRead, ExitRead
<1> QED
  BY <1>5, <1>6, <1>7

(* Reading passes a request from the wire to its queue.                    *)
LEMMA ReceiveRides ==
    ASSUME TypeOK, NEW k \in Conn, Receive(k), NEW n \in Conn
    PROVE  /\ up[k] \in Seq(UpMsg) /\ up[k] # <<>>
           /\ up'[n] = IF n = k THEN Tail(up[k]) ELSE up[n]
           /\ EnterRead(n)' <=> EnterRead(n) \/ (n = k /\ Enters(Head(up[k]), n))
           /\ ExitRead(n)' <=> ExitRead(n) \/ (n = k /\ Exits(Head(up[k]), n))
<1> DEFINE m == Head(up[k])
           e == [conn |-> k, msg |-> m]
<1>1. /\ up[k] \in Seq(UpMsg) /\ up[k] # <<>> /\ m \in UpMsg
      /\ up'[n] = IF n = k THEN Tail(up[k]) ELSE up[n]
  BY DEF Receive, TypeOK, WireTypeOK
<1>2. m.type \in UpType
  BY <1>1, MessageFields
<1>3. \A u \in UpType : inbox'[u] = IF u = m.type THEN Append(inbox[u], e) ELSE inbox[u]
  BY <1>2 DEF Receive, TypeOK, ServerTypeOK
<1>4. e \in Event(m.type) /\ e.conn = k /\ e.msg = m
  BY <1>1 DEF Event
<1>5. {"enter", "exit"} \subseteq UpType
  BY DEF UpType
<1> HIDE DEF m, e
<1>6. ASSUME NEW u \in UpType
      PROVE  /\ u # m.type => inbox'[u] = inbox[u]
             /\ u = m.type =>
                  /\ DOMAIN inbox'[u] = 1 .. Len(inbox[u]) + 1
                  /\ DOMAIN inbox[u] = 1 .. Len(inbox[u]) /\ Len(inbox[u]) \in Nat
                  /\ inbox'[u][Len(inbox[u]) + 1] = e
                  /\ \A i \in DOMAIN inbox[u] : inbox'[u][i] = inbox[u][i]
  <2>1. inbox[u] \in Seq(Event(u))
    BY DEF TypeOK, ServerTypeOK
  <2>2. CASE u = m.type
    <3>1. inbox[u] \in Seq(Event(u)) /\ e \in Event(u) /\ inbox'[u] = Append(inbox[u], e)
      BY <1>3, <1>4, <2>1, <2>2
    <3> QED
      BY <2>2, <3>1, AppendProperties
  <2>3. CASE u # m.type
    BY <1>3, <2>3
  <2> QED
    BY <2>2, <2>3
<1>7. EnterRead(n)' <=> EnterRead(n) \/ (n = k /\ Enters(m, n))
  <2>1. CASE m.type = "enter"
    BY <1>4, <1>5, <1>6, <2>1 DEF EnterRead
  <2>2. CASE m.type # "enter"
    BY <1>5, <1>6, <2>2 DEF EnterRead, Enters
  <2> QED
    BY <2>1, <2>2
<1>8. ExitRead(n)' <=> ExitRead(n) \/ (n = k /\ Exits(m, n))
  <2>1. CASE m.type = "exit"
    BY <1>4, <1>5, <1>6, <2>1 DEF ExitRead
  <2>2. CASE m.type # "exit"
    BY <1>5, <1>6, <2>2 DEF ExitRead, Exits
  <2> QED
    BY <2>1, <2>2
<1> QED
  BY <1>1, <1>7, <1>8 DEF m

-----------------------------------------------------------------------------
(* The server: requests to get in and out.                                 *)
LEMMA HandlerRides ==
    ASSUME TypeOK, NothingLeftBehind, UNCHANGED clientVars, NEW t \in UpType, NEW e,
           e = Head(inbox[t]), ServerHandle(e),
           NEW n \in Conn, RiderOf(n)
    PROVE  RiderOf(n)'
<1>0. /\ attached \in [Conn -> Vehicle \cup {None}]
      /\ remoteId' = remoteId /\ mounted' = mounted
      /\ attached[n] # None => n \in puppets
  BY DEF TypeOK, ServerTypeOK, NothingLeftBehind, clientVars
<1>a. {"spawn", "enter", "exit", "auth"} = UpType
  BY DEF UpType
<1>1. CASE HandleAuthentication(e) \/ HandleSpawnCharacterRequest(e) \/ RefuseEnter(e)
  <2>1. attached' = attached /\ \E u \in UpType \ {"exit"} : Publish(u, e)
    BY <1>1, <1>a DEF HandleAuthentication, HandleSpawnCharacterRequest, RefuseEnter
  <2>2. PICK u \in UpType \ {"exit"} : Publish(u, e)
    BY <2>1
  <2>3. /\ EnterRead(n)' => EnterRead(n)
        /\ ExitRead(n) => ExitRead(n)'
        /\ holder' = holder /\ up' = up
    BY <2>2, PublishRides
  <2> QED
    BY <1>0, <2>1, <2>3, RiderStays DEF Open
<1>2. CASE EnterKnownVehicle(e) \/ EnterNewVehicle(e)
  <2>1. /\ Publish("enter", e) /\ OwnedBy(e.msg.id, e.conn)
        /\ \E v : attached' = [attached EXCEPT ![e.msg.id] = v]
    BY <1>2 DEF EnterKnownVehicle, EnterNewVehicle
  <2>2. /\ EnterRead(n)' => EnterRead(n)
        /\ e.conn = n /\ Enters(e.msg, n) => EnterRead(n)
        /\ ExitRead(n) => ExitRead(n)'
        /\ holder' = holder /\ up' = up
    BY <1>a, <2>1, PublishRides
  <2>3. e.msg.type = "enter" /\ e.msg.id = e.conn
    BY <1>a, <2>1, PublishType DEF OwnedBy
  <2>4. CASE e.conn = n
    <3>1. EnterRead(n)
      BY <2>2, <2>3, <2>4 DEF Enters
    <3> QED
      BY <1>0, <2>2, <3>1 DEF RiderOf, Aboard, Leaving, Open
  <2>5. CASE e.conn # n
    <3>1. attached'[n] = attached[n]
      BY <1>0, <2>1, <2>3, <2>5
    <3> QED
      BY <1>0, <2>2, <3>1, RiderStays DEF Open
  <2> QED
    BY <2>4, <2>5
<1>3. CASE HandleExitVehicleRequest(e)
  <2>1. /\ Publish("exit", e)
        /\ IF OwnedBy(e.msg.id, e.conn) /\ attached[e.msg.id] # None
           THEN attached' = [attached EXCEPT ![e.msg.id] = None]
           ELSE attached' = attached
    BY <1>3 DEF HandleExitVehicleRequest
  <2>2. /\ EnterRead(n)' => EnterRead(n)
        /\ ExitRead(n) => ExitRead(n)' \/ (e.conn = n /\ Exits(e.msg, n))
        /\ ~EnterRead(n)'
        /\ holder' = holder /\ up' = up
    BY <1>a, <2>1, PublishRides
  <2>3. CASE e.conn = n /\ Exits(e.msg, n)
    <3>1. attached'[n] = None
      BY <1>0, <2>1, <2>3 DEF Exits, OwnedBy
    <3> QED
      BY <1>0, <2>2, <3>1 DEF RiderOf, Aboard, Open
  <2>4. CASE ~(e.conn = n /\ Exits(e.msg, n))
    <3>1. e.msg.type = "exit"
      BY <1>a, <2>1, PublishType
    <3>2. attached'[n] = attached[n]
      BY <1>0, <2>1, <2>4, <3>1 DEF Exits, OwnedBy
    <3> QED
      BY <1>0, <2>2, <2>4, <3>2, RiderStays DEF Open
  <2> QED
    BY <2>3, <2>4
<1> QED
  BY <1>1, <1>2, <1>3 DEF ServerHandle

LEMMA ServerRides ==
    ASSUME TypeOK, GhostInv, NothingLeftBehind, ServerNext, UNCHANGED clientVars,
           NEW n \in Conn, RiderOf(n)
    PROVE  RiderOf(n)'
<1>0. remoteId' = remoteId /\ mounted' = mounted
  BY DEF clientVars
<1>1. ASSUME NEW k \in Conn, Receive(k) PROVE RiderOf(n)'
  <2>1. holder' = holder /\ attached' = attached
    BY <1>1 DEF Receive
  <2>2. /\ up[k] \in Seq(UpMsg) /\ up[k] # <<>>
        /\ up'[n] = IF n = k THEN Tail(up[k]) ELSE up[n]
        /\ EnterRead(n)' <=> EnterRead(n) \/ (n = k /\ Enters(Head(up[k]), n))
        /\ ExitRead(n)' <=> ExitRead(n) \/ (n = k /\ Exits(Head(up[k]), n))
    BY <1>1, ReceiveRides
  <2>3. CASE n # k
    BY <1>0, <2>1, <2>2, <2>3, RiderStays DEF Open
  <2>4. CASE n = k
    <3>1. /\ EntersIn(up[n], n) <=> Enters(Head(up[n]), n) \/ EntersIn(up'[n], n)
          /\ ExitsIn(up[n], n) <=> Exits(Head(up[n]), n) \/ ExitsIn(up'[n], n)
          /\ GetsOut(up[n], n) => /\ GetsOut(up'[n], n)
                                  /\ Enters(Head(up[n]), n) => ExitsIn(up'[n], n)
      BY <2>2, <2>4, TailRides
    <3> QED
      BY <1>0, <2>1, <2>2, <2>4, <3>1 DEF RiderOf, Aboard, Leaving, Open
  <2> QED
    BY <2>3, <2>4
<1>2. ASSUME NEW k \in Conn, OnDisconnection(k) PROVE RiderOf(n)'
  <2>1. /\ holder' = holder /\ inbox' = inbox /\ phase = "callbacks"
        /\ up'[n] = IF n = k THEN <<>> ELSE up[n]
        /\ attached'[n] = IF n = k /\ k \in puppets THEN None ELSE attached[n]
    BY <1>2 DEF OnDisconnection, Remove, TypeOK, WireTypeOK, ServerTypeOK
  <2>2. inbox["enter"] = <<>>
    BY <2>1 DEF GhostInv, MembersLive, UpType
  <2>3. CASE n # k
    BY <1>0, <2>1, <2>3, RiderStays DEF Open, EnterRead, ExitRead
  <2>4. CASE n = k
    <3>1. attached'[n] = None
      BY <2>1, <2>4 DEF NothingLeftBehind
    <3>2. ~Aboard(n)'
      BY <2>1, <2>2, <3>1 DEF Aboard, EnterRead
    <3>3. up'[n] = <<>>
      BY <2>1, <2>4
    <3>4. GetsOut(up'[n], n) /\ ~EntersIn(up'[n], n)
      BY <3>3 DEF GetsOut, EntersIn
    <3> QED
      BY <3>2, <3>4 DEF RiderOf
  <2> QED
    BY <2>3, <2>4
<1>3. CASE BeginDispatch \/ EndDispatch
  BY <1>0, <1>3, RiderStays DEF BeginDispatch, EndDispatch, wireVars, Open, EnterRead, ExitRead
<1>4. ASSUME NEW t \in UpType, ServerHandle(Head(inbox[t])) PROVE RiderOf(n)'
  BY <1>4, HandlerRides
<1> QED
  BY <1>1, <1>2, <1>3, <1>4 DEF ServerNext

(* Nobody is told another's id.                                            *)
LEMMA SpawnNewsAnswers ==
    ASSUME NEW n \in Conn, NEW others \in SUBSET Conn,
           NEW order \in Orders(others), NEW m \in Conn, NEW p \in Conn,
           SpawnResponse(p) \in Range(SpawnNews(n, others, order)[m])
    PROVE  p = m
<1> DEFINE snapshot == [i \in DOMAIN order |-> Load(order[i])]
           news == SpawnNews(n, others, order)[m]
<1>0. \A q : SpawnResponse(p) # Load(q)
  BY MessageKinds
<1>1. order \in Seq(Conn)
  BY OrderType
<1>2. /\ snapshot \in Seq(DownMsg)
      /\ \A i \in DOMAIN snapshot : snapshot[i] = Load(order[i])
  BY <1>1, MessageTypes
<1>3. PICK i \in DOMAIN news : news[i] = SpawnResponse(p)
  BY DEF Range
<1>4. CASE m = n
  <2>1. news = <<SpawnResponse(n)>> \o snapshot
    BY <1>4 DEF SpawnNews
  <2> HIDE DEF snapshot, news
  <2>2. /\ DOMAIN news = 1 .. Len(snapshot) + 1 /\ Len(snapshot) \in Nat
        /\ news[1] = SpawnResponse(n)
        /\ \A j \in 2 .. Len(snapshot) + 1 :
              j - 1 \in DOMAIN snapshot /\ news[j] = snapshot[j - 1]
    BY <1>2, <2>1
  <2>3. i = 1
    BY <1>0, <1>2, <1>3, <2>2
  <2> QED
    BY <1>3, <1>4, <2>2, <2>3 DEF SpawnResponse
<1>5. CASE m # n
  <2>1. news = <<Load(n)>> \/ news = <<>>
    BY <1>5 DEF SpawnNews
  <2> QED
    BY <1>0, <1>3, <2>1
<1> QED
  BY <1>4, <1>5

LEMMA ServerAnswers ==
    ASSUME TypeOK, GhostInv, OwnAnswers, ServerNext, UNCHANGED clientVars
    PROVE  OwnAnswers'
<1> USE DEF TypeOK, WireTypeOK, ServerTypeOK
(* A step that posts only what is right.                                   *)
<1>a. ASSUME NEW box, \A n \in Conn : box[n] \in Seq(DownMsg), Post(box),
             \A n, p \in Conn : SpawnResponse(p) \in Range(box[n]) => p = n
      PROVE  OwnAnswers'
  <2>1. \A n \in Conn : \A m : OnWire(n, m)' <=>
            (OnWire(n, m) \/ (holder[n] # None /\ m \in Range(box[n])))
    BY <1>a, PostNews
  <2>2. \A n, m : Queued(n, m)' <=> Queued(n, m)
    BY DEF Queued, clientVars
  <2> QED
    BY <1>a, <2>1, <2>2 DEF OwnAnswers, OnWay
<1>b. ASSUME down' = down PROVE OwnAnswers'
  BY <1>b, <1>a, SilentPost
<1>c. /\ Range(<<>>) = {}
      /\ \A m : Range(<<m>>) = {m}
      /\ \A k, m : Range(<<k, m>>) = {k, m}
  BY DEF Range
<1>1. ASSUME NEW n \in Conn, Receive(n) PROVE OwnAnswers'
  BY <1>1, <1>b DEF Receive
<1>2. ASSUME NEW n \in Conn, OnDisconnection(n) PROVE OwnAnswers'
  <2>1. CASE n \notin puppets
    BY <1>2, <1>b, <2>1 DEF OnDisconnection
  <2>2. CASE n \in puppets
    <3> DEFINE box == [m \in Conn |-> IF m \in players \ {n} THEN LeaveNews(n) ELSE <<>>]
    <3>1. Post(box)
      BY <1>2, <2>2 DEF OnDisconnection, Remove
    <3>2. \A m \in Conn : box[m] \in Seq(DownMsg)
      BY MessageTypes DEF LeaveNews
    <3>3. ASSUME NEW p \in Conn, NEW m \in Conn, SpawnResponse(p) \in Range(box[m]) PROVE FALSE
      <4>1. box[m] \in {<<>>, <<Unload(n)>>, <<Unload(n), VehicleExit(n)>>}
        BY DEF LeaveNews
      <4>2. SpawnResponse(p) # Unload(n) /\ SpawnResponse(p) # VehicleExit(n)
        BY MessageKinds
      <4> HIDE DEF box
      <4> QED
        BY <1>c, <3>3, <4>1, <4>2
    <3> HIDE DEF box
    <3> QED
      BY <1>a, <3>1, <3>2, <3>3
  <2> QED
    BY <2>1, <2>2
<1>3. CASE BeginDispatch \/ EndDispatch
  BY <1>3, <1>b DEF BeginDispatch, EndDispatch, wireVars
<1>4. ASSUME NEW e, HandleAuthentication(e) PROVE OwnAnswers'
  <2> DEFINE box == Broadcast({e.conn}, AuthResponse)
  <2>1. Post(box) /\ \A m \in Conn : box[m] \in Seq(DownMsg)
    BY <1>4, MessageTypes, BroadcastType DEF HandleAuthentication
  <2>2. ASSUME NEW p \in Conn, NEW m \in Conn, SpawnResponse(p) \in Range(box[m]) PROVE FALSE
    <3>1. box[m] = <<AuthResponse>> \/ box[m] = <<>>
      BY DEF Broadcast
    <3>2. SpawnResponse(p) # AuthResponse
      BY MessageKinds
    <3> HIDE DEF box
    <3>3. Range(box[m]) = {AuthResponse} \/ Range(box[m]) = {}
      BY <1>c, <3>1
    <3> QED
      BY <2>2, <3>2, <3>3
  <2> HIDE DEF box
  <2> QED
    BY <1>a, <2>1, <2>2
<1>5. ASSUME NEW e, HandleSpawnCharacterRequest(e) PROVE OwnAnswers'
  <2>1. e.conn \in Conn
    BY <1>5, PublishType DEF HandleSpawnCharacterRequest, UpType
  <2>2. CASE e.conn \in players
    <3>1. PICK order \in Orders(puppets \ {e.conn}) :
             Post(SpawnNews(e.conn, puppets \ {e.conn}, order))
      BY <1>5, <2>2 DEF HandleSpawnCharacterRequest
    <3>2. \A m \in Conn : SpawnNews(e.conn, puppets \ {e.conn}, order)[m] \in Seq(DownMsg)
      BY <2>1, SpawnNewsType
    <3>3. \A m, p \in Conn :
             SpawnResponse(p) \in Range(SpawnNews(e.conn, puppets \ {e.conn}, order)[m]) => p = m
      BY <2>1, SpawnNewsAnswers
    <3> QED
      BY <1>a, <3>1, <3>2, <3>3
  <2>3. CASE e.conn \notin players
    <3> DEFINE box == Broadcast({e.conn}, SpawnResponse(None))
    <3>1. Post(box) /\ \A m \in Conn : box[m] \in Seq(DownMsg)
      BY <1>5, <2>3, MessageTypes, BroadcastType DEF HandleSpawnCharacterRequest
    <3>2. ASSUME NEW p \in Conn, NEW m \in Conn, SpawnResponse(p) \in Range(box[m]) PROVE FALSE
      <4>1. box[m] = <<SpawnResponse(None)>> \/ box[m] = <<>>
        BY DEF Broadcast
      <4>2. SpawnResponse(p) # SpawnResponse(None)
        BY NoneAssumption DEF SpawnResponse
      <4> HIDE DEF box
      <4>3. Range(box[m]) = {SpawnResponse(None)} \/ Range(box[m]) = {}
        BY <1>c, <4>1
      <4> QED
        BY <3>2, <4>2, <4>3
    <3> HIDE DEF box
    <3> QED
      BY <1>a, <3>1, <3>2
  <2> QED
    BY <2>2, <2>3
<1>6. ASSUME NEW e, \/ EnterKnownVehicle(e) \/ EnterNewVehicle(e) \/ RefuseEnter(e)
                    \/ HandleExitVehicleRequest(e)
      PROVE  OwnAnswers'
  <2>1. PICK box : /\ \A n \in Conn : box[n] \in Seq(DownMsg)
                   /\ Post(box)
                   /\ \A n \in Conn : \A m \in Range(box[n]) :
                         m.type \in {"vload", "venter", "vexit", "vcontrol"}
    BY <1>6, VehiclePosts
  <2>2. \A n, p \in Conn : SpawnResponse(p) \notin Range(box[n])
    BY <2>1, MessageKinds
  <2> QED
    BY <1>a, <2>1, <2>2
<1> QED
  BY <1>1, <1>2, <1>3, <1>4, <1>5, <1>6 DEF ServerNext, ServerHandle

-----------------------------------------------------------------------------
(* The client.                                                             *)
LEMMA ClientAnswers ==
    ASSUME TypeOK, OwnAnswers, ClientNext
    PROVE  OwnAnswers'
<1>0. \A p \in Conn : SpawnResponse(p) \in DownMsg
  BY MessageTypes
<1>a. ASSUME \A n, p \in Conn : OnWay(n, SpawnResponse(p))' => OnWay(n, SpawnResponse(p))
      PROVE  OwnAnswers'
  BY <1>a DEF OwnAnswers
<1>b. ASSUME down' = down, pool' = pool PROVE OwnAnswers'
  BY <1>b, <1>a DEF OnWay, OnWire, Queued
<1>c. ASSUME NEW n \in Conn, NEW t \in DownType, Dispatch(n, t) PROVE OwnAnswers'
  <2>1. /\ \A k, m : OnWire(k, m)' <=> OnWire(k, m)
        /\ \A k \in Conn, m \in DownMsg : Queued(k, m)' => Queued(k, m)
    BY <1>c, DispatchTakes
  <2> QED
    BY <1>0, <1>a, <2>1 DEF OnWay
<1>1. ASSUME NEW c \in Client, OnWorldAttached(c) \/ OnAfterWorldDetach(c) PROVE OwnAnswers'
  BY <1>1, <1>b DEF OnWorldAttached, OnAfterWorldDetach, wireVars
<1>2. ASSUME NEW c \in Client, NEW n \in Conn, Connect(c, n) PROVE OwnAnswers'
  BY <1>2, <1>b DEF Connect, clientVars
<1>3. ASSUME NEW n \in Conn, BeginUpdate(n) \/ EndUpdate(n) PROVE OwnAnswers'
  BY <1>3, <1>b DEF BeginUpdate, EndUpdate, wireVars
<1>4. ASSUME NEW n \in Conn, OnVehicleEnter(n) \/ OnVehicleExit(n) PROVE OwnAnswers'
  BY <1>4, <1>b DEF OnVehicleEnter, OnVehicleExit, Ask
<1>5. ASSUME NEW n \in Conn, OnDisconnected(n) PROVE OwnAnswers'
  <2>1. \A k \in Conn : down'[k] = IF k = n THEN <<>> ELSE down[k]
    BY <1>5 DEF OnDisconnected, TypeOK, WireTypeOK
  <2>2. \A k \in Conn : \A m : OnWire(k, m)' => OnWire(k, m)
    BY <2>1 DEF OnWire, Range
  <2>3. pool' = pool
    BY <1>5 DEF OnDisconnected
  <2> QED
    BY <1>a, <2>2, <2>3 DEF OnWay, Queued
<1>6. ASSUME NEW n \in Conn, OnConsume(n) PROVE OwnAnswers'
  <2>1. \A k \in Conn, x \in DownMsg :
           /\ OnWire(k, x) <=> OnWire(k, x)' \/ (k = n /\ x = Head(down[n]))
           /\ Queued(k, x)' <=> Queued(k, x) \/ (k = n /\ x = Head(down[n]))
    BY <1>6, ConsumeMoves
  <2> QED
    BY <1>0, <1>a, <2>1 DEF OnWay
<1>7. ASSUME NEW n \in Conn, ClientHandle(n) PROVE OwnAnswers'
  <2>1. \E t \in DownType : Dispatch(n, t)
    BY <1>7 DEF ClientHandle, HandleAuthResponse, HandleCharacterLoad, HandleEntityUnload,
                HandleSpawnCharacterResponse, HandleVehicleLoad, HandleMounting, DownType
  <2> QED
    BY <1>c, <2>1
<1> QED
  BY <1>1, <1>2, <1>3, <1>4, <1>5, <1>6, <1>7 DEF ClientNext

LEMMA ClientHolds == ASSUME TypeOK, OneHolder, ClientNext PROVE OneHolder'
<1> USE DEF OneHolder
<1>1. ASSUME NEW c \in Client, NEW n \in Conn, Connect(c, n) PROVE OneHolder'
  BY <1>1 DEF Connect, Offline, TypeOK, WireTypeOK
<1>2. ASSUME NEW n \in Conn, OnDisconnected(n) PROVE OneHolder'
  BY <1>2 DEF OnDisconnected, TypeOK, WireTypeOK
<1>3. ASSUME holder' = holder PROVE OneHolder'
  BY <1>3
<1>4. ClientNext => \/ \E c \in Client, n \in Conn : Connect(c, n)
                    \/ \E n \in Conn : OnDisconnected(n)
                    \/ holder' = holder
  BY DEF ClientNext, ClientHandle, OnWorldAttached, OnAfterWorldDetach, OnConsume, BeginUpdate,
         EndUpdate, HandleAuthResponse, HandleCharacterLoad, HandleEntityUnload,
         HandleSpawnCharacterResponse, HandleVehicleLoad, HandleMounting, Dispatch,
         OnVehicleEnter, OnVehicleExit, Ask, wireVars
<1> QED
  BY <1>1, <1>2, <1>3, <1>4

(* The id under which the others see the player, once it is told.           *)
LEMMA AnswerRides ==
    ASSUME TypeOK, OneHolder, OwnAnswers, UNCHANGED serverVars,
           NEW k \in Conn, HandleSpawnCharacterResponse(k), NEW n \in Conn, RiderOf(n)
    PROVE  RiderOf(n)'
<1> DEFINE p == Head(pool[k]["spawned"]).id
<1>1. /\ up' = up /\ holder' = holder /\ mounted' = mounted
      /\ remoteId' = IF p = None THEN remoteId ELSE [remoteId EXCEPT ![holder[k]] = p]
      /\ Dispatch(k, "spawned") /\ "spawned" \in DownType
  BY DEF HandleSpawnCharacterResponse, Dispatch, DownType
<1>2. Head(pool[k]["spawned"]) \in DownMsgOf("spawned")
  BY <1>1, DispatchTakes
<1>3. Head(pool[k]["spawned"]) = SpawnResponse(p) /\ p \in Conn \cup {None}
  BY <1>2 DEF DownMsgOf, DownMsg, SpawnResponse
<1>4. p # None => p = k
  <2>1. /\ pool[k]["spawned"] \in Seq(DownMsg) /\ pool[k]["spawned"] # <<>>
    BY <1>1 DEF Dispatch, TypeOK, ClientTypeOK
  <2>2. SpawnResponse(p) \in Range(pool[k]["spawned"])
    BY <1>3, <2>1, RangeHeadTail
  <2>3. Queued(k, SpawnResponse(p))
    BY <2>2, MessageKinds DEF Queued
  <2> QED
    BY <1>3, <2>3 DEF OwnAnswers, OnWay
<1>5. Open(n) => remoteId'[holder[n]] = remoteId[holder[n]] \/ remoteId'[holder[n]] = n
  BY <1>1, <1>4 DEF OneHolder, Open, TypeOK, WireTypeOK, ClientTypeOK
<1> HIDE DEF p
<1>6. attached' = attached /\ inbox' = inbox
  BY DEF serverVars
<1> QED
  BY <1>1, <1>5, <1>6 DEF RiderOf, Aboard, Leaving, EnterRead, ExitRead, Open

(* Getting in and out.                                                     *)
LEMMA EnterRides ==
    ASSUME TypeOK, Unset \subseteq {None}, UNCHANGED serverVars,
           NEW n \in Conn, OnVehicleEnter(n), RiderOf(n)
    PROVE  RiderOf(n)'
<1>1. PICK i \in RequestIds(n), v \in cars[n] \cup {None}, driver \in BOOLEAN :
         Ask(n, EnterRequest(i, v, driver))
  BY DEF OnVehicleEnter
<1> DEFINE m == EnterRequest(i, v, driver)
<1>2. /\ n \in mounted' /\ holder' = holder /\ remoteId' = remoteId
      /\ attached' = attached /\ inbox' = inbox
      /\ Open(n)
  BY <1>1 DEF OnVehicleEnter, Ask, TypeOK, ClientTypeOK, serverVars, Playing
<1>3. i = remoteId[holder[n]] \/ i = None
  BY DEF RequestIds
<1>4. m \in UpMsg
  <2>1. i \in Conn \cup {None}
    BY <1>2, <1>3, NoneAssumption DEF TypeOK, WireTypeOK, ClientTypeOK, Open
  <2>2. v \in Vehicle \cup {None}
    BY DEF TypeOK, ClientTypeOK
  <2> QED
    BY <2>1, <2>2, MessageTypes
<1>5. up[n] \in Seq(UpMsg) /\ up'[n] = Append(up[n], m)
  BY <1>1 DEF Ask, TypeOK, WireTypeOK
<1>6. Enters(m, n) => remoteId[holder[n]] = n
  BY <1>3, NoneAssumption DEF Enters, EnterRequest
<1> HIDE DEF m
<1>7. EntersIn(up'[n], n) <=> EntersIn(up[n], n) \/ Enters(m, n)
  BY <1>4, <1>5, AppendRides
<1> QED
  BY <1>2, <1>6, <1>7 DEF RiderOf, Aboard, EnterRead, Open

LEMMA ExitRides ==
    ASSUME TypeOK, UNCHANGED serverVars,
           NEW n \in Conn, OnVehicleExit(n), RiderOf(n)
    PROVE  RiderOf(n)'
<1>1. PICK i \in RequestIds(n) : Ask(n, ExitRequest(i))
  BY DEF OnVehicleExit
<1> DEFINE m == ExitRequest(i)
<1>2. /\ holder' = holder /\ remoteId' = remoteId
      /\ attached' = attached /\ inbox' = inbox
      /\ Open(n)
  BY <1>1 DEF OnVehicleExit, Ask, serverVars, Playing
<1>3. remoteId[holder[n]] = n => i = n
  BY NoneAssumption DEF RequestIds
<1>4. i \in Conn \cup {None}
  BY <1>2, ClientAssumption, NoneAssumption
     DEF RequestIds, TypeOK, WireTypeOK, ClientTypeOK, Open
<1>5. /\ m \in UpMsg /\ ~Enters(m, n)
      /\ i = n => Exits(m, n)
  BY <1>4, MessageTypes DEF Enters, Exits, ExitRequest
<1>6. up[n] \in Seq(UpMsg) /\ up'[n] = Append(up[n], m)
  BY <1>1 DEF Ask, TypeOK, WireTypeOK
<1> HIDE DEF m
<1>7. /\ EntersIn(up'[n], n) <=> EntersIn(up[n], n)
      /\ ExitsIn(up'[n], n) <=> ExitsIn(up[n], n) \/ Exits(m, n)
      /\ i = n => GetsOut(up'[n], n)
  BY <1>5, <1>6, AppendRides
<1>8. /\ Aboard(n)' <=> Aboard(n)
      /\ ExitRead(n)' <=> ExitRead(n)
  BY <1>2 DEF Aboard, EnterRead, ExitRead
<1>9. CASE Aboard(n) \/ EntersIn(up[n], n)
  <2>1. remoteId[holder[n]] = n /\ i = n
    BY <1>2, <1>3, <1>9 DEF RiderOf
  <2> QED
    BY <1>2, <1>5, <1>7, <1>8, <2>1 DEF RiderOf, Leaving, Open
<1>10. CASE ~(Aboard(n) \/ EntersIn(up[n], n))
  <2>1. GetsOut(up'[n], n)
    BY <1>7, <1>10 DEF GetsOut, EntersIn
  <2> QED
    BY <1>2, <1>7, <1>8, <1>10, <2>1 DEF RiderOf, Open
<1> QED
  BY <1>9, <1>10

LEMMA ClientRides ==
    ASSUME TypeOK, NothingLeftBehind, RidersInv, Reloaders = {}, Unset \subseteq {None},
           ClientNext, UNCHANGED serverVars, NEW n \in Conn
    PROVE  RiderOf(n)'
<1>0. RiderOf(n) /\ OneHolder /\ OwnAnswers
  BY DEF RidersInv
<1>00. /\ attached' = attached
       /\ EnterRead(n)' <=> EnterRead(n)
       /\ ExitRead(n)' <=> ExitRead(n)
  BY DEF serverVars, EnterRead, ExitRead
<1>a. ASSUME holder' = holder, remoteId' = remoteId, mounted' = mounted, up'[n] = up[n]
      PROVE  RiderOf(n)'
  BY <1>0, <1>00, <1>a, RiderStays DEF Open
<1>b. ASSUME NEW k \in Conn, TrySendSpawnCharacter(k), holder' = holder,
             remoteId' = remoteId, mounted' = mounted
      PROVE  RiderOf(n)'
  <2>1. CASE k = n
    <3>1. SpawnRequest \in UpMsg /\ SpawnRequest.type = "spawn"
      BY MessageTypes DEF SpawnRequest
    <3> QED
      BY <1>0, <1>b, <2>1, <3>1, RiderSends DEF TrySendSpawnCharacter, serverVars
  <2>2. CASE k # n
    BY <1>a, <1>b, <2>2 DEF TrySendSpawnCharacter, TypeOK, WireTypeOK
  <2> QED
    BY <2>1, <2>2
<1>1. ASSUME NEW c \in Client, OnWorldAttached(c) PROVE RiderOf(n)'
  BY <1>1, <1>a DEF OnWorldAttached, wireVars
<1>2. ASSUME NEW c \in Client, OnAfterWorldDetach(c) PROVE RiderOf(n)'
  BY <1>2 DEF OnAfterWorldDetach
<1>3. ASSUME NEW c \in Client, NEW k \in Conn, Connect(c, k) PROVE RiderOf(n)'
  <2>1. /\ remoteId' = remoteId /\ mounted' = mounted
        /\ holder'[n] = IF n = k THEN c ELSE holder[n]
        /\ up'[n] = IF n = k THEN <<AuthRequest>> ELSE up[n]
    BY <1>3 DEF Connect, clientVars, TypeOK, WireTypeOK
  <2>2. CASE n # k
    BY <1>0, <1>00, <2>1, <2>2, RiderStays DEF Open
  <2>3. CASE n = k
    <3>1. n \notin Live
      BY <1>3, <2>3 DEF Connect, Live
    <3>2. attached[n] = None
      BY <3>1 DEF NothingLeftBehind, TypeOK, ServerTypeOK
    <3>3. ~EnterRead(n)
      BY <3>1 DEF NothingLeftBehind, EnterRead, UpType
    <3>4. up'[n] = <<AuthRequest>>
      BY <2>1, <2>3
    <3>5. GetsOut(up'[n], n) /\ ~EntersIn(up'[n], n)
      BY <3>4 DEF GetsOut, EntersIn, Enters, AuthRequest
    <3> QED
      BY <1>00, <3>2, <3>3, <3>5 DEF RiderOf, Aboard
  <2> QED
    BY <2>2, <2>3
<1>4. ASSUME NEW k \in Conn, OnDisconnected(k) PROVE RiderOf(n)'
  <2>1. /\ remoteId' = remoteId /\ mounted' = mounted \ {k} /\ up' = up
        /\ holder'[n] = IF n = k THEN None ELSE holder[n]
    BY <1>4 DEF OnDisconnected, TypeOK, WireTypeOK
  <2> QED
    BY <1>0, <1>00, <2>1, RiderStays DEF Open
<1>5. ASSUME NEW k \in Conn, OnConsume(k) \/ BeginUpdate(k) PROVE RiderOf(n)'
  BY <1>5, <1>a DEF OnConsume, BeginUpdate, wireVars
<1>6. ASSUME NEW k \in Conn, EndUpdate(k) PROVE RiderOf(n)'
  BY <1>6, <1>a, <1>b DEF EndUpdate
<1>7. ASSUME NEW k \in Conn, HandleAuthResponse(k) PROVE RiderOf(n)'
  BY <1>7, <1>a, <1>b DEF HandleAuthResponse, Dispatch
<1>8. ASSUME NEW k \in Conn, \/ HandleCharacterLoad(k) \/ HandleEntityUnload(k)
                             \/ HandleVehicleLoad(k) \/ HandleMounting(k)
      PROVE  RiderOf(n)'
  BY <1>8, <1>a DEF HandleCharacterLoad, HandleEntityUnload, HandleVehicleLoad, HandleMounting,
                    Dispatch
<1>9. ASSUME NEW k \in Conn, HandleSpawnCharacterResponse(k) PROVE RiderOf(n)'
  BY <1>0, <1>9, AnswerRides
<1>10. ASSUME NEW k \in Conn, OnVehicleEnter(k) \/ OnVehicleExit(k) PROVE RiderOf(n)'
  <2>1. CASE k = n
    BY <1>0, <1>10, <2>1, EnterRides, ExitRides
  <2>2. CASE k # n
    <3>1. /\ holder' = holder /\ remoteId' = remoteId /\ up'[n] = up[n]
          /\ n \in mounted => n \in mounted'
      BY <1>10, <2>2 DEF OnVehicleEnter, OnVehicleExit, Ask, TypeOK, WireTypeOK
    <3> QED
      BY <1>0, <1>00, <3>1, RiderStays DEF Open
  <2> QED
    BY <2>1, <2>2
<1> QED
  BY <1>1, <1>2, <1>3, <1>4, <1>5, <1>6, <1>7, <1>8, <1>9, <1>10 DEF ClientNext, ClientHandle

-----------------------------------------------------------------------------
LEMMA RidersStep ==
    ASSUME TypeOK, GhostInv, NothingLeftBehind, RidersInv,
           Reloaders = {}, Unset \subseteq {None}, [Next]_vars
    PROVE  RidersInv'
<1>1. CASE ServerNext /\ UNCHANGED clientVars
  <2>1. OneHolder'
    <3>1. holder' = holder
      BY <1>1 DEF ServerNext, ServerHandle, Receive, OnDisconnection, BeginDispatch, EndDispatch,
                  HandleAuthentication, HandleSpawnCharacterRequest, EnterKnownVehicle,
                  EnterNewVehicle, RefuseEnter, HandleExitVehicleRequest, Publish, wireVars
    <3> QED
      BY <3>1 DEF RidersInv, OneHolder
  <2> QED
    BY <1>1, <2>1, ServerAnswers, ServerRides DEF RidersInv
<1>2. CASE ClientNext /\ UNCHANGED serverVars
  BY <1>2, ClientHolds, ClientAnswers, ClientRides DEF RidersInv
<1>3. CASE UNCHANGED vars
  <2>1. \A n \in Conn : RiderOf(n)'
    BY <1>3, RiderStays
       DEF RidersInv, Open, EnterRead, ExitRead, vars, wireVars, serverVars, clientVars
  <2>2. OneHolder' /\ OwnAnswers'
    BY <1>3 DEF RidersInv, OneHolder, OwnAnswers, OnWay, OnWire, Queued,
                vars, wireVars, clientVars
  <2> QED
    BY <2>1, <2>2 DEF RidersInv
<1> QED
  BY <1>1, <1>2, <1>3 DEF Next

(* A player who has got out does not go on riding for the others, in       *)
(* whatever order requests, answers and sessions come (Level.cpp:31,       *)
(* VehicleSystem.cpp:58-112): as long as nobody loads another save, which   *)
(* reports no unmounting, and an id that is not set is nobody's.           *)
THEOREM NobodyRidesOn ==
    ASSUME Reloaders = {}, Unset \subseteq {None}
    PROVE  Spec => []NoGhostRider
<1>1. Init => RidersInv
  <2> SUFFICES ASSUME Init
               PROVE  RidersInv
    OBVIOUS
  <2>1. \A n \in Conn : holder[n] = None /\ down[n] = <<>> /\ pool[n] = EmptyPool
    BY DEF Init, WireInit, ClientInit
  <2>2. \A n, p \in Conn : ~OnWay(n, SpawnResponse(p))
    BY <2>1, MessageKinds DEF OnWay, OnWire, Queued, Range, EmptyPool, DownType
  <2> QED
    BY <2>1, <2>2 DEF RidersInv, OneHolder, OwnAnswers, RiderOf, Open
<1>2. TypeOK /\ GhostInv /\ NothingLeftBehind /\ RidersInv /\ [Next]_vars => RidersInv'
  BY RidersStep
<1>3. RidersInv => NoGhostRider
  <2> SUFFICES ASSUME RidersInv, NEW n \in Conn, attached[n] # None, Open(n), ~Riding(n)
               PROVE  n \in mounted
    BY DEF NoGhostRider
  <2>1. ~Leaving(n)
    BY DEF Riding, Leaving, ExitRead, ExitsIn, Exits
  <2> QED
    BY <2>1 DEF RidersInv, RiderOf, Aboard
<1>4. RosterInv => GhostInv
  BY DEF RosterInv
<1> QED
  BY <1>1, <1>2, <1>3, <1>4, RosterCorrect, CleanLeave, PTL DEF Spec
=============================================================================
