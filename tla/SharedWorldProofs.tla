------------------------- MODULE SharedWorldProofs -------------------------
(***************************************************************************)
(* Theorems about the shared world, for any clients, connections, vehicles *)
(* and cells.                                                              *)
(***************************************************************************)
EXTENDS SharedWorld, FiniteSetTheorems, SequenceTheorems, TLAPS

-----------------------------------------------------------------------------
(* What the types of the messages say of their fields.                     *)
LEMMA MessageFields ==
    /\ \A m \in UpMsg : m.type \in UpType
    /\ \A m \in UpMsg : m.type = "enter" =>
          /\ m.id \in Conn \cup {None}
          /\ m.vehicle \in Vehicle \cup {None}
          /\ m.driver \in BOOLEAN
    /\ \A m \in UpMsg : m.type = "exit" => m.id \in Conn \cup {None}
    /\ \A m \in DownMsg : m.type \in DownType
    /\ \A m \in DownMsg : m.type \in {"load", "unload", "vexit"} => m.id \in Conn
    /\ \A m \in DownMsg : m.type = "spawned" => m.id \in Conn \cup {None}
    /\ \A m \in DownMsg : m.type \in {"vload", "vcontrol"} => m.vehicle \in Vehicle
BY DEF UpMsg, DownMsg, UpType, DownType

LEMMA MessageTypes ==
    /\ AuthRequest \in UpMsg /\ SpawnRequest \in UpMsg
    /\ \A i \in Conn \cup {None}, v \in Vehicle \cup {None}, d \in BOOLEAN :
          EnterRequest(i, v, d) \in UpMsg
    /\ \A i \in Conn \cup {None} : ExitRequest(i) \in UpMsg
    /\ AuthResponse \in DownMsg
    /\ \A p \in Conn : /\ Load(p) \in DownMsg
                       /\ Unload(p) \in DownMsg
                       /\ VehicleExit(p) \in DownMsg
                       /\ \A v \in Vehicle : VehicleEnter(p, v) \in DownMsg
    /\ \A p \in Conn \cup {None} : SpawnResponse(p) \in DownMsg
    /\ \A v \in Vehicle : VehicleLoad(v) \in DownMsg /\ VehicleControl(v) \in DownMsg
<1>1. \A i \in Conn \cup {None}, v \in Vehicle \cup {None}, d \in BOOLEAN :
          EnterRequest(i, v, d) \in UpMsg
  BY DEF EnterRequest, UpMsg
<1>2. /\ AuthRequest \in UpMsg /\ SpawnRequest \in UpMsg
      /\ \A i \in Conn \cup {None} : ExitRequest(i) \in UpMsg
  BY DEF AuthRequest, SpawnRequest, ExitRequest, UpMsg
<1>3. \A p \in Conn, v \in Vehicle : VehicleEnter(p, v) \in DownMsg
  BY DEF VehicleEnter, DownMsg
<1>4. /\ AuthResponse \in DownMsg
      /\ \A p \in Conn : /\ Load(p) \in DownMsg
                         /\ Unload(p) \in DownMsg
                         /\ VehicleExit(p) \in DownMsg
      /\ \A p \in Conn \cup {None} : SpawnResponse(p) \in DownMsg
      /\ \A v \in Vehicle : VehicleLoad(v) \in DownMsg /\ VehicleControl(v) \in DownMsg
  BY DEF AuthResponse, Load, Unload, VehicleExit, SpawnResponse, VehicleLoad,
         VehicleControl, DownMsg
<1> QED
  BY <1>1, <1>2, <1>3, <1>4

(* Post keeps the type of the channels.                                    *)
LEMMA PostType ==
    ASSUME down \in [Conn -> Seq(DownMsg)],
           NEW box,
           \A n \in Conn : box[n] \in Seq(DownMsg),
           Post(box)
    PROVE  down' \in [Conn -> Seq(DownMsg)]
<1>1. \A n \in Conn : down[n] \o box[n] \in Seq(DownMsg)
  OBVIOUS
<1> QED
  BY <1>1 DEF Post

LEMMA BroadcastType ==
    ASSUME NEW to, NEW m \in DownMsg
    PROVE  \A n \in Conn : Broadcast(to, m)[n] \in Seq(DownMsg)
BY DEF Broadcast

-----------------------------------------------------------------------------
LEMMA TypeInit == Init => TypeOK
BY ClientAssumption DEF Init, WireInit, ServerInit, ClientInit, TypeOK, WireTypeOK, ServerTypeOK,
       ClientTypeOK, EmptyPool, EmptyView, Life, DownMsgOf, Event

(* An event that is published is one of its queue's type.                  *)
LEMMA PublishType ==
    ASSUME TypeOK, NEW t \in UpType, NEW e, Publish(t, e)
    PROVE  /\ e.conn \in Conn
           /\ e.msg \in UpMsg
           /\ e.msg.type = t
           /\ phase' = phase
           /\ DOMAIN inbox' = UpType
           /\ \A u \in UpType : inbox'[u] \in Seq(Event(u))
<1> USE DEF TypeOK, ServerTypeOK
<1>1. inbox[t] \in Seq(Event(t)) /\ inbox[t] # <<>> /\ e = Head(inbox[t])
  BY DEF Publish
<1>2. e \in Event(t)
  BY <1>1
<1>3. Tail(inbox[t]) \in Seq(Event(t))
  BY <1>1
<1>4. inbox' = [inbox EXCEPT ![t] = Tail(@)] /\ phase' = phase
  BY DEF Publish
<1>5. \A u \in UpType : inbox'[u] = IF u = t THEN Tail(inbox[t]) ELSE inbox[u]
  BY <1>4
<1>6. DOMAIN inbox' = UpType
  BY <1>4
<1> QED
  BY <1>2, <1>3, <1>4, <1>5, <1>6 DEF Event

LEMMA DispatchType ==
    ASSUME TypeOK, NEW n \in Conn, NEW t \in DownType, Dispatch(n, t)
    PROVE  /\ Head(pool[n][t]) \in DownMsg
           /\ Head(pool[n][t]).type = t
           /\ pool' \in [Conn -> [DownType -> Seq(DownMsg)]]
           /\ \A m \in Conn, u \in DownType : pool'[m][u] \in Seq(DownMsgOf(u))
<1> USE DEF TypeOK, ClientTypeOK
<1>1. pool[n][t] \in Seq(DownMsgOf(t)) /\ pool[n][t] # <<>>
  BY DEF Dispatch
<1>2. Head(pool[n][t]) \in DownMsgOf(t)
  BY <1>1
<1>3. Tail(pool[n][t]) \in Seq(DownMsgOf(t)) /\ Tail(pool[n][t]) \in Seq(DownMsg)
  BY <1>1 DEF DownMsgOf
<1>4. pool' = [pool EXCEPT ![n][t] = Tail(@)]
  BY DEF Dispatch
<1>5. pool' \in [Conn -> [DownType -> Seq(DownMsg)]]
  BY <1>3, <1>4
<1>6. \A m \in Conn, u \in DownType :
         pool'[m][u] = IF m = n /\ u = t THEN Tail(pool[n][t]) ELSE pool[m][u]
  BY <1>4
<1>7. \A m \in Conn, u \in DownType : pool'[m][u] \in Seq(DownMsgOf(u))
  BY <1>3, <1>6
<1> QED
  BY <1>2, <1>5, <1>7 DEF DownMsgOf

(* The orders of a set of connections are sequences of just its elements.  *)
LEMMA OrderType ==
    ASSUME NEW S \in SUBSET Conn, NEW order \in Orders(S)
    PROVE  /\ order \in Seq(S)
           /\ \A x \in S : \E i \in DOMAIN order : order[i] = x
           /\ \A i, j \in DOMAIN order : order[i] = order[j] => i = j
<1>1. Cardinality(S) \in Nat
  BY ConnAssumption, FS_Subset, FS_CardinalityType
<1>2. order \in [1 .. Cardinality(S) -> S]
  BY DEF Orders, Bijection, Injection
<1>3. order \in Seq(S)
  BY <1>1, <1>2
<1> QED
  BY <1>2, <1>3 DEF Orders, Bijection, Injection, Surjection, IsInjective

(* What a new puppet's spawn sends has the type of messages.               *)
LEMMA SpawnNewsType ==
    ASSUME NEW n \in Conn, NEW others \in SUBSET Conn,
           NEW order \in Orders(others)
    PROVE  \A m \in Conn : SpawnNews(n, others, order)[m] \in Seq(DownMsg)
<1> DEFINE snapshot == [i \in DOMAIN order |-> Load(order[i])]
<1>1. order \in Seq(Conn)
  BY OrderType
<1>2. snapshot \in Seq(DownMsg)
  BY <1>1, MessageTypes
<1>3. <<SpawnResponse(n)>> \o snapshot \in Seq(DownMsg) /\ <<Load(n)>> \in Seq(DownMsg)
  BY <1>2, MessageTypes
<1> QED
  BY <1>3 DEF SpawnNews

-----------------------------------------------------------------------------
(* A step of the server keeps the types.                                   *)
LEMMA ServerStepType ==
    ASSUME TypeOK, ServerNext, UNCHANGED clientVars
    PROVE  TypeOK'
<1> USE DEF TypeOK, WireTypeOK, ServerTypeOK
<1>0. ClientTypeOK'
  BY DEF ClientTypeOK, clientVars
<1>1. ASSUME NEW n \in Conn, Receive(n)
      PROVE  TypeOK'
  <2>1. up[n] \in Seq(UpMsg) /\ up[n] # <<>>
    BY <1>1 DEF Receive
  <2> DEFINE m == Head(up[n])
  <2>2. m \in UpMsg /\ m.type \in UpType /\ Tail(up[n]) \in Seq(UpMsg)
    BY <2>1, MessageFields
  <2>3. up' \in [Conn -> Seq(UpMsg)]
    BY <1>1, <2>2 DEF Receive
  <2>4. inbox' = [inbox EXCEPT ![m.type] = Append(@, [conn |-> n, msg |-> m])]
    BY <1>1 DEF Receive
  <2>5. [conn |-> n, msg |-> m] \in Event(m.type)
    BY <2>2 DEF Event
  <2> HIDE DEF m
  <2>6. Append(inbox[m.type], [conn |-> n, msg |-> m]) \in Seq(Event(m.type))
    BY <2>2, <2>5
  <2>7. DOMAIN inbox' = UpType /\ \A t \in UpType : inbox'[t] \in Seq(Event(t))
    BY <2>4, <2>6
  <2> QED
    BY <1>0, <1>1, <2>3, <2>7 DEF Receive
<1>2. CASE BeginDispatch
  BY <1>0, <1>2 DEF BeginDispatch, wireVars
<1>3. CASE EndDispatch
  BY <1>0, <1>3 DEF EndDispatch, wireVars
<1>4. ASSUME NEW n \in Conn, OnDisconnection(n)
      PROVE  TypeOK'
  <2>1. \A m \in Conn : (IF m \in players \ {n} THEN LeaveNews(n) ELSE <<>>)
                            \in Seq(DownMsg)
    BY MessageTypes DEF LeaveNews
  <2>2. down' \in [Conn -> Seq(DownMsg)]
    <3>1. CASE n \in puppets
      <4> DEFINE box == [m \in Conn |-> IF m \in players \ {n} THEN LeaveNews(n)
                                                             ELSE <<>>]
      <4>1. Post(box)
        BY <1>4, <3>1 DEF OnDisconnection, Remove
      <4>2. \A m \in Conn : box[m] \in Seq(DownMsg)
        BY <2>1
      <4> QED
        BY <4>1, <4>2, PostType
    <3> QED
      BY <1>4, <3>1 DEF OnDisconnection
  <2>3. puppets' = puppets \ {n} /\ players' = players \ {n}
    BY <1>4 DEF OnDisconnection, Remove
  <2>4. /\ attached' \in [Conn -> Vehicle \cup {None}]
        /\ cellOf' \in [Conn -> Cell \cup {None}]
        /\ cells' \subseteq Cell
    BY <1>4 DEF OnDisconnection, Remove
  <2>5. /\ dropped' \subseteq used' /\ used' \subseteq Conn
        /\ holder' \in [Conn -> Client \cup {None}]
        /\ up' \in [Conn -> Seq(UpMsg)]
        /\ owner' \in [Vehicle -> Conn \cup {None}]
        /\ phase' = phase /\ inbox' = inbox /\ made' = made
    BY <1>4 DEF OnDisconnection, Live
  <2> QED
    BY <1>0, <2>2, <2>3, <2>4, <2>5
<1>5. ASSUME NEW e, HandleSpawnCharacterRequest(e)
      PROVE  TypeOK'
  <2>1. Publish("spawn", e)
    BY <1>5 DEF HandleSpawnCharacterRequest
  <2>2. /\ e.conn \in Conn /\ phase' = phase
        /\ DOMAIN inbox' = UpType
        /\ \A t \in UpType : inbox'[t] \in Seq(Event(t))
    BY <2>1, PublishType DEF UpType
  <2>3. down' \in [Conn -> Seq(DownMsg)]
    <3>1. CASE e.conn \in players
      <4>1. PICK order \in Orders(puppets \ {e.conn}) :
               Post(SpawnNews(e.conn, puppets \ {e.conn}, order))
        BY <1>5, <3>1 DEF HandleSpawnCharacterRequest
      <4>2. puppets \ {e.conn} \in SUBSET Conn
        OBVIOUS
      <4> QED
        BY <2>2, <4>1, <4>2, SpawnNewsType, PostType
    <3>2. CASE e.conn \notin players
      <4>1. Post(Broadcast({e.conn}, SpawnResponse(None)))
        BY <1>5, <3>2 DEF HandleSpawnCharacterRequest
      <4> QED
        BY <4>1, MessageTypes, BroadcastType, PostType
    <3> QED
      BY <3>1, <3>2
  <2>4. players' = players /\ puppets' \subseteq players
    <3>1. players' = players
      BY <1>5 DEF HandleSpawnCharacterRequest
    <3>2. \/ e.conn \in players /\ puppets' = puppets \cup {e.conn}
          \/ puppets' = puppets
      BY <1>5 DEF HandleSpawnCharacterRequest
    <3> QED
      BY <3>1, <3>2
  <2>5. UNCHANGED <<used, dropped, holder, up, attached, owner, made>>
    BY <1>5, <2>1 DEF HandleSpawnCharacterRequest, Publish
  <2>6. cells' \subseteq Cell /\ cellOf' \in [Conn -> Cell \cup {None}]
    <3>1. \/ UNCHANGED <<cells, cellOf>>
          \/ \E k \in Cell : /\ cellOf' = [cellOf EXCEPT ![e.conn] = k]
                             /\ cells' = cells \cup {k}
      BY <1>5 DEF HandleSpawnCharacterRequest
    <3>2. ASSUME NEW k \in Cell,
                 cellOf' = [cellOf EXCEPT ![e.conn] = k] /\ cells' = cells \cup {k}
          PROVE  cells' \subseteq Cell /\ cellOf' \in [Conn -> Cell \cup {None}]
      BY <3>2
    <3> QED
      BY <3>1, <3>2
  <2>7. UNCHANGED clientVars
    BY <1>0, <1>5 DEF HandleSpawnCharacterRequest, Publish
  <2> QED
    BY <1>0, <2>2, <2>3, <2>4, <2>5, <2>6, <2>7
<1>6. ASSUME NEW e, EnterKnownVehicle(e)
      PROVE  TypeOK'
  <2>1. Publish("enter", e)
    BY <1>6 DEF EnterKnownVehicle
  <2>2. /\ e.conn \in Conn /\ phase' = phase
        /\ e.msg \in UpMsg /\ e.msg.type = "enter"
        /\ DOMAIN inbox' = UpType
        /\ \A t \in UpType : inbox'[t] \in Seq(Event(t))
    BY <2>1, PublishType DEF UpType
  <2>3. e.msg.id \in Conn /\ e.msg.vehicle \in Vehicle
    BY <1>6, <2>2, MessageFields DEF EnterKnownVehicle, OwnedBy
  <2>4. down' \in [Conn -> Seq(DownMsg)]
    <3> DEFINE box == [m \in Conn |->
                   IF m = e.conn THEN IF e.msg.driver
                                      THEN <<VehicleControl(e.msg.vehicle)>>
                                      ELSE <<>>
                   ELSE IF m \in players
                        THEN <<VehicleEnter(e.msg.id, e.msg.vehicle)>>
                   ELSE <<>>]
    <3>1. \A m \in Conn : box[m] \in Seq(DownMsg)
      BY <2>3, MessageTypes
    <3>2. Post(box)
      BY <1>6 DEF EnterKnownVehicle
    <3> QED
      BY <3>1, <3>2, PostType
  <2> QED
    BY <1>0, <1>6, <2>1, <2>2, <2>3, <2>4 DEF EnterKnownVehicle, Publish
<1>7. ASSUME NEW e, EnterNewVehicle(e)
      PROVE  TypeOK'
  <2>1. Publish("enter", e)
    BY <1>7 DEF EnterNewVehicle
  <2>2. /\ e.conn \in Conn /\ phase' = phase
        /\ e.msg \in UpMsg /\ e.msg.type = "enter"
        /\ DOMAIN inbox' = UpType
        /\ \A t \in UpType : inbox'[t] \in Seq(Event(t))
    BY <2>1, PublishType DEF UpType
  <2>3. e.msg.id \in Conn
    BY <1>7, <2>2, MessageFields DEF EnterNewVehicle, OwnedBy
  <2> DEFINE box(v) == [m \in Conn |->
                 IF m = e.conn THEN IF e.msg.driver THEN <<VehicleControl(v)>>
                                                    ELSE <<>>
                 ELSE IF m \in players
                      THEN <<VehicleLoad(v), VehicleEnter(e.msg.id, v)>>
                 ELSE <<>>]
  <2>4. PICK v \in Vehicle \ made :
          /\ made' = made \cup {v}
          /\ owner' = [owner EXCEPT ![v] = e.conn]
          /\ attached' = [attached EXCEPT ![e.msg.id] = v]
          /\ Post(box(v))
    BY <1>7 DEF EnterNewVehicle
  <2>5. down' \in [Conn -> Seq(DownMsg)]
    <3>1. \A m \in Conn : box(v)[m] \in Seq(DownMsg)
      BY <2>3, MessageTypes
    <3> QED
      BY <2>4, <3>1, PostType
  <2> HIDE DEF box
  <2> QED
    BY <1>0, <1>7, <2>1, <2>2, <2>3, <2>4, <2>5 DEF EnterNewVehicle, Publish
<1>8. ASSUME NEW e, RefuseEnter(e)
      PROVE  TypeOK'
  <2>1. Publish("enter", e)
    BY <1>8 DEF RefuseEnter
  <2> QED
    BY <1>0, <1>8, <2>1, PublishType DEF RefuseEnter, Publish, UpType
<1>9. ASSUME NEW e, HandleExitVehicleRequest(e)
      PROVE  TypeOK'
  <2>1. Publish("exit", e)
    BY <1>9 DEF HandleExitVehicleRequest
  <2>2. /\ e.conn \in Conn /\ phase' = phase
        /\ DOMAIN inbox' = UpType
        /\ \A t \in UpType : inbox'[t] \in Seq(Event(t))
    BY <2>1, PublishType DEF UpType
  <2>3. down' \in [Conn -> Seq(DownMsg)]
    <3>1. CASE OwnedBy(e.msg.id, e.conn) /\ attached[e.msg.id] # None
      <4>1. VehicleExit(e.msg.id) \in DownMsg
        BY <3>1, MessageTypes DEF OwnedBy
      <4>2. Post(Broadcast(players \ {e.conn}, VehicleExit(e.msg.id)))
        BY <1>9, <3>1 DEF HandleExitVehicleRequest
      <4> QED
        BY <4>1, <4>2, BroadcastType, PostType
    <3> QED
      BY <1>9, <3>1 DEF HandleExitVehicleRequest
  <2> QED
    BY <1>0, <1>9, <2>1, <2>2, <2>3 DEF HandleExitVehicleRequest, Publish
<1>10. ASSUME NEW e, HandleAuthentication(e)
       PROVE  TypeOK'
  <2>1. Publish("auth", e)
    BY <1>10 DEF HandleAuthentication
  <2>2. /\ e.conn \in Conn /\ phase' = phase
        /\ DOMAIN inbox' = UpType
        /\ \A t \in UpType : inbox'[t] \in Seq(Event(t))
    BY <2>1, PublishType DEF UpType
  <2>3. down' \in [Conn -> Seq(DownMsg)]
    BY <1>10, MessageTypes, BroadcastType, PostType DEF HandleAuthentication
  <2> QED
    BY <1>0, <1>10, <2>1, <2>2, <2>3 DEF HandleAuthentication, Publish
<1> QED
  BY <1>1, <1>2, <1>3, <1>4, <1>5, <1>6, <1>7, <1>8, <1>9, <1>10
     DEF ServerNext, ServerHandle

(* A step of a client keeps the types.                                     *)
LEMMA ClientStepType ==
    ASSUME TypeOK, ClientNext, UNCHANGED serverVars
    PROVE  TypeOK'
<1> USE DEF TypeOK, WireTypeOK, ClientTypeOK
<1>0. ServerTypeOK'
  BY DEF ServerTypeOK, serverVars
<1>1. ASSUME NEW c \in Client, OnWorldAttached(c)
      PROVE  TypeOK'
  BY <1>0, <1>1 DEF OnWorldAttached, wireVars
<1>2. ASSUME NEW c \in Client, OnAfterWorldDetach(c)
      PROVE  TypeOK'
  BY <1>0, <1>2 DEF OnAfterWorldDetach, wireVars
<1>3. ASSUME NEW c \in Client, NEW n \in Conn, Connect(c, n)
      PROVE  TypeOK'
  <2>1. <<AuthRequest>> \in Seq(UpMsg)
    BY MessageTypes
  <2>2. UNCHANGED clientVars
    BY <1>3 DEF Connect
  <2>3. ClientTypeOK'
    BY <2>2 DEF clientVars
  <2>4. WireTypeOK'
    BY <1>3, <2>1 DEF Connect
  <2> QED
    BY <1>0, <2>3, <2>4
<1>4. ASSUME NEW n \in Conn, OnDisconnected(n)
      PROVE  TypeOK'
  BY <1>0, <1>4 DEF OnDisconnected, EmptyView, Life
<1>5. ASSUME NEW n \in Conn, OnConsume(n)
      PROVE  TypeOK'
  <2> DEFINE m == Head(down[n])
  <2>1. m \in DownMsg /\ m.type \in DownType /\ Tail(down[n]) \in Seq(DownMsg)
    BY <1>5, MessageFields DEF OnConsume
  <2>2. m \in DownMsgOf(m.type)
    BY <2>1 DEF DownMsgOf
  <2>3. pool' = [pool EXCEPT ![n][m.type] = Append(@, m)]
    BY <1>5 DEF OnConsume
  <2>4. down' \in [Conn -> Seq(DownMsg)]
    BY <1>5, <2>1 DEF OnConsume
  <2> HIDE DEF m
  <2>5. Append(pool[n][m.type], m) \in Seq(DownMsg)
    BY <2>1
  <2>6. Append(pool[n][m.type], m) \in Seq(DownMsgOf(m.type))
    BY <2>1, <2>2
  <2>7. pool' \in [Conn -> [DownType -> Seq(DownMsg)]]
    BY <2>1, <2>3, <2>5
  <2>8. \A k \in Conn, t \in DownType :
           pool'[k][t] = IF k = n /\ t = m.type THEN Append(pool[n][m.type], m)
                                               ELSE pool[k][t]
    BY <2>1, <2>3
  <2>9. \A k \in Conn, t \in DownType : pool'[k][t] \in Seq(DownMsgOf(t))
    BY <2>6, <2>8
  <2> QED
    BY <1>0, <1>5, <2>4, <2>7, <2>9 DEF OnConsume
<1>6. ASSUME NEW n \in Conn, BeginUpdate(n)
      PROVE  TypeOK'
  BY <1>0, <1>6 DEF BeginUpdate, wireVars
<1>a. \A n \in Conn : Append(up[n], SpawnRequest) \in Seq(UpMsg)
  BY MessageTypes
<1>7. ASSUME NEW n \in Conn, EndUpdate(n)
      PROVE  TypeOK'
  <2>1. up' \in [Conn -> Seq(UpMsg)] /\ pendingSpawn' \subseteq Conn
    BY <1>7, <1>a DEF EndUpdate, TrySendSpawnCharacter
  <2> QED
    BY <1>0, <1>7, <2>1 DEF EndUpdate
<1>8. ASSUME NEW n \in Conn, HandleAuthResponse(n)
      PROVE  TypeOK'
  <2>1. Dispatch(n, "auth")
    BY <1>8 DEF HandleAuthResponse
  <2>2. \/ up' = [up EXCEPT ![n] = Append(@, SpawnRequest)]
        \/ up' = up
    BY <1>8 DEF HandleAuthResponse, TrySendSpawnCharacter
  <2>3. up' \in [Conn -> Seq(UpMsg)]
    BY <1>a, <2>2
  <2>4. pendingSpawn' \subseteq Conn
    BY <1>8 DEF HandleAuthResponse
  <2> QED
    BY <1>0, <1>8, <2>1, <2>3, <2>4, DispatchType
       DEF HandleAuthResponse, Dispatch, DownType
<1>9. ASSUME NEW n \in Conn, HandleCharacterLoad(n)
      PROVE  TypeOK'
  <2>1. Dispatch(n, "load")
    BY <1>9 DEF HandleCharacterLoad
  <2>2. Head(pool[n]["load"]).id \in Conn
    BY <2>1, DispatchType, MessageFields DEF DownType
  <2>3. view' \in [Conn -> [Conn -> Life]]
    BY <1>9, <2>2 DEF HandleCharacterLoad, Life
  <2> QED
    BY <1>0, <1>9, <2>1, <2>3, DispatchType
       DEF HandleCharacterLoad, Dispatch, DownType
<1>10. ASSUME NEW n \in Conn, HandleEntityUnload(n)
       PROVE  TypeOK'
  <2>1. Dispatch(n, "unload")
    BY <1>10 DEF HandleEntityUnload
  <2>2. Head(pool[n]["unload"]).id \in Conn
    BY <2>1, DispatchType, MessageFields DEF DownType
  <2>3. view' \in [Conn -> [Conn -> Life]]
    BY <1>10, <2>2 DEF HandleEntityUnload, Life
  <2> QED
    BY <1>0, <1>10, <2>1, <2>3, DispatchType
       DEF HandleEntityUnload, Dispatch, DownType
<1>11. ASSUME NEW n \in Conn, HandleSpawnCharacterResponse(n)
       PROVE  TypeOK'
  <2>1. Dispatch(n, "spawned")
    BY <1>11 DEF HandleSpawnCharacterResponse
  <2>2. Head(pool[n]["spawned"]).id \in Conn \cup {None}
    BY <2>1, DispatchType, MessageFields DEF DownType
  <2>3. remoteId' \in [Client -> Conn \cup {None}]
    BY <1>11, <2>2 DEF HandleSpawnCharacterResponse
  <2> QED
    BY <1>0, <1>11, <2>1, <2>3, DispatchType
       DEF HandleSpawnCharacterResponse, Dispatch, DownType
<1>12. ASSUME NEW n \in Conn, HandleVehicleLoad(n)
       PROVE  TypeOK'
  <2>1. Dispatch(n, "vload")
    BY <1>12 DEF HandleVehicleLoad
  <2>2. Head(pool[n]["vload"]).vehicle \in Vehicle
    BY <2>1, DispatchType, MessageFields DEF DownType
  <2>3. cars' \in [Conn -> SUBSET Vehicle]
    BY <1>12, <2>2 DEF HandleVehicleLoad
  <2> QED
    BY <1>0, <1>12, <2>1, <2>3, DispatchType
       DEF HandleVehicleLoad, Dispatch, DownType
<1>13. ASSUME NEW n \in Conn, HandleMounting(n)
       PROVE  TypeOK'
  <2>1. PICK t \in {"venter", "vexit", "vcontrol"} : Dispatch(n, t)
    BY <1>13 DEF HandleMounting
  <2>2. t \in DownType
    BY DEF DownType
  <2>3. /\ pool' \in [Conn -> [DownType -> Seq(DownMsg)]]
        /\ \A m \in Conn, u \in DownType : pool'[m][u] \in Seq(DownMsgOf(u))
    BY <1>13, <2>1, <2>2, DispatchType
  <2>4. UNCHANGED <<used, dropped, holder, up, down, ready, remoteId, pendingSpawn,
                    dispatching, view, mounted, cars, asked>>
    BY <1>13, <2>1 DEF HandleMounting, Dispatch
  <2> QED
    BY <1>0, <1>13, <2>3, <2>4
<1>14. ASSUME NEW n \in Conn, NEW m \in UpMsg, Ask(n, m), mounted' \subseteq Conn
       PROVE  TypeOK'
  BY <1>0, <1>14, ClientAssumption DEF Ask
<1>15. ASSUME NEW n \in Conn, Playing(n)
       PROVE  RequestIds(n) \subseteq Conn \cup {None}
  BY <1>15, ClientAssumption, NoneAssumption DEF RequestIds, Playing, Open
<1>16. ASSUME NEW n \in Conn, OnVehicleEnter(n)
       PROVE  TypeOK'
  <2>1. PICK i \in RequestIds(n), v \in cars[n] \cup {None}, d \in BOOLEAN :
           Ask(n, EnterRequest(i, v, d))
    BY <1>16 DEF OnVehicleEnter
  <2>2. EnterRequest(i, v, d) \in UpMsg
    BY <1>15, <1>16, <2>1, MessageTypes DEF OnVehicleEnter
  <2> QED
    BY <1>14, <1>16, <2>1, <2>2 DEF OnVehicleEnter
<1>17. ASSUME NEW n \in Conn, OnVehicleExit(n)
       PROVE  TypeOK'
  <2>1. PICK i \in RequestIds(n) : Ask(n, ExitRequest(i))
    BY <1>17 DEF OnVehicleExit
  <2>2. ExitRequest(i) \in UpMsg
    BY <1>15, <1>17, <2>1, MessageTypes DEF OnVehicleExit
  <2> QED
    BY <1>14, <1>17, <2>1, <2>2 DEF OnVehicleExit
<1> QED
  BY <1>1, <1>2, <1>3, <1>4, <1>5, <1>6, <1>7, <1>8, <1>9, <1>10, <1>11, <1>12,
     <1>13, <1>16, <1>17
     DEF ClientNext, ClientHandle

(* Every reachable state has the declared type.                            *)
THEOREM TypeCorrect == Spec => []TypeOK
<1>1. TypeOK /\ [Next]_vars => TypeOK'
  <2>1. TypeOK /\ Next => TypeOK'
    BY ServerStepType, ClientStepType DEF Next
  <2>2. TypeOK /\ UNCHANGED vars => TypeOK'
    BY DEF TypeOK, WireTypeOK, ServerTypeOK, ClientTypeOK, vars, wireVars,
           serverVars, clientVars
  <2> QED
    BY <2>1, <2>2
<1> QED
  BY TypeInit, <1>1, PTL DEF Spec

-----------------------------------------------------------------------------
(* Why no ghost is left on a screen.  A client without a connection holds  *)
(* nothing of the session.                                                 *)
ClosedIsEmpty ==
    \A n \in Conn : holder[n] = None =>
        /\ down[n] = <<>>
        /\ pool[n] = EmptyPool
        /\ view[n] = EmptyView

(* Players, and the senders of what the dispatcher holds, are connected:    *)
(* a connection closes only between two ticks, when the queues are empty.  *)
MembersLive ==
    /\ players \subseteq Live
    /\ phase = "callbacks" => \A t \in UpType : inbox[t] = <<>>
    /\ \A t \in UpType : \A i \in DOMAIN inbox[t] : inbox[t][i].conn \in Live

(* Only the puppet of a connection that is gone is unloaded.               *)
UnloadsOfTheGone == \A n, p \in Conn : OnWay(n, Unload(p)) => p \in dropped

(* No a comes after a b.                                                   *)
Ordered(s, a, b) == \A i, j \in DOMAIN s : s[i] = b /\ s[j] = a => j < i

(* No load of a puppet follows its unload, neither on the wire nor in the   *)
(* dispatcher, which publishes all loads before any unload.                *)
LoadsFirst ==
    \A n, p \in Conn :
        /\ Ordered(down[n], Load(p), Unload(p))
        /\ Queued(n, Unload(p)) => ~OnWire(n, Load(p))

(* NoGhostPuppet, said already of the puppet whose load is on the way.     *)
ComingOrShown(n, p) == OnWay(n, Load(p)) \/ view[n][p] = "shown"

GhostsLeave ==
    \A n, p \in Conn :
        n \notin dropped /\ ComingOrShown(n, p)
            => n \in players /\ (p \in puppets \/ OnWay(n, Unload(p)))

GhostInv == /\ ClosedIsEmpty
            /\ MembersLive
            /\ UnloadsOfTheGone
            /\ LoadsFirst
            /\ GhostsLeave

-----------------------------------------------------------------------------
(* What is in a sequence after it is read and written.                     *)
LEMMA RangeAppend ==
    ASSUME NEW S, NEW s \in Seq(S), NEW x \in S
    PROVE  Range(Append(s, x)) = Range(s) \cup {x}
BY AppendProperties DEF Range

LEMMA RangeHeadTail ==
    ASSUME NEW S, NEW s \in Seq(S), s # <<>>
    PROVE  Range(s) = {Head(s)} \cup Range(Tail(s))
<1>1. /\ Tail(s) \in Seq(S)
      /\ Len(Tail(s)) = Len(s) - 1
      /\ \A i \in 1 .. Len(Tail(s)) : Tail(s)[i] = s[i + 1]
      /\ Len(s) \in Nat \ {0}
      /\ Head(s) = s[1]
  BY HeadTailProperties
<1>2. ASSUME NEW i \in DOMAIN s
      PROVE  s[i] \in {Head(s)} \cup Range(Tail(s))
  <2>1. CASE i = 1
    BY <1>1, <2>1
  <2>2. CASE i # 1
    <3>1. i - 1 \in 1 .. Len(Tail(s))
      BY <1>1, <2>2
    <3> QED
      BY <1>1, <3>1 DEF Range
  <2> QED
    BY <2>1, <2>2
<1>3. ASSUME NEW i \in DOMAIN Tail(s)
      PROVE  Tail(s)[i] \in Range(s)
  <2>1. i + 1 \in 1 .. Len(s)
    BY <1>1
  <2> QED
    BY <1>1, <2>1 DEF Range
<1>4. Head(s) \in Range(s)
  BY <1>1 DEF Range
<1> QED
  BY <1>2, <1>3, <1>4 DEF Range

(* Ordered survives a concatenation if no a comes after a b over the seam. *)
LEMMA OrderConcat ==
    ASSUME NEW S, NEW s \in Seq(S), NEW t \in Seq(S), NEW a, NEW b,
           Ordered(s, a, b),
           a \in Range(t) => b \notin Range(s) /\ b \notin Range(t)
    PROVE  Ordered(s \o t, a, b)
<1> USE DEF Ordered
<1> SUFFICES ASSUME NEW i \in DOMAIN (s \o t), NEW j \in DOMAIN (s \o t),
                    (s \o t)[i] = b, (s \o t)[j] = a
             PROVE  j < i
  OBVIOUS
<1>1. /\ DOMAIN s = 1 .. Len(s) /\ DOMAIN t = 1 .. Len(t)
      /\ Len(s) \in Nat /\ Len(t) \in Nat
      /\ DOMAIN (s \o t) = 1 .. Len(s) + Len(t)
      /\ \A k \in 1 .. Len(s) + Len(t) :
            (s \o t)[k] = IF k <= Len(s) THEN s[k] ELSE t[k - Len(s)]
  BY ConcatProperties
<1>2. \A k \in 1 .. Len(s) + Len(t) : k > Len(s) => k - Len(s) \in DOMAIN t
  BY <1>1
<1>3. CASE j <= Len(s)
  BY <1>1, <1>3
<1>4. CASE j > Len(s)
  <2>1. a = t[j - Len(s)] /\ j - Len(s) \in DOMAIN t
    BY <1>1, <1>2, <1>4
  <2>2. a \in Range(t)
    BY <2>1 DEF Range
  <2>3. b \in Range(s) \/ b \in Range(t)
    <3>1. CASE i <= Len(s)
      <4>1. b = s[i] /\ i \in DOMAIN s
        BY <1>1, <3>1
      <4> QED
        BY <4>1 DEF Range
    <3>2. CASE i > Len(s)
      <4>1. b = t[i - Len(s)] /\ i - Len(s) \in DOMAIN t
        BY <1>1, <1>2, <3>2
      <4> QED
        BY <4>1 DEF Range
    <3> QED
      BY <1>1, <3>1, <3>2
  <2> QED
    BY <2>2, <2>3
<1> QED
  BY <1>1, <1>3, <1>4

LEMMA OrderTail ==
    ASSUME NEW S, NEW s \in Seq(S), s # <<>>, NEW a, NEW b, Ordered(s, a, b)
    PROVE  /\ Ordered(Tail(s), a, b)
           /\ Head(s) = b => a \notin Range(s)
<1>1. /\ Tail(s) \in Seq(S)
      /\ Len(Tail(s)) = Len(s) - 1
      /\ \A i \in 1 .. Len(Tail(s)) : Tail(s)[i] = s[i + 1]
      /\ Len(s) \in Nat \ {0}
      /\ Head(s) = s[1]
  BY HeadTailProperties
<1>2. ASSUME NEW i \in DOMAIN Tail(s), NEW j \in DOMAIN Tail(s),
             Tail(s)[i] = b, Tail(s)[j] = a
      PROVE  j < i
  <2>1. i + 1 \in DOMAIN s /\ j + 1 \in DOMAIN s /\ i \in Nat /\ j \in Nat
    BY <1>1
  <2>2. s[i + 1] = b /\ s[j + 1] = a
    BY <1>1, <1>2
  <2>3. j + 1 < i + 1
    BY <2>1, <2>2 DEF Ordered
  <2> QED
    BY <2>1, <2>3
<1>3. ASSUME Head(s) = b
      PROVE  a \notin Range(s)
  BY <1>1, <1>3 DEF Ordered, Range
<1> QED
  BY <1>2, <1>3 DEF Ordered

(* What a post changes on the wire.                                        *)
LEMMA PostNews ==
    ASSUME TypeOK,
           NEW box, \A n \in Conn : box[n] \in Seq(DownMsg),
           Post(box),
           NEW n \in Conn
    PROVE  /\ holder[n] = None => down'[n] = down[n]
           /\ \A m : OnWire(n, m)' <=>
                  (OnWire(n, m) \/ (holder[n] # None /\ m \in Range(box[n])))
           /\ \A a, b :
                /\ Ordered(down[n], a, b)
                /\ a \in Range(box[n])
                      => b \notin Range(down[n]) /\ b \notin Range(box[n])
                => Ordered(down'[n], a, b)
<1>1. down[n] \in Seq(DownMsg) /\ box[n] \in Seq(DownMsg)
  BY DEF TypeOK, WireTypeOK
<1>2. down'[n] = IF holder[n] = None THEN down[n] ELSE down[n] \o box[n]
  BY DEF Post
<1>3. Range(down[n] \o box[n]) = Range(down[n]) \cup Range(box[n])
  BY <1>1, RangeConcatenation
<1>4. \A m : OnWire(n, m)' <=>
         (OnWire(n, m) \/ (holder[n] # None /\ m \in Range(box[n])))
  <2>1. Range(down'[n]) = IF holder[n] = None THEN Range(down[n])
                          ELSE Range(down[n]) \cup Range(box[n])
    BY <1>2, <1>3
  <2>2. \A m : (OnWire(n, m)' <=> m \in Range(down'[n]))
                 /\ (OnWire(n, m) <=> m \in Range(down[n]))
    BY DEF OnWire, Range
  <2> QED
    BY <2>1, <2>2
<1>5. ASSUME NEW a, NEW b, Ordered(down[n], a, b),
             a \in Range(box[n])
                => b \notin Range(down[n]) /\ b \notin Range(box[n])
      PROVE  Ordered(down'[n], a, b)
  <2>1. Ordered(down[n] \o box[n], a, b)
    BY <1>1, <1>5, OrderConcat
  <2> QED
    BY <1>2, <1>5, <2>1
<1>6. holder[n] = None => down'[n] = down[n]
  BY <1>2
<1> QED
  BY <1>4, <1>5, <1>6

(* The kinds of message are told apart.                                    *)
LEMMA MessageKinds ==
    /\ \A p : Load(p).type = "load" /\ Unload(p).type = "unload"
    /\ \A p, q : Load(p) = Load(q) => p = q
    /\ \A p, q : Unload(p) = Unload(q) => p = q
    /\ \A p : Load(p).id = p /\ Unload(p).id = p
    /\ AuthResponse.type = "auth"
    /\ \A p : SpawnResponse(p).type = "spawned"
    /\ \A v : VehicleLoad(v).type = "vload" /\ VehicleControl(v).type = "vcontrol"
    /\ \A p : VehicleExit(p).type = "vexit"
    /\ \A p, v : VehicleEnter(p, v).type = "venter"
BY DEF Load, Unload, AuthResponse, SpawnResponse, VehicleLoad, VehicleControl,
       VehicleExit, VehicleEnter

(* Nothing is on the way to a closed client, and its screen is empty.      *)
LEMMA ClosedHearsNothing ==
    ASSUME ClosedIsEmpty, NEW n \in Conn, holder[n] = None
    PROVE  /\ \A m : ~OnWire(n, m)
           /\ \A p \in Conn : /\ ~OnWay(n, Load(p)) /\ ~OnWay(n, Unload(p))
                              /\ view[n][p] = "unseen"
                              /\ ~ComingOrShown(n, p)
<1>1. down[n] = <<>> /\ pool[n] = EmptyPool /\ view[n] = EmptyView
  BY DEF ClosedIsEmpty
<1>2. \A m : ~OnWire(n, m)
  BY <1>1 DEF OnWire, Range
<1>3. \A p : ~Queued(n, Load(p)) /\ ~Queued(n, Unload(p))
  <2>1. pool[n]["load"] = <<>> /\ pool[n]["unload"] = <<>>
    BY <1>1 DEF EmptyPool, DownType
  <2> QED
    BY <2>1, MessageKinds DEF Queued, Range
<1>4. \A p \in Conn : view[n][p] = "unseen"
  BY <1>1 DEF EmptyView
<1> QED
  BY <1>2, <1>3, <1>4 DEF OnWay, ComingOrShown

(* The invariant after any step of the server, from what the step sends    *)
(* and whom it adds or removes.                                            *)
LEMMA ServerGhosts ==
    ASSUME TypeOK, GhostInv, UNCHANGED clientVars,
           holder' = holder, used' = used, dropped \subseteq dropped',
           MembersLive',
           NEW box, \A n \in Conn : box[n] \in Seq(DownMsg), Post(box),
           \A n, p \in Conn : Load(p) \in Range(box[n]) =>
              /\ p \in puppets' /\ p \notin dropped'
              /\ n \in players'
              /\ Unload(p) \notin Range(box[n]),
           \A n, p \in Conn : Unload(p) \in Range(box[n]) => p \in dropped',
           \A n \in players, p \in puppets \ puppets' :
              n \in dropped' \/ Unload(p) \in Range(box[n]),
           players \subseteq players' \cup dropped'
    PROVE  GhostInv'
<1>a. pool' = pool /\ view' = view
  BY DEF clientVars
<1>b. \A n, m : Queued(n, m)' <=> Queued(n, m)
  BY <1>a DEF Queued
<1>c. \A n \in Conn : /\ holder[n] = None => down'[n] = down[n]
                      /\ \A m : OnWire(n, m)' <=>
                            (OnWire(n, m)
                               \/ (holder[n] # None /\ m \in Range(box[n])))
  BY PostNews
<1>d. \A n, m : OnWay(n, m)' <=> OnWire(n, m)' \/ Queued(n, m)
  BY <1>b DEF OnWay
<1>1. ClosedIsEmpty'
  BY <1>a, <1>c DEF GhostInv, ClosedIsEmpty
<1>2. UnloadsOfTheGone'
  BY <1>c, <1>d DEF GhostInv, UnloadsOfTheGone, OnWay
<1>3. LoadsFirst'
  <2> SUFFICES ASSUME NEW n \in Conn, NEW p \in Conn
               PROVE  /\ Ordered(down'[n], Load(p), Unload(p))
                      /\ Queued(n, Unload(p)) => ~OnWire(n, Load(p))'
    BY <1>b DEF LoadsFirst
  <2>1. Load(p) \in Range(box[n]) =>
           ~OnWay(n, Unload(p)) /\ Unload(p) \notin Range(box[n])
    BY DEF GhostInv, UnloadsOfTheGone
  <2>2. Ordered(down'[n], Load(p), Unload(p))
    <3>1. Ordered(down[n], Load(p), Unload(p))
      BY DEF GhostInv, LoadsFirst
    <3>2. Load(p) \in Range(box[n]) =>
             Unload(p) \notin Range(down[n]) /\ Unload(p) \notin Range(box[n])
      BY <2>1 DEF OnWay, OnWire
    <3> QED
      BY <3>1, <3>2, PostNews
  <2>3. Queued(n, Unload(p)) => ~OnWire(n, Load(p))'
    BY <1>c, <2>1 DEF GhostInv, LoadsFirst, OnWay
  <2> QED
    BY <2>2, <2>3
<1>4. GhostsLeave'
  <2> SUFFICES ASSUME NEW n \in Conn, NEW p \in Conn,
                      n \notin dropped', ComingOrShown(n, p)'
               PROVE  n \in players' /\ (p \in puppets' \/ OnWay(n, Unload(p))')
    BY DEF GhostsLeave
  <2>1. CASE ComingOrShown(n, p)
    <3>1. n \in players /\ (p \in puppets \/ OnWay(n, Unload(p)))
      BY <2>1 DEF GhostInv, GhostsLeave
    <3>2. holder[n] # None
      BY <2>1, ClosedHearsNothing DEF GhostInv
    <3>3. n \in players'
      BY <3>1
    <3>4. OnWay(n, Unload(p)) => OnWay(n, Unload(p))'
      <4>1. OnWire(n, Unload(p)) => OnWire(n, Unload(p))'
        BY <1>c
      <4>2. Queued(n, Unload(p)) => Queued(n, Unload(p))'
        BY <1>b
      <4> QED
        BY <4>1, <4>2 DEF OnWay
    <3>5. CASE p \in puppets \ puppets'
      BY <1>c, <1>d, <3>1, <3>2, <3>3, <3>5
    <3> QED
      BY <3>1, <3>3, <3>4, <3>5
  <2>2. CASE ~ComingOrShown(n, p)
    <3>1. Load(p) \in Range(box[n])
      BY <1>a, <1>c, <1>d, <2>2 DEF ComingOrShown, OnWay
    <3> QED
      BY <3>1
  <2> QED
    BY <2>1, <2>2
<1> QED
  BY <1>1, <1>2, <1>3, <1>4 DEF GhostInv

(* An event that is published comes from a connection that is open, and    *)
(* publishing it leaves no other in the queues.                            *)
LEMMA PublishLive ==
    ASSUME TypeOK, MembersLive, NEW t \in UpType, NEW e, Publish(t, e)
    PROVE  /\ e.conn \in Live
           /\ phase' = "dispatch"
           /\ Live' = Live
           /\ used' = used /\ dropped' = dropped /\ holder' = holder
           /\ players' \subseteq Live => MembersLive'
<1>1. inbox[t] \in Seq(Event(t)) /\ inbox[t] # <<>> /\ e = Head(inbox[t])
  BY DEF Publish, TypeOK, ServerTypeOK
<1>2. /\ Len(inbox[t]) \in Nat \ {0}
      /\ e = inbox[t][1]
      /\ Len(Tail(inbox[t])) = Len(inbox[t]) - 1
      /\ Tail(inbox[t]) \in Seq(Event(t))
      /\ \A i \in 1 .. Len(Tail(inbox[t])) : Tail(inbox[t])[i] = inbox[t][i + 1]
  BY <1>1, HeadTailProperties
<1>3. DOMAIN inbox[t] = 1 .. Len(inbox[t])
      /\ DOMAIN Tail(inbox[t]) = 1 .. Len(Tail(inbox[t]))
  BY <1>1, <1>2
<1>4. e.conn \in Live
  BY <1>2, <1>3 DEF MembersLive
<1>5. /\ phase = "dispatch" /\ phase' = "dispatch"
      /\ used' = used /\ dropped' = dropped /\ holder' = holder
      /\ Live' = Live
  BY DEF Publish, Live
<1>6. \A u \in UpType : inbox'[u] = IF u = t THEN Tail(inbox[t]) ELSE inbox[u]
  BY DEF Publish, TypeOK, ServerTypeOK
<1>7. \A i \in DOMAIN Tail(inbox[t]) : Tail(inbox[t])[i].conn \in Live
  <2> TAKE i \in DOMAIN Tail(inbox[t])
  <2>1. i + 1 \in DOMAIN inbox[t]
    BY <1>2, <1>3
  <2> QED
    BY <1>2, <1>3, <2>1 DEF MembersLive
<1>8. \A u \in UpType : \A i \in DOMAIN inbox'[u] : inbox'[u][i].conn \in Live
  BY <1>6, <1>7 DEF MembersLive
<1> QED
  BY <1>4, <1>5, <1>8 DEF MembersLive

(* What the boxes of a spawn and of a removal hold.                        *)
LEMMA SpawnNewsHolds ==
    ASSUME NEW n \in Conn, NEW others \in SUBSET Conn, n \notin others,
           NEW order \in Orders(others), NEW m \in Conn, NEW p \in Conn
    PROVE  /\ Load(p) \in Range(SpawnNews(n, others, order)[m]) =>
                \/ m = n /\ p \in others
                \/ m \in others /\ p = n
           /\ Unload(p) \notin Range(SpawnNews(n, others, order)[m])
<1> DEFINE snapshot == [i \in DOMAIN order |-> Load(order[i])]
<1>1. order \in Seq(others)
  BY OrderType
<1>2. snapshot \in Seq(DownMsg) /\ <<SpawnResponse(n)>> \in Seq(DownMsg)
  BY <1>1, MessageTypes
<1>3. Range(<<SpawnResponse(n)>> \o snapshot)
        = Range(<<SpawnResponse(n)>>) \cup Range(snapshot)
  <2> DEFINE first == <<SpawnResponse(n)>>
  <2>1. first \in Seq(DownMsg) /\ snapshot \in Seq(DownMsg)
    BY <1>2
  <2> HIDE DEF first, snapshot
  <2>2. Range(first \o snapshot) = Range(first) \cup Range(snapshot)
    BY <2>1, RangeConcatenation
  <2> QED
    BY <2>2 DEF first
<1>4. Range(<<SpawnResponse(n)>>) = {SpawnResponse(n)}
  BY DEF Range
<1>5. Range(<<Load(n)>>) = {Load(n)}
  BY DEF Range
<1>6. Range(snapshot) \subseteq {Load(q) : q \in others}
  BY <1>1 DEF Range
<1>7. Range(<<>>) = {}
  BY DEF Range
<1>8. SpawnNews(n, others, order)[m] =
        IF m = n THEN <<SpawnResponse(n)>> \o snapshot
        ELSE IF m \in others THEN <<Load(n)>> ELSE <<>>
  BY DEF SpawnNews
<1>9. Range(SpawnNews(n, others, order)[m]) \subseteq
        IF m = n THEN {SpawnResponse(n)} \cup {Load(q) : q \in others}
        ELSE IF m \in others THEN {Load(n)} ELSE {}
  <2> HIDE DEF snapshot
  <2> QED
    BY <1>3, <1>4, <1>5, <1>6, <1>7, <1>8
<1>10. /\ \A x : Load(x).type = "load" /\ Unload(x).type = "unload"
       /\ SpawnResponse(n).type = "spawned"
       /\ \A x, y : Load(x) = Load(y) => x = y
  BY MessageKinds
<1> QED
  BY <1>9, <1>10

LEMMA LeaveNewsHolds ==
    ASSUME NEW n \in Conn, NEW p \in Conn
    PROVE  /\ Load(p) \notin Range(LeaveNews(n))
           /\ Unload(p) \in Range(LeaveNews(n)) <=> p = n
<1>1. Range(<<Unload(n)>>) = {Unload(n)}
  BY DEF Range
<1>2. Range(<<Unload(n), VehicleExit(n)>>) = {Unload(n), VehicleExit(n)}
  BY DEF Range
<1> QED
  BY <1>1, <1>2, MessageKinds DEF LeaveNews

(* A step of the server keeps the senders and the players connected.       *)
LEMMA ServerMembersLive ==
    ASSUME TypeOK, MembersLive, ServerNext
    PROVE  MembersLive'
<1> USE DEF TypeOK, WireTypeOK, ServerTypeOK
<1>1. ASSUME NEW n \in Conn, Receive(n)
      PROVE  MembersLive'
  <2> DEFINE m == Head(up[n])
             e == [conn |-> n, msg |-> m]
  <2>1. m.type \in UpType
    BY <1>1, MessageFields DEF Receive
  <2>2. e \in Event(m.type) /\ e.conn = n
    BY <1>1, MessageFields DEF Receive, Event
  <2>3. \A t \in UpType : inbox'[t] = IF t = m.type THEN Append(inbox[t], e)
                                      ELSE inbox[t]
    BY <1>1, <2>1 DEF Receive
  <2> HIDE DEF m, e
  <2>4. \A i \in DOMAIN Append(inbox[m.type], e) :
           Append(inbox[m.type], e)[i].conn \in Live
    <3>1. /\ DOMAIN Append(inbox[m.type], e) = 1 .. Len(inbox[m.type]) + 1
          /\ DOMAIN inbox[m.type] = 1 .. Len(inbox[m.type])
          /\ Len(inbox[m.type]) \in Nat
          /\ Append(inbox[m.type], e)[Len(inbox[m.type]) + 1] = e
          /\ \A i \in 1 .. Len(inbox[m.type]) :
                Append(inbox[m.type], e)[i] = inbox[m.type][i]
      BY <2>1, <2>2, AppendProperties
    <3>2. n \in Live
      BY <1>1 DEF Receive
    <3> QED
      BY <2>1, <2>2, <3>1, <3>2 DEF MembersLive
  <2>5. /\ Live' = Live /\ players' = players /\ phase' = "receive"
    BY <1>1 DEF Receive, Live
  <2> QED
    BY <2>1, <2>3, <2>4, <2>5 DEF MembersLive
<1>2. CASE BeginDispatch
  BY <1>2 DEF BeginDispatch, MembersLive, Live, wireVars
<1>3. CASE EndDispatch
  BY <1>3 DEF EndDispatch, MembersLive, Live, wireVars
<1>4. ASSUME NEW n \in Conn, OnDisconnection(n)
      PROVE  MembersLive'
  <2>1. /\ players' = players \ {n} /\ inbox' = inbox
        /\ \A t \in UpType : inbox[t] = <<>>
        /\ Live' = Live \ {n}
    BY <1>4 DEF OnDisconnection, MembersLive, Live
  <2> QED
    BY <2>1 DEF MembersLive
<1>5. ASSUME NEW t \in UpType, NEW e, Publish(t, e),
             players' \subseteq players \cup {e.conn}
      PROVE  MembersLive'
  BY <1>5, PublishLive DEF MembersLive
<1>6. ASSUME NEW e, ServerHandle(e)
      PROVE  MembersLive'
  <2>1. \E t \in UpType : Publish(t, e)
    BY <1>6 DEF ServerHandle, HandleSpawnCharacterRequest, EnterKnownVehicle,
                EnterNewVehicle, RefuseEnter, HandleExitVehicleRequest,
                HandleAuthentication, UpType
  <2>2. players' \subseteq players \cup {e.conn}
    BY <1>6 DEF ServerHandle, HandleSpawnCharacterRequest, EnterKnownVehicle,
                EnterNewVehicle, RefuseEnter, HandleExitVehicleRequest,
                HandleAuthentication
  <2> QED
    BY <1>5, <2>1, <2>2
<1> QED
  BY <1>1, <1>2, <1>3, <1>4, <1>6 DEF ServerNext

(* A step of the server that announces and removes nobody.                 *)
LEMMA QuietServerGhosts ==
    ASSUME TypeOK, GhostInv, UNCHANGED clientVars, MembersLive',
           holder' = holder, used' = used, dropped' = dropped,
           puppets' = puppets, players \subseteq players',
           NEW box, \A n \in Conn : box[n] \in Seq(DownMsg), Post(box),
           \A n \in Conn : \A m \in Range(box[n]) :
              m.type \notin {"load", "unload"}
    PROVE  GhostInv'
<1>1. \A n, p \in Conn : /\ Load(p) \notin Range(box[n])
                         /\ Unload(p) \notin Range(box[n])
  BY MessageKinds
<1> QED
  BY <1>1, ServerGhosts

(* A step of the server that sends nothing.                                *)
LEMMA SilentServerGhosts ==
    ASSUME TypeOK, GhostInv, UNCHANGED clientVars, MembersLive',
           holder' = holder, used' = used, dropped' = dropped, down' = down,
           puppets' = puppets, players \subseteq players'
    PROVE  GhostInv'
<1> DEFINE box == [n \in Conn |-> <<>>]
<1>1. \A n \in Conn : box[n] \in Seq(DownMsg) /\ Range(box[n]) = {}
  BY DEF Range
<1>2. Post(box)
  <2>1. \A n \in Conn : down[n] \o <<>> = down[n]
    BY DEF TypeOK, WireTypeOK
  <2>2. \A n \in Conn : down[n] = IF holder[n] = None THEN down[n]
                                                      ELSE down[n] \o box[n]
    BY <2>1
  <2>3. down = [n \in Conn |-> down[n]]
    BY DEF TypeOK, WireTypeOK
  <2> QED
    BY <2>2, <2>3 DEF Post
<1> QED
  BY <1>1, <1>2, QuietServerGhosts

LEMMA ServerGhostStep ==
    ASSUME TypeOK, GhostInv, ServerNext, UNCHANGED clientVars
    PROVE  GhostInv'
<1> USE DEF TypeOK, WireTypeOK, ServerTypeOK
<1>0. MembersLive /\ MembersLive'
  BY ServerMembersLive DEF GhostInv
<1>a. /\ Range(<<>>) = {}
      /\ \A m : Range(<<m>>) = {m}
      /\ \A k, m : Range(<<k, m>>) = {k, m}
  BY DEF Range
<1>1. ASSUME NEW n \in Conn, Receive(n)
      PROVE  GhostInv'
  BY <1>0, <1>1, SilentServerGhosts DEF Receive
<1>2. CASE BeginDispatch
  BY <1>0, <1>2, SilentServerGhosts DEF BeginDispatch, wireVars
<1>3. CASE EndDispatch
  BY <1>0, <1>3, SilentServerGhosts DEF EndDispatch, wireVars
<1>4. ASSUME NEW n \in Conn, OnDisconnection(n)
      PROVE  GhostInv'
  <2>1. /\ players' = players \ {n} /\ dropped' = dropped \cup {n}
        /\ holder' = holder /\ used' = used
    BY <1>4 DEF OnDisconnection
  <2>2. CASE n \in puppets
    <3> DEFINE box == [m \in Conn |-> IF m \in players \ {n} THEN LeaveNews(n)
                                                           ELSE <<>>]
    <3>1. Post(box) /\ puppets' = puppets \ {n}
      BY <1>4, <2>2 DEF OnDisconnection, Remove
    <3>2. \A m \in Conn : box[m] \in Seq(DownMsg)
      BY MessageTypes DEF LeaveNews
    <3>3. \A m, p \in Conn : /\ Load(p) \notin Range(box[m])
                             /\ Unload(p) \in Range(box[m]) =>
                                   p = n /\ m \in players \ {n}
      BY <1>a, LeaveNewsHolds
    <3>4. \A m \in players \ {n} : Unload(n) \in Range(box[m])
      BY LeaveNewsHolds
    <3> HIDE DEF box
    <3> QED
      BY <1>0, <2>1, <3>1, <3>2, <3>3, <3>4, ServerGhosts
  <2>3. CASE n \notin puppets
    <3> DEFINE box == [m \in Conn |-> <<>>]
    <3>1. \A m \in Conn : box[m] \in Seq(DownMsg) /\ Range(box[m]) = {}
      <4>1. \A m \in Conn : box[m] = <<>>
        OBVIOUS
      <4> QED
        BY <1>a, <4>1
    <3>2. down' = down /\ puppets' = puppets
      BY <1>4, <2>3 DEF OnDisconnection
    <3>3. Post(box)
      <4>1. \A m \in Conn : down[m] = IF holder[m] = None THEN down[m]
                                      ELSE down[m] \o box[m]
        OBVIOUS
      <4>2. down' = [m \in Conn |-> down[m]]
        BY <3>2
      <4> QED
        BY <4>1, <4>2 DEF Post
    <3> HIDE DEF box
    <3> QED
      BY <1>0, <2>1, <3>1, <3>2, <3>3, ServerGhosts
  <2> QED
    BY <2>2, <2>3
<1>5. ASSUME NEW e, HandleSpawnCharacterRequest(e)
      PROVE  GhostInv'
  <2>1. Publish("spawn", e) /\ players' = players
    BY <1>5 DEF HandleSpawnCharacterRequest
  <2>2. /\ e.conn \in Live /\ e.conn \in Conn
        /\ dropped' = dropped /\ holder' = holder /\ used' = used
    BY <1>0, <2>1, PublishLive DEF Live, UpType
  <2>3. CASE e.conn \in players
    <3> DEFINE others == puppets \ {e.conn}
    <3>1. puppets' = puppets \cup {e.conn}
      BY <1>5, <2>3 DEF HandleSpawnCharacterRequest
    <3>2. PICK order \in Orders(others) : Post(SpawnNews(e.conn, others, order))
      BY <1>5, <2>3 DEF HandleSpawnCharacterRequest
    <3>3. others \in SUBSET Conn /\ e.conn \notin others
      OBVIOUS
    <3> DEFINE box == SpawnNews(e.conn, others, order)
    <3>4. \A m \in Conn : box[m] \in Seq(DownMsg)
      BY <2>2, <3>3, SpawnNewsType
    <3>5. \A m, p \in Conn :
             /\ Load(p) \in Range(box[m]) =>
                   \/ m = e.conn /\ p \in others
                   \/ m \in others /\ p = e.conn
             /\ Unload(p) \notin Range(box[m])
      BY <2>2, <3>3, SpawnNewsHolds
    <3>6. puppets' \subseteq players /\ players \subseteq Live
      BY <2>3, <3>1, <1>0 DEF MembersLive
    <3>7. \A m, p \in Conn : Load(p) \in Range(box[m]) =>
             /\ p \in puppets' /\ p \notin dropped' /\ m \in players'
             /\ Unload(p) \notin Range(box[m])
      BY <2>1, <2>2, <3>1, <3>5, <3>6 DEF Live
    <3>8. Post(box)
      BY <3>2
    <3> HIDE DEF box, others
    <3> QED
      BY <1>0, <2>1, <2>2, <3>1, <3>4, <3>5, <3>7, <3>8, ServerGhosts
  <2>4. CASE e.conn \notin players
    <3> DEFINE box == Broadcast({e.conn}, SpawnResponse(None))
    <3>1. Post(box) /\ puppets' = puppets
      BY <1>5, <2>4 DEF HandleSpawnCharacterRequest
    <3>2. \A m \in Conn : box[m] \in Seq(DownMsg)
      BY MessageTypes, BroadcastType
    <3>3. \A m \in Conn : \A k \in Range(box[m]) : k.type \notin {"load", "unload"}
      BY <1>a, MessageKinds DEF Broadcast
    <3> HIDE DEF box
    <3> QED
      BY <1>0, <2>1, <2>2, <3>1, <3>2, <3>3, QuietServerGhosts
  <2> QED
    BY <2>3, <2>4
<1>6. ASSUME NEW e, EnterKnownVehicle(e)
      PROVE  GhostInv'
  <2>1. Publish("enter", e) /\ players' = players /\ puppets' = puppets
    BY <1>6 DEF EnterKnownVehicle
  <2>2. /\ dropped' = dropped /\ holder' = holder /\ used' = used
        /\ e.msg \in UpMsg /\ e.msg.type = "enter"
    BY <2>1, PublishType DEF Publish, UpType
  <2>3. e.msg.id \in Conn /\ e.msg.vehicle \in Vehicle
    BY <1>6, <2>2, MessageFields DEF EnterKnownVehicle, OwnedBy
  <2> DEFINE box == [m \in Conn |->
                 IF m = e.conn THEN IF e.msg.driver
                                    THEN <<VehicleControl(e.msg.vehicle)>>
                                    ELSE <<>>
                 ELSE IF m \in players
                      THEN <<VehicleEnter(e.msg.id, e.msg.vehicle)>>
                 ELSE <<>>]
  <2>4. \A m \in Conn : box[m] \in Seq(DownMsg)
    BY <2>3, MessageTypes
  <2>5. \A m \in Conn : \A k \in Range(box[m]) : k.type \notin {"load", "unload"}
    BY <1>a, MessageKinds
  <2>6. Post(box)
    BY <1>6 DEF EnterKnownVehicle
  <2> HIDE DEF box
  <2> QED
    BY <1>0, <2>1, <2>2, <2>4, <2>5, <2>6, QuietServerGhosts
<1>7. ASSUME NEW e, EnterNewVehicle(e)
      PROVE  GhostInv'
  <2>1. Publish("enter", e) /\ players' = players /\ puppets' = puppets
    BY <1>7 DEF EnterNewVehicle
  <2>2. /\ dropped' = dropped /\ holder' = holder /\ used' = used
        /\ e.msg \in UpMsg /\ e.msg.type = "enter"
    BY <2>1, PublishType DEF Publish, UpType
  <2>3. e.msg.id \in Conn
    BY <1>7, <2>2, MessageFields DEF EnterNewVehicle, OwnedBy
  <2> DEFINE box(v) == [m \in Conn |->
                 IF m = e.conn THEN IF e.msg.driver THEN <<VehicleControl(v)>>
                                                    ELSE <<>>
                 ELSE IF m \in players
                      THEN <<VehicleLoad(v), VehicleEnter(e.msg.id, v)>>
                 ELSE <<>>]
  <2>4. PICK v \in Vehicle : Post(box(v))
    BY <1>7 DEF EnterNewVehicle
  <2>5. \A m \in Conn : box(v)[m] \in Seq(DownMsg)
    BY <2>3, MessageTypes
  <2>6. \A m \in Conn : \A k \in Range(box(v)[m]) :
           k.type \notin {"load", "unload"}
    <3>1. /\ VehicleControl(v).type = "vcontrol"
          /\ VehicleLoad(v).type = "vload"
          /\ VehicleEnter(e.msg.id, v).type = "venter"
      BY MessageKinds
    <3>2. \A m \in Conn : Range(box(v)[m]) \subseteq
             {VehicleControl(v), VehicleLoad(v), VehicleEnter(e.msg.id, v)}
      BY <1>a
    <3> QED
      BY <3>1, <3>2
  <2> HIDE DEF box
  <2> QED
    BY <1>0, <2>1, <2>2, <2>4, <2>5, <2>6, QuietServerGhosts
<1>8. ASSUME NEW e, RefuseEnter(e)
      PROVE  GhostInv'
  BY <1>0, <1>8, SilentServerGhosts DEF RefuseEnter, Publish
<1>9. ASSUME NEW e, HandleExitVehicleRequest(e)
      PROVE  GhostInv'
  <2>1. /\ players' = players /\ puppets' = puppets
        /\ dropped' = dropped /\ holder' = holder /\ used' = used
    BY <1>9 DEF HandleExitVehicleRequest, Publish
  <2>2. CASE OwnedBy(e.msg.id, e.conn) /\ attached[e.msg.id] # None
    <3> DEFINE box == Broadcast(players \ {e.conn}, VehicleExit(e.msg.id))
    <3>1. Post(box)
      BY <1>9, <2>2 DEF HandleExitVehicleRequest
    <3>2. VehicleExit(e.msg.id) \in DownMsg
      BY <2>2, MessageTypes DEF OwnedBy
    <3>3. \A m \in Conn : box[m] \in Seq(DownMsg)
      BY <3>2, BroadcastType
    <3>4. \A m \in Conn : \A k \in Range(box[m]) : k.type \notin {"load", "unload"}
      BY <1>a, MessageKinds DEF Broadcast
    <3> HIDE DEF box
    <3> QED
      BY <1>0, <2>1, <3>1, <3>3, <3>4, QuietServerGhosts
  <2>3. CASE ~(OwnedBy(e.msg.id, e.conn) /\ attached[e.msg.id] # None)
    BY <1>0, <1>9, <2>1, <2>3, SilentServerGhosts DEF HandleExitVehicleRequest
  <2> QED
    BY <2>2, <2>3
<1>10. ASSUME NEW e, HandleAuthentication(e)
       PROVE  GhostInv'
  <2>1. /\ players \subseteq players' /\ puppets' = puppets
        /\ dropped' = dropped /\ holder' = holder /\ used' = used
    BY <1>10 DEF HandleAuthentication, Publish
  <2> DEFINE box == Broadcast({e.conn}, AuthResponse)
  <2>2. Post(box)
    BY <1>10 DEF HandleAuthentication
  <2>3. \A m \in Conn : box[m] \in Seq(DownMsg)
    BY MessageTypes, BroadcastType
  <2>4. \A m \in Conn : \A k \in Range(box[m]) : k.type \notin {"load", "unload"}
    BY <1>a, MessageKinds DEF Broadcast
  <2> HIDE DEF box
  <2> QED
    BY <1>0, <2>1, <2>2, <2>3, <2>4, QuietServerGhosts
<1> QED
  BY <1>1, <1>2, <1>3, <1>4, <1>5, <1>6, <1>7, <1>8, <1>9, <1>10
     DEF ServerNext, ServerHandle

-----------------------------------------------------------------------------
(* A step of a client is told by what it leaves of the two channels.       *)
LEMMA ClientGhosts ==
    ASSUME GhostInv, UNCHANGED serverVars, dropped' = dropped,
           Live \subseteq Live',
           ClosedIsEmpty', LoadsFirst',
           \A n, p \in Conn :
              /\ OnWay(n, Unload(p))' => OnWay(n, Unload(p))
              /\ ComingOrShown(n, p)' =>
                    /\ ComingOrShown(n, p)
                    /\ OnWay(n, Unload(p)) => OnWay(n, Unload(p))'
    PROVE  GhostInv'
<1>1. /\ players' = players /\ puppets' = puppets
      /\ inbox' = inbox /\ phase' = phase
  BY DEF serverVars
<1>2. MembersLive'
  BY <1>1 DEF GhostInv, MembersLive
<1>3. UnloadsOfTheGone'
  BY DEF GhostInv, UnloadsOfTheGone
<1>4. GhostsLeave'
  <2> SUFFICES ASSUME NEW n \in Conn, NEW p \in Conn,
                      n \notin dropped', ComingOrShown(n, p)'
               PROVE  n \in players' /\ (p \in puppets' \/ OnWay(n, Unload(p))')
    BY DEF GhostsLeave
  <2>1. /\ ComingOrShown(n, p)
        /\ OnWay(n, Unload(p)) => OnWay(n, Unload(p))'
    OBVIOUS
  <2>2. n \in players /\ (p \in puppets \/ OnWay(n, Unload(p)))
    BY <2>1 DEF GhostInv, GhostsLeave
  <2> QED
    BY <1>1, <2>1, <2>2
<1> QED
  BY <1>2, <1>3, <1>4 DEF GhostInv

(* A step of a client that touches neither channels nor queues nor screens. *)
LEMMA StillClientGhosts ==
    ASSUME GhostInv, UNCHANGED serverVars, dropped' = dropped,
           Live \subseteq Live',
           down' = down, pool' = pool, view' = view,
           \A n \in Conn : holder'[n] = None => holder[n] = None
    PROVE  GhostInv'
<1>1. \A n, m : /\ OnWire(n, m)' <=> OnWire(n, m)
                /\ Queued(n, m)' <=> Queued(n, m)
  BY DEF OnWire, Queued
<1>2. \A n, m : OnWay(n, m)' <=> OnWay(n, m)
  BY <1>1 DEF OnWay
<1>3. \A n, p : ComingOrShown(n, p)' <=> ComingOrShown(n, p)
  BY <1>2 DEF ComingOrShown
<1>4. ClosedIsEmpty'
  BY DEF GhostInv, ClosedIsEmpty
<1>5. LoadsFirst'
  BY <1>1 DEF GhostInv, LoadsFirst
<1> QED
  BY <1>2, <1>3, <1>4, <1>5, ClientGhosts

(* The messages of a queue are what the constructors make.                 *)
LEMMA MessageIs ==
    /\ \A m \in DownMsgOf("load") : m.id \in Conn /\ m = Load(m.id)
    /\ \A m \in DownMsgOf("unload") : m.id \in Conn /\ m = Unload(m.id)
BY DEF DownMsgOf, DownMsg, Load, Unload

(* What a dispatch takes out of the queues.                                *)
LEMMA DispatchTakes ==
    ASSUME TypeOK, NEW n \in Conn, NEW t \in DownType, Dispatch(n, t)
    PROVE  /\ down' = down /\ holder' = holder
           /\ dropped' = dropped /\ used' = used /\ Live' = Live
           /\ pool[n] # EmptyPool
           /\ \A k \in Conn \ {n} : pool'[k] = pool[k]
           /\ Head(pool[n][t]) \in DownMsgOf(t)
           /\ \A k, m : OnWire(k, m)' <=> OnWire(k, m)
           /\ \A k \in Conn, m \in DownMsg :
                 Queued(k, m) <=>
                    Queued(k, m)' \/ (k = n /\ m = Head(pool[n][t]))
<1>1. /\ pool[n][t] \in Seq(DownMsgOf(t)) /\ pool[n][t] # <<>>
      /\ pool' = [pool EXCEPT ![n][t] = Tail(@)]
      /\ pool \in [Conn -> [DownType -> Seq(DownMsg)]]
  BY DEF Dispatch, TypeOK, ClientTypeOK
<1>2. Range(pool[n][t]) = {Head(pool[n][t])} \cup Range(Tail(pool[n][t]))
  BY <1>1, RangeHeadTail
<1>3. Head(pool[n][t]) \in DownMsgOf(t) /\ Head(pool[n][t]).type = t
  BY <1>1 DEF DownMsgOf
<1>4. \A k \in Conn, u \in DownType :
         pool'[k][u] = IF k = n /\ u = t THEN Tail(pool[n][t]) ELSE pool[k][u]
  BY <1>1
<1>5. \A k \in Conn \ {n} : pool'[k] = pool[k]
  BY <1>1
<1>6. pool[n] # EmptyPool
  BY <1>1 DEF EmptyPool
<1>7. \A k, m : /\ Queued(k, m) <=> m \in Range(pool[k][m.type])
                /\ Queued(k, m)' <=> m \in Range(pool'[k][m.type])
  BY DEF Queued, Range
<1>8. ASSUME NEW k \in Conn, NEW m \in DownMsg
      PROVE  Queued(k, m) <=> Queued(k, m)' \/ (k = n /\ m = Head(pool[n][t]))
  <2>1. m.type \in DownType
    BY MessageFields
  <2>2. CASE k = n /\ m.type = t
    BY <1>2, <1>4, <1>7, <2>2
  <2>3. CASE ~(k = n /\ m.type = t)
    BY <1>3, <1>4, <1>7, <2>1, <2>3
  <2> QED
    BY <2>2, <2>3
<1>9. /\ down' = down /\ holder' = holder /\ dropped' = dropped
      /\ used' = used /\ Live' = Live
  BY DEF Dispatch, Live
<1>10. \A k, m : OnWire(k, m)' <=> OnWire(k, m)
  BY <1>9 DEF OnWire
<1> QED
  BY <1>3, <1>5, <1>6, <1>8, <1>9, <1>10

(* A dispatch that neither announces nor removes a puppet.                 *)
LEMMA OtherDispatchGhosts ==
    ASSUME TypeOK, GhostInv, UNCHANGED serverVars, NEW n \in Conn,
           NEW t \in DownType \ {"load", "unload"}, Dispatch(n, t), view' = view
    PROVE  GhostInv'
<1>1. /\ down' = down /\ holder' = holder
      /\ dropped' = dropped /\ Live' = Live
      /\ pool[n] # EmptyPool
      /\ \A k \in Conn \ {n} : pool'[k] = pool[k]
      /\ Head(pool[n][t]) \in DownMsgOf(t)
      /\ \A k, m : OnWire(k, m)' <=> OnWire(k, m)
      /\ \A k \in Conn, m \in DownMsg :
            Queued(k, m) <=> Queued(k, m)' \/ (k = n /\ m = Head(pool[n][t]))
  BY DispatchTakes
<1>2. Head(pool[n][t]).type \notin {"load", "unload"}
  BY <1>1 DEF DownMsgOf
<1>3. \A k, p \in Conn : /\ Queued(k, Load(p))' <=> Queued(k, Load(p))
                         /\ Queued(k, Unload(p))' <=> Queued(k, Unload(p))
  BY <1>1, <1>2, MessageKinds, MessageTypes
<1>4. \A k, p \in Conn : /\ OnWay(k, Load(p))' <=> OnWay(k, Load(p))
                         /\ OnWay(k, Unload(p))' <=> OnWay(k, Unload(p))
  BY <1>1, <1>3 DEF OnWay
<1>5. \A k, p \in Conn : ComingOrShown(k, p)' <=> ComingOrShown(k, p)
  BY <1>4 DEF ComingOrShown
<1>6. ClosedIsEmpty'
  BY <1>1 DEF GhostInv, ClosedIsEmpty
<1>7. LoadsFirst'
  BY <1>1, <1>3 DEF GhostInv, LoadsFirst
<1> QED
  BY <1>1, <1>4, <1>5, <1>6, <1>7, ClientGhosts

LEMMA LoadGhosts ==
    ASSUME TypeOK, GhostInv, UNCHANGED serverVars, NEW n \in Conn,
           HandleCharacterLoad(n)
    PROVE  GhostInv'
<1> DEFINE p == Head(pool[n]["load"]).id
<1>1. /\ down' = down /\ holder' = holder
      /\ dropped' = dropped /\ Live' = Live
      /\ pool[n] # EmptyPool
      /\ \A k \in Conn \ {n} : pool'[k] = pool[k]
      /\ Head(pool[n]["load"]) \in DownMsgOf("load")
      /\ \A k, m : OnWire(k, m)' <=> OnWire(k, m)
      /\ \A k \in Conn, m \in DownMsg :
            Queued(k, m) <=>
               Queued(k, m)' \/ (k = n /\ m = Head(pool[n]["load"]))
  <2>1. Dispatch(n, "load") /\ "load" \in DownType
    BY DEF HandleCharacterLoad, DownType
  <2> QED
    BY <2>1, DispatchTakes
<1>2. p \in Conn /\ Head(pool[n]["load"]) = Load(p)
  BY <1>1, MessageIs
<1>3. view' = [view EXCEPT ![n][p] = IF holder[n] \in ready THEN "shown"
                                     ELSE IF @ = "shown" THEN @ ELSE "skipped"]
  BY DEF HandleCharacterLoad
<1>4. view \in [Conn -> [Conn -> Life]]
  BY DEF TypeOK, ClientTypeOK
<1> HIDE DEF p
<1>5. \A k, q \in Conn : k # n \/ q # p => view'[k][q] = view[k][q]
  BY <1>2, <1>3, <1>4
<1>6. \A k \in Conn \ {n} : view'[k] = view[k]
  BY <1>3, <1>4
<1>7. \A k, q \in Conn : Queued(k, Unload(q))' <=> Queued(k, Unload(q))
  BY <1>1, <1>2, MessageKinds, MessageTypes
<1>8. \A k, q \in Conn : OnWay(k, Unload(q))' <=> OnWay(k, Unload(q))
  BY <1>1, <1>7 DEF OnWay
<1>9. ASSUME NEW k \in Conn, NEW q \in Conn, ComingOrShown(k, q)'
      PROVE  ComingOrShown(k, q)
  <2>1. CASE k = n /\ q = p
    <3>1. Queued(n, Load(p))
      BY <1>1, <1>2, MessageTypes
    <3> QED
      BY <2>1, <3>1 DEF ComingOrShown, OnWay
  <2>2. CASE ~(k = n /\ q = p)
    <3>1. view'[k][q] = view[k][q]
      BY <1>5, <2>2
    <3>2. OnWay(k, Load(q))' => OnWay(k, Load(q))
      <4>1. Queued(k, Load(q))' => Queued(k, Load(q))
        BY <1>1, MessageTypes
      <4> QED
        BY <1>1, <4>1 DEF OnWay
    <3> QED
      BY <1>9, <3>1, <3>2 DEF ComingOrShown
  <2> QED
    BY <2>1, <2>2
<1>10. ClosedIsEmpty'
  BY <1>1, <1>6 DEF GhostInv, ClosedIsEmpty
<1>11. LoadsFirst'
  BY <1>1, <1>7 DEF GhostInv, LoadsFirst
<1> QED
  BY <1>1, <1>8, <1>9, <1>10, <1>11, ClientGhosts

LEMMA UnloadGhosts ==
    ASSUME TypeOK, GhostInv, UNCHANGED serverVars, NEW n \in Conn,
           HandleEntityUnload(n)
    PROVE  GhostInv'
<1> DEFINE p == Head(pool[n]["unload"]).id
<1>1. /\ down' = down /\ holder' = holder
      /\ dropped' = dropped /\ Live' = Live
      /\ pool[n] # EmptyPool
      /\ \A k \in Conn \ {n} : pool'[k] = pool[k]
      /\ Head(pool[n]["unload"]) \in DownMsgOf("unload")
      /\ \A k, m : OnWire(k, m)' <=> OnWire(k, m)
      /\ \A k \in Conn, m \in DownMsg :
            Queued(k, m) <=>
               Queued(k, m)' \/ (k = n /\ m = Head(pool[n]["unload"]))
  <2>1. Dispatch(n, "unload") /\ "unload" \in DownType
    BY DEF HandleEntityUnload, DownType
  <2> QED
    BY <2>1, DispatchTakes
<1>2. p \in Conn /\ Head(pool[n]["unload"]) = Unload(p)
  BY <1>1, MessageIs
<1>3. view' = [view EXCEPT ![n][p] = IF @ = "shown" THEN "gone" ELSE @]
  BY DEF HandleEntityUnload
<1>4. view \in [Conn -> [Conn -> Life]]
  BY DEF TypeOK, ClientTypeOK
<1>5. pool[n]["load"] = <<>>
  BY DEF HandleEntityUnload, Dispatch, Before
<1> HIDE DEF p
<1>6. /\ \A k, q \in Conn : k # n \/ q # p => view'[k][q] = view[k][q]
      /\ view'[n][p] # "shown"
      /\ \A k \in Conn \ {n} : view'[k] = view[k]
  BY <1>2, <1>3, <1>4
<1>7. ASSUME NEW k \in Conn, NEW q \in Conn
      PROVE  /\ Queued(k, Load(q))' => Queued(k, Load(q))
             /\ Queued(k, Unload(q))' => Queued(k, Unload(q))
             /\ k # n \/ q # p => (Queued(k, Unload(q)) => Queued(k, Unload(q))')
  <2>1. Load(q) \in DownMsg /\ Unload(q) \in DownMsg
    BY MessageTypes
  <2>2. q # p => Unload(q) # Unload(p)
    BY MessageKinds
  <2> QED
    BY <1>1, <1>2, <2>1, <2>2
<1>8. \A k, q \in Conn : OnWay(k, Unload(q))' => OnWay(k, Unload(q))
  BY <1>1, <1>7 DEF OnWay
<1>9. ASSUME NEW k \in Conn, NEW q \in Conn, ComingOrShown(k, q)'
      PROVE  /\ ComingOrShown(k, q)
             /\ OnWay(k, Unload(q)) => OnWay(k, Unload(q))'
  <2>1. OnWay(k, Load(q))' => OnWay(k, Load(q))
    BY <1>1, <1>7 DEF OnWay
  <2>2. CASE k = n /\ q = p
    <3>1. Queued(n, Unload(p))
      BY <1>1, <1>2, MessageTypes
    <3>2. ~OnWire(n, Load(p))
      BY <1>2, <3>1 DEF GhostInv, LoadsFirst
    <3>3. ~Queued(n, Load(p))
      <4>1. Load(p).type = "load"
        BY MessageKinds
      <4> QED
        BY <1>5, <4>1 DEF Queued, Range
    <3> QED
      BY <1>6, <1>9, <2>1, <2>2, <3>2, <3>3 DEF ComingOrShown, OnWay
  <2>3. CASE ~(k = n /\ q = p)
    <3>1. view'[k][q] = view[k][q]
      BY <1>6, <2>3
    <3>2. OnWay(k, Unload(q)) => OnWay(k, Unload(q))'
      BY <1>1, <1>7, <2>3 DEF OnWay
    <3> QED
      BY <1>9, <2>1, <3>1, <3>2 DEF ComingOrShown
  <2> QED
    BY <2>2, <2>3
<1>10. ClosedIsEmpty'
  BY <1>1, <1>6 DEF GhostInv, ClosedIsEmpty
<1>11. LoadsFirst'
  BY <1>1, <1>7 DEF GhostInv, LoadsFirst
<1> QED
  BY <1>1, <1>8, <1>9, <1>10, <1>11, ClientGhosts

(* What reading one message moves from the channel to the dispatcher.      *)
LEMMA ConsumeMoves ==
    ASSUME TypeOK, NEW n \in Conn, OnConsume(n)
    PROVE  /\ down[n] \in Seq(DownMsg) /\ down[n] # <<>>
           /\ Head(down[n]) \in DownMsg /\ Head(down[n]).type \in DownType
           /\ holder[n] # None
           /\ \A k \in Conn : down'[k] = IF k = n THEN Tail(down[n]) ELSE down[k]
           /\ \A k \in Conn \ {n} : pool'[k] = pool[k]
           /\ \A k \in Conn, u \in DownType :
                 pool'[k][u] = IF k = n /\ u = Head(down[n]).type
                               THEN Append(pool[n][u], Head(down[n]))
                               ELSE pool[k][u]
           /\ \A k \in Conn, x \in DownMsg :
                 /\ OnWire(k, x) <=> OnWire(k, x)' \/ (k = n /\ x = Head(down[n]))
                 /\ Queued(k, x)' <=> Queued(k, x) \/ (k = n /\ x = Head(down[n]))
<1> DEFINE m == Head(down[n])
<1>1. /\ down[n] \in Seq(DownMsg) /\ down[n] # <<>>
      /\ down \in [Conn -> Seq(DownMsg)]
      /\ pool \in [Conn -> [DownType -> Seq(DownMsg)]]
      /\ holder[n] # None
  BY DEF OnConsume, TypeOK, WireTypeOK, ClientTypeOK, Open
<1>2. m \in DownMsg /\ m.type \in DownType
  BY <1>1, MessageFields
<1>3. /\ pool' = [pool EXCEPT ![n][m.type] = Append(@, m)]
      /\ down' = [down EXCEPT ![n] = Tail(@)]
  BY DEF OnConsume
<1>4. Range(down[n]) = {m} \cup Range(Tail(down[n]))
  BY <1>1, RangeHeadTail
<1> HIDE DEF m
<1>5. Range(Append(pool[n][m.type], m)) = Range(pool[n][m.type]) \cup {m}
  BY <1>1, <1>2, RangeAppend
<1>6. /\ \A k \in Conn : down'[k] = IF k = n THEN Tail(down[n]) ELSE down[k]
      /\ \A k \in Conn \ {n} : pool'[k] = pool[k]
      /\ \A k \in Conn, u \in DownType :
            pool'[k][u] = IF k = n /\ u = m.type THEN Append(pool[n][u], m)
                                                 ELSE pool[k][u]
  BY <1>1, <1>2, <1>3
<1>7. \A k, x : /\ Queued(k, x) <=> x \in Range(pool[k][x.type])
                /\ Queued(k, x)' <=> x \in Range(pool'[k][x.type])
                /\ OnWire(k, x) <=> x \in Range(down[k])
                /\ OnWire(k, x)' <=> x \in Range(down'[k])
  BY DEF Queued, OnWire, Range
<1>8. ASSUME NEW k \in Conn, NEW x \in DownMsg
      PROVE  /\ OnWire(k, x) <=> OnWire(k, x)' \/ (k = n /\ x = m)
             /\ Queued(k, x)' <=> Queued(k, x) \/ (k = n /\ x = m)
  <2>1. x.type \in DownType
    BY MessageFields
  <2>2. OnWire(k, x) <=> OnWire(k, x)' \/ (k = n /\ x = m)
    BY <1>4, <1>6, <1>7
  <2>3. Queued(k, x)' <=> Queued(k, x) \/ (k = n /\ x = m)
    <3>1. CASE k = n /\ x.type = m.type
      <4>1. pool'[k][x.type] = Append(pool[n][m.type], m)
        BY <1>6, <2>1, <3>1
      <4> QED
        BY <1>5, <1>7, <3>1, <4>1
    <3>2. CASE ~(k = n /\ x.type = m.type)
      <4>1. pool'[k][x.type] = pool[k][x.type]
        BY <1>6, <2>1, <3>2
      <4> QED
        BY <1>7, <3>2, <4>1
    <3> QED
      BY <3>1, <3>2
  <2> QED
    BY <2>2, <2>3
<1> QED
  BY <1>1, <1>2, <1>6, <1>8 DEF m

LEMMA ConsumeGhosts ==
    ASSUME TypeOK, GhostInv, UNCHANGED serverVars, NEW n \in Conn, OnConsume(n)
    PROVE  GhostInv'
<1> DEFINE m == Head(down[n])
<1>1. /\ down[n] \in Seq(DownMsg) /\ down[n] # <<>>
      /\ holder[n] # None
  BY ConsumeMoves
<1>3. /\ holder' = holder /\ dropped' = dropped /\ view' = view
      /\ Live' = Live
  BY DEF OnConsume, Live
<1>6. /\ \A k \in Conn : down'[k] = IF k = n THEN Tail(down[n]) ELSE down[k]
      /\ \A k \in Conn \ {n} : pool'[k] = pool[k]
  BY ConsumeMoves
<1>7. \A k, x : OnWire(k, x) <=> x \in Range(down[k])
  BY DEF OnWire, Range
<1>8. \A k \in Conn, x \in DownMsg :
         /\ OnWire(k, x) <=> OnWire(k, x)' \/ (k = n /\ x = m)
         /\ Queued(k, x)' <=> Queued(k, x) \/ (k = n /\ x = m)
  BY ConsumeMoves
<1> HIDE DEF m
<1>9. \A k \in Conn, x \in DownMsg : OnWay(k, x)' <=> OnWay(k, x)
  <2> TAKE k \in Conn, x \in DownMsg
  <2>1. /\ OnWire(k, x) <=> OnWire(k, x)' \/ (k = n /\ x = m)
        /\ Queued(k, x)' <=> Queued(k, x) \/ (k = n /\ x = m)
    BY <1>8
  <2>2. /\ OnWay(k, x) <=> OnWire(k, x) \/ Queued(k, x)
        /\ OnWay(k, x)' <=> OnWire(k, x)' \/ Queued(k, x)'
    BY DEF OnWay
  <2> QED
    BY <2>1, <2>2
<1>10. \A k, p \in Conn : OnWay(k, Unload(p))' <=> OnWay(k, Unload(p))
  BY <1>9, MessageTypes
<1>11. \A k, p \in Conn : ComingOrShown(k, p)' <=> ComingOrShown(k, p)
  BY <1>3, <1>9, MessageTypes DEF ComingOrShown
<1>12. ClosedIsEmpty'
  BY <1>1, <1>3, <1>6 DEF GhostInv, ClosedIsEmpty
<1>13. LoadsFirst'
  <2> SUFFICES ASSUME NEW k \in Conn, NEW p \in Conn
               PROVE  /\ Ordered(down'[k], Load(p), Unload(p))
                      /\ Queued(k, Unload(p))' => ~OnWire(k, Load(p))'
    BY DEF LoadsFirst
  <2>1. /\ Ordered(down[k], Load(p), Unload(p))
        /\ Queued(k, Unload(p)) => ~OnWire(k, Load(p))
    BY DEF GhostInv, LoadsFirst
  <2>2. Ordered(down'[k], Load(p), Unload(p))
    <3>1. CASE k = n
      <4>1. Ordered(Tail(down[n]), Load(p), Unload(p))
        BY <1>1, <2>1, <3>1, OrderTail
      <4> QED
        BY <1>6, <3>1, <4>1
    <3>2. CASE k # n
      BY <1>6, <2>1, <3>2
    <3> QED
      BY <3>1, <3>2
  <2>3. ASSUME Queued(k, Unload(p))'
        PROVE  ~OnWire(k, Load(p))'
    <3>1. Load(p) \in DownMsg /\ Unload(p) \in DownMsg
      BY MessageTypes
    <3>2. CASE k = n /\ Unload(p) = m
      <4>1. Load(p) \notin Range(down[n])
        BY <1>1, <2>1, <3>2, OrderTail DEF m
      <4> QED
        BY <1>7, <1>8, <3>1, <3>2, <4>1
    <3>3. CASE ~(k = n /\ Unload(p) = m)
      BY <1>8, <2>1, <2>3, <3>1, <3>3
    <3> QED
      BY <3>2, <3>3
  <2> QED
    BY <2>2, <2>3
<1> QED
  BY <1>3, <1>10, <1>11, <1>12, <1>13, ClientGhosts

LEMMA DisconnectGhosts ==
    ASSUME TypeOK, GhostInv, UNCHANGED serverVars, NEW n \in Conn,
           OnDisconnected(n)
    PROVE  GhostInv'
<1>1. /\ \A k \in Conn : down'[k] = IF k = n THEN <<>> ELSE down[k]
      /\ \A k \in Conn : view'[k] = IF k = n THEN EmptyView ELSE view[k]
      /\ \A k \in Conn : holder'[k] = IF k = n THEN None ELSE holder[k]
      /\ pool' = pool /\ pool[n] = EmptyPool
      /\ dropped' = dropped /\ Live' = Live
  BY DEF OnDisconnected, Idle, Live, TypeOK, WireTypeOK, ClientTypeOK
<1>2. ClosedIsEmpty'
  <2>1. EmptyPool' = EmptyPool /\ EmptyView' = EmptyView
    BY DEF EmptyPool, EmptyView, DownType
  <2> QED
    BY <1>1, <2>1 DEF GhostInv, ClosedIsEmpty
<1>3. \A k, x : /\ OnWire(k, x)' <=> x \in Range(down'[k])
                /\ OnWire(k, x) <=> x \in Range(down[k])
                /\ Queued(k, x)' <=> Queued(k, x)
  BY <1>1 DEF OnWire, Queued, Range
<1>4. Range(<<>>) = {}
  BY DEF Range
<1>5. \A k \in Conn : \A x : OnWire(k, x)' => OnWire(k, x) /\ k # n
  BY <1>1, <1>3, <1>4
<1>6. \A p : ~Queued(n, Load(p)) /\ ~Queued(n, Unload(p))
  <2>1. pool[n]["load"] = <<>> /\ pool[n]["unload"] = <<>>
    BY <1>1 DEF EmptyPool, DownType
  <2> QED
    BY <2>1, MessageKinds DEF Queued, Range
<1>7. LoadsFirst'
  <2>1. \A k, p \in Conn : Ordered(down'[k], Load(p), Unload(p))
    <3>1. \A p : Ordered(<<>>, Load(p), Unload(p))
      BY DEF Ordered
    <3> QED
      BY <1>1, <3>1 DEF GhostInv, LoadsFirst
  <2> QED
    BY <1>3, <1>5, <2>1 DEF GhostInv, LoadsFirst
<1>8. ASSUME NEW k \in Conn, NEW p \in Conn
      PROVE  /\ OnWay(k, Unload(p))' => OnWay(k, Unload(p))
             /\ ComingOrShown(k, p)' =>
                   /\ ComingOrShown(k, p)
                   /\ OnWay(k, Unload(p)) => OnWay(k, Unload(p))'
  <2>1. CASE k = n
    <3>1. view'[n][p] # "shown"
      BY <1>1 DEF EmptyView
    <3>2. \A x : ~OnWire(n, x)'
      BY <1>5
    <3>3. ~OnWay(n, Unload(p))' /\ ~OnWay(n, Load(p))'
      BY <1>3, <1>6, <3>2 DEF OnWay
    <3> QED
      BY <2>1, <3>1, <3>3 DEF ComingOrShown
  <2>2. CASE k # n
    <3>1. view'[k] = view[k] /\ down'[k] = down[k]
      BY <1>1, <2>2
    <3>2. \A x : OnWire(k, x)' <=> OnWire(k, x)
      BY <1>3, <3>1
    <3>3. \A x : OnWay(k, x)' <=> OnWay(k, x)
      BY <1>3, <3>2 DEF OnWay
    <3> QED
      BY <3>1, <3>3 DEF ComingOrShown
  <2> QED
    BY <2>1, <2>2
<1> QED
  BY <1>1, <1>2, <1>7, <1>8, ClientGhosts

LEMMA ClientGhostStep ==
    ASSUME TypeOK, GhostInv, ClientNext, UNCHANGED serverVars
    PROVE  GhostInv'
<1>1. ASSUME NEW c \in Client, OnWorldAttached(c) \/ OnAfterWorldDetach(c)
      PROVE  GhostInv'
  BY <1>1, StillClientGhosts
     DEF OnWorldAttached, OnAfterWorldDetach, wireVars, Live
<1>2. ASSUME NEW c \in Client, NEW n \in Conn, Connect(c, n)
      PROVE  GhostInv'
  <2>1. /\ down' = down /\ pool' = pool /\ view' = view /\ dropped' = dropped
        /\ Live \subseteq Live'
    BY <1>2 DEF Connect, clientVars, Live
  <2>2. \A k \in Conn : holder'[k] = None => holder[k] = None
    BY <1>2, NoneAssumption DEF Connect, TypeOK, WireTypeOK
  <2> QED
    BY <2>1, <2>2, StillClientGhosts
<1>3. ASSUME NEW n \in Conn, BeginUpdate(n) \/ EndUpdate(n)
      PROVE  GhostInv'
  BY <1>3, StillClientGhosts DEF BeginUpdate, EndUpdate, wireVars, Live
<1>4. ASSUME NEW n \in Conn, OnVehicleEnter(n) \/ OnVehicleExit(n)
      PROVE  GhostInv'
  BY <1>4, StillClientGhosts DEF OnVehicleEnter, OnVehicleExit, Ask, Live
<1>5. ASSUME NEW n \in Conn, HandleAuthResponse(n)
      PROVE  GhostInv'
  BY <1>5, OtherDispatchGhosts DEF HandleAuthResponse, DownType
<1>6. ASSUME NEW n \in Conn, HandleSpawnCharacterResponse(n)
      PROVE  GhostInv'
  BY <1>6, OtherDispatchGhosts DEF HandleSpawnCharacterResponse, DownType
<1>7. ASSUME NEW n \in Conn, HandleVehicleLoad(n)
      PROVE  GhostInv'
  BY <1>7, OtherDispatchGhosts DEF HandleVehicleLoad, DownType
<1>8. ASSUME NEW n \in Conn, HandleMounting(n)
      PROVE  GhostInv'
  BY <1>8, OtherDispatchGhosts DEF HandleMounting, DownType
<1> QED
  BY <1>1, <1>2, <1>3, <1>4, <1>5, <1>6, <1>7, <1>8, LoadGhosts, UnloadGhosts,
     ConsumeGhosts, DisconnectGhosts DEF ClientNext, ClientHandle

LEMMA GhostInit == Init => GhostInv
<1> SUFFICES ASSUME Init
             PROVE  GhostInv
  OBVIOUS
<1>1. /\ \A n \in Conn : /\ down[n] = <<>>
                         /\ pool[n] = EmptyPool
                         /\ view[n] = EmptyView
      /\ players = {}
      /\ \A t \in UpType : inbox[t] = <<>>
  BY DEF Init, WireInit, ServerInit, ClientInit
<1>2. \A n, p \in Conn : /\ ~OnWay(n, Load(p)) /\ ~OnWay(n, Unload(p))
                         /\ view[n][p] # "shown"
  <2>1. \A n \in Conn : \A m : ~OnWire(n, m)
    BY <1>1 DEF OnWire, Range
  <2>2. \A n \in Conn : pool[n]["load"] = <<>> /\ pool[n]["unload"] = <<>>
    BY <1>1 DEF EmptyPool, DownType
  <2>3. \A n, p \in Conn : ~Queued(n, Load(p)) /\ ~Queued(n, Unload(p))
    BY <2>2, MessageKinds DEF Queued, Range
  <2>4. \A n, p \in Conn : view[n][p] = "unseen"
    BY <1>1 DEF EmptyView
  <2> QED
    BY <2>1, <2>3, <2>4 DEF OnWay
<1>3. ClosedIsEmpty
  BY <1>1 DEF ClosedIsEmpty
<1>4. MembersLive
  BY <1>1 DEF MembersLive
<1>5. LoadsFirst
  <2>1. \A n, p \in Conn : Ordered(down[n], Load(p), Unload(p))
    BY <1>1 DEF Ordered
  <2> QED
    BY <1>2, <2>1 DEF LoadsFirst, OnWay
<1> QED
  BY <1>2, <1>3, <1>4, <1>5
     DEF GhostInv, UnloadsOfTheGone, GhostsLeave, ComingOrShown

(* Nobody is left with the ghost of a player who has gone, for any number  *)
(* of players and any interleaving of the dispatchers: Level::Remove tells *)
(* every player, and the client publishes an unload only after every load  *)
(* that came before it.                                                    *)
THEOREM NoGhosts == Spec => []NoGhostPuppet
<1>1. GhostInv => NoGhostPuppet
  BY DEF GhostInv, GhostsLeave, ComingOrShown, NoGhostPuppet
<1>2. TypeOK /\ GhostInv /\ [Next]_vars => GhostInv'
  <2> SUFFICES ASSUME TypeOK, GhostInv, [Next]_vars
               PROVE  GhostInv'
    OBVIOUS
  <2>1. CASE ServerNext /\ UNCHANGED clientVars
    BY <2>1, ServerGhostStep
  <2>2. CASE ClientNext /\ UNCHANGED serverVars
    BY <2>2, ClientGhostStep
  <2>3. CASE UNCHANGED vars
    BY <2>3, StillClientGhosts
       DEF vars, wireVars, serverVars, clientVars, Live
  <2> QED
    BY <2>1, <2>2, <2>3 DEF Next
<1> QED
  BY <1>1, <1>2, GhostInit, TypeCorrect, PTL DEF Spec

-----------------------------------------------------------------------------
(* What a handler of the server does to puppets, seats, vehicles and cells. *)
LEMMA HandlerKeeps ==
    ASSUME TypeOK, NEW e, ServerHandle(e)
    PROVE  /\ puppets \subseteq puppets'
           /\ dropped' = dropped
           /\ \A p \in Conn : attached'[p] # attached[p] =>
                 /\ p = e.conn /\ p \in puppets
                 /\ \E t \in {"enter", "exit"} : Publish(t, e)
           /\ \A v \in Vehicle : owner'[v] # owner[v] => owner'[v] \in puppets
<1> USE DEF TypeOK, ServerTypeOK
<1>1. CASE HandleSpawnCharacterRequest(e)
  BY <1>1 DEF HandleSpawnCharacterRequest, Publish
<1>2. CASE EnterKnownVehicle(e)
  <2>1. Publish("enter", e)
    BY <1>2 DEF EnterKnownVehicle
  <2> QED
    BY <1>2, <2>1 DEF EnterKnownVehicle, OwnedBy, Publish
<1>3. CASE EnterNewVehicle(e)
  <2>1. Publish("enter", e)
    BY <1>3 DEF EnterNewVehicle
  <2>2. PICK v \in Vehicle : /\ owner' = [owner EXCEPT ![v] = e.conn]
                             /\ attached' = [attached EXCEPT ![e.msg.id] = v]
    BY <1>3 DEF EnterNewVehicle
  <2>3. e.msg.id = e.conn /\ e.conn \in puppets
    BY <1>3 DEF EnterNewVehicle, OwnedBy
  <2>4. puppets' = puppets /\ dropped' = dropped
    BY <1>3 DEF EnterNewVehicle, Publish
  <2> QED
    BY <2>1, <2>2, <2>3, <2>4
<1>4. CASE RefuseEnter(e)
  BY <1>4 DEF RefuseEnter, Publish
<1>5. CASE HandleExitVehicleRequest(e)
  <2>1. Publish("exit", e)
    BY <1>5 DEF HandleExitVehicleRequest
  <2> QED
    BY <1>5, <2>1 DEF HandleExitVehicleRequest, OwnedBy, Publish
<1>6. CASE HandleAuthentication(e)
  BY <1>6 DEF HandleAuthentication, Publish
<1> QED
  BY <1>1, <1>2, <1>3, <1>4, <1>5, <1>6 DEF ServerHandle

(* The steps of the server other than a disconnection and a handler.       *)
LEMMA LoopKeeps ==
    ASSUME NEW n \in Conn, Receive(n) \/ BeginDispatch \/ EndDispatch
    PROVE  /\ puppets' = puppets /\ attached' = attached /\ owner' = owner
           /\ cells' = cells /\ cellOf' = cellOf
BY DEF Receive, BeginDispatch, EndDispatch

(* Disconnecting leaves nothing behind on the server: no queued event, no  *)
(* player, no vehicle and no seat of a connection that has been closed.    *)
THEOREM CleanLeave == Spec => []NothingLeftBehind
<1> DEFINE Kept == /\ MembersLive
                   /\ \A v \in Vehicle : owner[v] # None => owner[v] \in puppets
                   /\ \A p \in Conn : attached[p] # None => p \in puppets
<1>1. Init => Kept
  <2>1. Init => MembersLive
    BY GhostInit DEF GhostInv
  <2> QED
    BY <2>1 DEF Init, ServerInit
<1>2. TypeOK /\ Kept /\ [Next]_vars => Kept'
  <2> SUFFICES ASSUME TypeOK, Kept, [Next]_vars
               PROVE  Kept'
    OBVIOUS
  <2>1. CASE ServerNext /\ UNCHANGED clientVars
    <3>1. MembersLive'
      BY <2>1, ServerMembersLive
    <3>2. ASSUME NEW n \in Conn, Receive(n) \/ BeginDispatch \/ EndDispatch
          PROVE  Kept'
      BY <3>1, <3>2, LoopKeeps
    <3>3. ASSUME NEW n \in Conn, OnDisconnection(n)
          PROVE  Kept'
      <4>1. \A v \in Vehicle : owner'[v] = IF owner[v] = n THEN None ELSE owner[v]
        BY <3>3 DEF OnDisconnection, VehiclesOf
      <4>2. \A p \in Conn : /\ p \in puppets' <=> p \in puppets /\ p # n
                            /\ p # n => attached'[p] = attached[p]
                            /\ p = n /\ n \in puppets => attached'[p] = None
                            /\ n \notin puppets => attached'[p] = attached[p]
        BY <3>3 DEF OnDisconnection, Remove, TypeOK, ServerTypeOK
      <4>3. puppets \subseteq Conn
        BY DEF TypeOK, ServerTypeOK
      <4> QED
        BY <3>1, <4>1, <4>2, <4>3
    <3>4. ASSUME NEW e, ServerHandle(e)
          PROVE  Kept'
      BY <3>1, <3>4, HandlerKeeps
    <3>5. ServerNext =>
             \/ \E n \in Conn : Receive(n) \/ OnDisconnection(n)
             \/ BeginDispatch \/ EndDispatch
             \/ \E e : ServerHandle(e)
      BY DEF ServerNext
    <3>6. CASE BeginDispatch \/ EndDispatch
      BY <3>1, <3>6 DEF BeginDispatch, EndDispatch
    <3> QED
      BY <2>1, <3>2, <3>3, <3>4, <3>5, <3>6
  <2>2. CASE ClientNext /\ UNCHANGED serverVars
    <3>1. Live \subseteq Live'
      BY <2>2 DEF ClientNext, ClientHandle, OnWorldAttached, OnAfterWorldDetach,
                  Connect, OnDisconnected, OnConsume, BeginUpdate, EndUpdate,
                  HandleAuthResponse, HandleCharacterLoad, HandleEntityUnload,
                  HandleSpawnCharacterResponse, HandleVehicleLoad,
                  HandleMounting, Dispatch, OnVehicleEnter, OnVehicleExit, Ask,
                  wireVars, Live
    <3> QED
      BY <2>2, <3>1 DEF serverVars, MembersLive
  <2>3. CASE UNCHANGED vars
    BY <2>3 DEF vars, wireVars, serverVars, MembersLive, Live
  <2> QED
    BY <2>1, <2>2, <2>3 DEF Next
<1>3. Kept => NothingLeftBehind
  BY DEF MembersLive, NothingLeftBehind
<1> QED
  BY <1>1, <1>2, <1>3, TypeCorrect, PTL DEF Spec

(* Only a request of its own player, or the loss of that player, changes   *)
(* the seat of a puppet, whatever ids the clients put into their requests. *)
THEOREM OwnSeat == Spec => SeatedByOwnPlayer
<1> DEFINE Seat ==
      \A p \in Conn : attached'[p] # attached[p] =>
         \/ p \in dropped' \ dropped
         \/ \E t \in {"enter", "exit"} :
              /\ inbox[t] # <<>>
              /\ Head(inbox[t]).conn = p
              /\ inbox'[t] = Tail(inbox[t])
<1>1. TypeOK /\ [Next]_vars => [Seat]_vars
  <2> SUFFICES ASSUME TypeOK, Next
               PROVE  Seat
    OBVIOUS
  <2>1. ASSUME NEW n \in Conn, OnDisconnection(n)
        PROVE  Seat
    <3>1. n \in dropped' \ dropped
      BY <2>1 DEF OnDisconnection, Live
    <3>2. \A p \in Conn : attached'[p] # attached[p] => p = n
      BY <2>1 DEF OnDisconnection, Remove, TypeOK, ServerTypeOK
    <3> QED
      BY <3>1, <3>2
  <2>2. ASSUME NEW e, ServerHandle(e)
        PROVE  Seat
    <3>1. \A p \in Conn : attached'[p] # attached[p] =>
             p = e.conn /\ \E t \in {"enter", "exit"} : Publish(t, e)
      BY <2>2, HandlerKeeps
    <3>2. \A t \in {"enter", "exit"} : Publish(t, e) =>
             /\ inbox[t] # <<>> /\ Head(inbox[t]).conn = e.conn
             /\ inbox'[t] = Tail(inbox[t])
      BY DEF Publish, TypeOK, ServerTypeOK, UpType
    <3> QED
      BY <3>1, <3>2
  <2>3. CASE ServerNext
    BY <2>1, <2>2, <2>3 DEF ServerNext, Receive, BeginDispatch, EndDispatch
  <2>4. CASE UNCHANGED serverVars
    BY <2>4 DEF serverVars
  <2> QED
    BY <2>3, <2>4 DEF Next
<1> QED
  BY <1>1, TypeCorrect, PTL DEF Spec, SeatedByOwnPlayer

(* The level holds the cell of every puppet, although the count that        *)
(* decides about erasing a cell may be that of another one.                *)
THEOREM CellsKept == Spec => []CellsHeld
<1>1. Init => CellsHeld
  BY DEF Init, ServerInit, CellsHeld
<1>2. TypeOK /\ CellsHeld /\ [Next]_vars => CellsHeld'
  <2> SUFFICES ASSUME TypeOK, CellsHeld, [Next]_vars
               PROVE  CellsHeld'
    OBVIOUS
  <2>1. ASSUME NEW n \in Conn, OnDisconnection(n)
        PROVE  CellsHeld'
    <3>1. CASE n \in puppets
      <4>1. /\ puppets' = puppets \ {n} /\ cellOf' = [cellOf EXCEPT ![n] = None]
            /\ cells \ EmptiedBy(n) \subseteq cells'
        BY <2>1, <3>1 DEF OnDisconnection, Remove
      <4>2. \A p \in puppets \ {n} : cellOf[p] \notin EmptiedBy(n)
        BY DEF EmptiedBy
      <4> QED
        BY <4>1, <4>2 DEF CellsHeld, TypeOK, ServerTypeOK
    <3>2. CASE n \notin puppets
      BY <2>1, <3>2 DEF OnDisconnection, CellsHeld
    <3> QED
      BY <3>1, <3>2
  <2>2. ASSUME NEW e, HandleSpawnCharacterRequest(e)
        PROVE  CellsHeld'
    BY <2>2 DEF HandleSpawnCharacterRequest, CellsHeld, TypeOK, ServerTypeOK
  <2>3. CASE UNCHANGED <<puppets, cells, cellOf>>
    BY <2>3 DEF CellsHeld
  <2>4. CASE ServerNext
    BY <2>1, <2>2, <2>3, <2>4
       DEF ServerNext, Receive, BeginDispatch, EndDispatch, ServerHandle,
           EnterKnownVehicle, EnterNewVehicle, RefuseEnter,
           HandleExitVehicleRequest, HandleAuthentication
  <2>5. CASE UNCHANGED serverVars
    BY <2>3, <2>5 DEF serverVars
  <2> QED
    BY <2>4, <2>5 DEF Next, vars
<1> QED
  BY <1>1, <1>2, TypeCorrect, PTL DEF Spec
=============================================================================
