----------------------------- MODULE ServerLevel -----------------------------
(***************************************************************************)
(* The server's world: GameServer, PlayerManager, Level and the observers  *)
(* of AttachmentComponent and VehicleComponent (code/server/native).       *)
(*                                                                         *)
(* One iteration of Server::Update runs the connection callbacks, reads    *)
(* what has arrived and then dispatches it.  A message that is read is     *)
(* only enqueued in the entt dispatcher; update() publishes the queues one *)
(* message type after the other, in the order in which the handlers were   *)
(* registered, not in the order of arrival.                                *)
(***************************************************************************)
EXTENDS Wire, Functions

CONSTANT Cell  \* grid cells of the level

ASSUME CellAssumption == None \notin Cell

VARIABLES
    phase,     \* where the server is in Server::Update
    inbox,     \* inbox[t]: the dispatcher's queue of events of type t
    players,   \* connections in PlayerManager::m_players
    puppets,   \* players with a puppet and the LevelSystemTag
    attached,  \* attached[p]: AttachmentComponent::Parent of puppet p
    owner,     \* owner[v]: the player vehicle v is a child of, None if dead
    made,      \* vehicle ids ever created
    cells,     \* keys of Level::m_cells
    cellOf     \* cellOf[p]: CellComponent of puppet p

serverVars == <<phase, inbox, players, puppets, attached, owner, made,
                cells, cellOf>>

UpType == {"spawn", "enter", "exit", "auth"}

Event(t) == [conn : Conn, msg : {m \in UpMsg : m.type = t}]

(* A slip: the exit handler registered before the enter handler.            *)
EarlierExitFirst(t) == CASE t = "spawn" -> {}
                         [] t = "exit"  -> {"spawn"}
                         [] t = "enter" -> {"spawn", "exit"}
                         [] t = "auth"  -> {"spawn", "enter", "exit"}

(* The queues published before that of type t: Level registers its handlers *)
(* in its constructor, GameServer that of the authentication after it.     *)
Earlier(t) == CASE t = "spawn" -> {}
                [] t = "enter" -> {"spawn"}
                [] t = "exit"  -> {"spawn", "enter"}
                [] t = "auth"  -> {"spawn", "enter", "exit"}

ServerTypeOK ==
    /\ phase \in {"callbacks", "receive", "dispatch"}
    /\ DOMAIN inbox = UpType
    /\ \A t \in UpType : inbox[t] \in Seq(Event(t))
    /\ players \subseteq Conn
    /\ puppets \subseteq players
    /\ attached \in [Conn -> Vehicle \cup {None}]
    /\ owner \in [Vehicle -> Conn \cup {None}]
    /\ made \subseteq Vehicle
    /\ cells \subseteq Cell
    /\ cellOf \in [Conn -> Cell \cup {None}]

ServerInit ==
    /\ phase = "callbacks"
    /\ inbox = [t \in UpType |-> <<>>]
    /\ players = {}
    /\ puppets = {}
    /\ attached = [p \in Conn |-> None]
    /\ owner = [v \in Vehicle |-> None]
    /\ made = {}
    /\ cells = {}
    /\ cellOf = [p \in Conn |-> None]

-----------------------------------------------------------------------------
(* Server::Update reads the messages of a connection and enqueues them.    *)
Receive(n) ==
    /\ phase \in {"callbacks", "receive"}
    /\ n \in Live
    /\ up[n] # <<>>
    /\ LET m == Head(up[n])
       IN  inbox' = [inbox EXCEPT
                       ![m.type] = Append(@, [conn |-> n, msg |-> m])]
    /\ up' = [up EXCEPT ![n] = Tail(@)]
    /\ phase' = "receive"
    /\ UNCHANGED <<used, dropped, holder, down, players, puppets, attached,
                   owner, made, cells, cellOf>>

(* GameServer::OnUpdate starts publishing the queues.                      *)
BeginDispatch ==
    /\ phase = "receive"
    /\ phase' = "dispatch"
    /\ UNCHANGED wireVars
    /\ UNCHANGED <<inbox, players, puppets, attached, owner, made, cells,
                   cellOf>>

(* The tick is over once every queue is published.                         *)
EndDispatch ==
    /\ phase = "dispatch"
    /\ \A t \in UpType : inbox[t] = <<>>
    /\ phase' = "callbacks"
    /\ UNCHANGED wireVars
    /\ UNCHANGED <<inbox, players, puppets, attached, owner, made, cells,
                   cellOf>>

(* The dispatcher hands event e of queue t to its handler.                 *)
Publish(t, e) ==
    /\ phase = "dispatch"
    /\ \A u \in Earlier(t) : inbox[u] = <<>>
    /\ inbox[t] # <<>>
    /\ e = Head(inbox[t])
    /\ inbox' = [inbox EXCEPT ![t] = Tail(@)]
    /\ UNCHANGED <<phase, used, dropped, holder, up>>

-----------------------------------------------------------------------------
(* GameServer::HandleAuthentication of a client of the same build (the     *)
(* handshake has turned away the others), with PlayerManager::Create.      *)
HandleAuthentication(e) ==
    /\ Publish("auth", e)
    /\ players' = players \cup {e.conn}
    /\ Post(Broadcast({e.conn}, AuthResponse))
    /\ UNCHANGED <<puppets, attached, owner, made, cells, cellOf>>

(* The orders in which flecs may visit the entities of a set.              *)
Orders(S) == Bijection(1 .. Cardinality(S), S)

(* Slips: the newcomer hears of nobody, or everyone hears of everyone      *)
(* again.                                                                  *)
SpawnNewsNoSnapshot(n, others, order) ==
    [m \in Conn |-> IF m = n THEN <<SpawnResponse(n)>>
                    ELSE IF m \in others THEN <<Load(n)>> ELSE <<>>]

SpawnNewsToAll(n, others, order) ==
    LET snapshot == [i \in DOMAIN order |-> Load(order[i])]
    IN  [m \in Conn |-> IF m = n THEN <<SpawnResponse(n)>> \o snapshot
                        ELSE IF m \in others THEN <<Load(n)>> \o snapshot
                        ELSE <<>>]

(* What a new puppet's spawn sends: the response, the announcement to every *)
(* player already in the level, and to the new player a load for each of    *)
(* their puppets (Level::Add and AddPlayer).                                *)
SpawnNews(n, others, order) ==
    LET snapshot == [i \in DOMAIN order |-> Load(order[i])]
    IN  [m \in Conn |-> IF m = n THEN <<SpawnResponse(n)>> \o snapshot
                        ELSE IF m \in others THEN <<Load(n)>> ELSE <<>>]

(* Level::HandleSpawnCharacterRequest; a request that finds no player is    *)
(* answered with an empty id.                                               *)
HandleSpawnCharacterRequest(e) ==
    LET n == e.conn
    IN  /\ Publish("spawn", e)
        /\ IF n \in players
           THEN /\ puppets' = puppets \cup {n}
                /\ \E k \in Cell : /\ cellOf' = [cellOf EXCEPT ![n] = k]
                                   /\ cells' = cells \cup {k}
                /\ \E order \in Orders(puppets \ {n}) :
                     Post(SpawnNews(n, puppets \ {n}, order))
           ELSE /\ Post(Broadcast({n}, SpawnResponse(None)))
                /\ UNCHANGED <<puppets, cells, cellOf>>
        /\ UNCHANGED <<players, attached, owner, made>>

(* A slip: any living puppet will do.                                      *)
ExistsFor(i, n) == i \in puppets

(* The checks that open every handler naming an entity: puppet i is alive  *)
(* and its parent is the player of connection n.                           *)
OwnedBy(i, n) == i \in puppets /\ i = n

(* Level::HandleEnterVehicleRequest, for a vehicle the client knows from   *)
(* the server.  Setting the AttachmentComponent notifies the others; the   *)
(* driver's seat also brings the vehicle under the driver's player.        *)
EnterKnownVehicle(e) ==
    LET n == e.conn
        v == e.msg.vehicle
    IN  /\ Publish("enter", e)
        /\ OwnedBy(e.msg.id, n)
        /\ v # None
        /\ owner[v] # None
        /\ attached' = [attached EXCEPT ![e.msg.id] = v]
        /\ owner' = IF e.msg.driver THEN [owner EXCEPT ![v] = n] ELSE owner
        /\ Post([m \in Conn |->
                   IF m = n THEN IF e.msg.driver THEN <<VehicleControl(v)>>
                                                 ELSE <<>>
                   ELSE IF m \in players THEN <<VehicleEnter(e.msg.id, v)>>
                   ELSE <<>>])
        /\ UNCHANGED <<players, puppets, made, cells, cellOf>>

(* The same handler for a car of the client's own game: a new vehicle is   *)
(* created under the player and announced before the puppet enters it.     *)
EnterNewVehicle(e) ==
    LET n == e.conn
    IN  /\ Publish("enter", e)
        /\ OwnedBy(e.msg.id, n)
        /\ e.msg.vehicle = None
        /\ \E v \in Vehicle \ made :
             /\ made' = made \cup {v}
             /\ owner' = [owner EXCEPT ![v] = n]
             /\ attached' = [attached EXCEPT ![e.msg.id] = v]
             /\ Post([m \in Conn |->
                        IF m = n THEN IF e.msg.driver
                                      THEN <<VehicleControl(v)>> ELSE <<>>
                        ELSE IF m \in players
                             THEN <<VehicleLoad(v), VehicleEnter(e.msg.id, v)>>
                        ELSE <<>>])
        /\ UNCHANGED <<players, puppets, cells, cellOf>>

(* The early returns of the same handler.                                  *)
RefuseEnter(e) ==
    /\ Publish("enter", e)
    /\ \/ ~OwnedBy(e.msg.id, e.conn)
       \/ e.msg.vehicle # None /\ owner[e.msg.vehicle] = None
    /\ UNCHANGED <<down, players, puppets, attached, owner, made, cells,
                   cellOf>>

(* Level::HandleExitVehicleRequest.  Removing an AttachmentComponent that  *)
(* is not there notifies nobody.                                           *)
HandleExitVehicleRequest(e) ==
    LET i == e.msg.id
    IN  /\ Publish("exit", e)
        /\ IF OwnedBy(i, e.conn) /\ attached[i] # None
           THEN /\ attached' = [attached EXCEPT ![i] = None]
                /\ Post(Broadcast(players \ {e.conn}, VehicleExit(i)))
           ELSE UNCHANGED <<attached, down>>
        /\ UNCHANGED <<players, puppets, owner, made, cells, cellOf>>

(* A slip: the cell is erased without a look at its count.                 *)
CellOfPuppet(n) == {cellOf[n]}

(* The cell that puppet n leaves empty.                                    *)
EmptiedBy(n) == {cellOf[n]} \ {cellOf[p] : p \in puppets \ {n}}

(* A slip: the puppet goes, and only the seat it leaves is announced.      *)
ExitNews(n) == IF attached[n] = None THEN <<>> ELSE <<VehicleExit(n)>>

(* What the other players hear when puppet n is removed: destroying it     *)
(* removes its AttachmentComponent, after the unload is sent.              *)
LeaveNews(n) == IF attached[n] = None THEN <<Unload(n)>>
                                      ELSE <<Unload(n), VehicleExit(n)>>

(* Level::Remove of puppet n: the other players, spawned or not, hear of   *)
(* it.  Its cell is erased when that is empty.  The count is read through  *)
(* a reference into a component that has been removed: it may by then be   *)
(* that of another puppet's cell, and the empty cell stays.                *)
Remove(n) ==
    /\ Post([m \in Conn |-> IF m \in players \ {n} THEN LeaveNews(n)
                                                  ELSE <<>>])
    /\ puppets' = puppets \ {n}
    /\ attached' = [attached EXCEPT ![n] = None]
    /\ cellOf' = [cellOf EXCEPT ![n] = None]
    /\ \/ cells' = cells \ EmptiedBy(n)
       \/ puppets \ {n} # {} /\ cells' = cells

(* A slip: the vehicles are not children of the player.                    *)
NoVehicles(n) == {}

(* The vehicles destroyed with their player.                               *)
VehiclesOf(n) == {v \in Vehicle : owner[v] = n}

(* GameServer::OnDisconnection, from a connection callback: puppet, player *)
(* and the player's vehicles go, the vehicles without a word to anyone.    *)
OnDisconnection(n) ==
    /\ phase = "callbacks"
    /\ n \in Live
    /\ dropped' = dropped \cup {n}
    /\ up' = [up EXCEPT ![n] = <<>>]
    /\ players' = players \ {n}
    /\ IF n \in puppets
       THEN Remove(n)
       ELSE UNCHANGED <<down, puppets, attached, cellOf, cells>>
    /\ owner' = [v \in Vehicle |-> IF v \in VehiclesOf(n) THEN None
                                                         ELSE owner[v]]
    /\ UNCHANGED <<used, holder, phase, inbox, made>>

ServerHandle(e) ==
    \/ HandleSpawnCharacterRequest(e)
    \/ EnterKnownVehicle(e)
    \/ EnterNewVehicle(e)
    \/ RefuseEnter(e)
    \/ HandleExitVehicleRequest(e)
    \/ HandleAuthentication(e)

ServerNext ==
    \/ \E n \in Conn : Receive(n) \/ OnDisconnection(n)
    \/ BeginDispatch
    \/ EndDispatch
    \/ \E t \in UpType : inbox[t] # <<>> /\ ServerHandle(Head(inbox[t]))
=============================================================================
