----------------------------- MODULE ClientWorld -----------------------------
(***************************************************************************)
(* The client's side of the shared world: NetworkService and               *)
(* NetworkWorldSystem (code/client/App), with the requests VehicleSystem   *)
(* sends.  How mounting is shown on the client's screen is not kept here.  *)
(*                                                                         *)
(* State that lives as long as a session is indexed by its connection.     *)
(* view[n][p] is the life of puppet p in the flecs world of the client     *)
(* connected with n: the entity exists exactly while it is "shown";        *)
(* "unseen", "skipped" (announced while no world was attached) and "gone"  *)
(* only remember why it does not.                                          *)
(***************************************************************************)
EXTENDS Wire

CONSTANTS
    Reloaders,   \* clients whose player may load another save at any time
    Unset,       \* what an m_remotePlayerId that is not set may read as
    MaxRequests  \* bound on the vehicle requests of a behaviour

ASSUME ClientAssumption ==
    /\ Reloaders \subseteq Client
    /\ Unset \subseteq Conn \cup {None}
    /\ MaxRequests \in Nat

VARIABLES
    ready,        \* clients whose world is attached (m_ready)
    remoteId,     \* remoteId[c]: m_remotePlayerId, None when not set
    pendingSpawn, \* sessions with m_pendingSpawn
    pool,         \* pool[n][t]: the dispatcher's queue of messages of type t
    dispatching,  \* sessions whose client is inside m_dispatcher.update()
    view,         \* see above
    mounted,      \* sessions whose player got into a vehicle and not out
    cars,         \* cars[n]: server vehicles in the client's flecs world
    asked         \* vehicle requests made so far

clientVars == <<ready, remoteId, pendingSpawn, pool, dispatching, view,
                mounted, cars, asked>>

DownType == {"auth", "load", "unload", "spawned",
             "vload", "venter", "vexit", "vcontrol"}

DownMsgOf(t) == {m \in DownMsg : m.type = t}

Life == {"unseen", "shown", "skipped", "gone"}

(* A slip: the unload handler registered before the load handler.          *)
BeforeUnloadFirst(t) ==
    CASE t = "auth"     -> {}
      [] t = "unload"   -> {"auth"}
      [] t = "load"     -> {"auth", "unload"}
      [] t = "spawned"  -> {"auth", "load", "unload"}
      [] t = "vload"    -> {"auth", "load", "unload", "spawned"}
      [] t = "venter"   -> {"auth", "load", "unload", "spawned", "vload"}
      [] t = "vexit"    -> DownType \ {"vexit", "vcontrol"}
      [] t = "vcontrol" -> DownType \ {"vcontrol"}

(* The queues published before that of type t (entt publishes the queues   *)
(* in the order in which the handlers were first registered).              *)
Before(t) ==
    CASE t = "auth"     -> {}
      [] t = "load"     -> {"auth"}
      [] t = "unload"   -> {"auth", "load"}
      [] t = "spawned"  -> {"auth", "load", "unload"}
      [] t = "vload"    -> {"auth", "load", "unload", "spawned"}
      [] t = "venter"   -> {"auth", "load", "unload", "spawned", "vload"}
      [] t = "vexit"    -> DownType \ {"vexit", "vcontrol"}
      [] t = "vcontrol" -> DownType \ {"vcontrol"}

ClientTypeOK ==
    /\ ready \subseteq Client
    /\ remoteId \in [Client -> Conn \cup {None}]
    /\ pendingSpawn \subseteq Conn
    /\ pool \in [Conn -> [DownType -> Seq(DownMsg)]]
    /\ \A n \in Conn, t \in DownType : pool[n][t] \in Seq(DownMsgOf(t))
    /\ dispatching \subseteq Conn
    /\ view \in [Conn -> [Conn -> Life]]
    /\ mounted \subseteq Conn
    /\ cars \in [Conn -> SUBSET Vehicle]
    /\ asked \in 0 .. MaxRequests

EmptyPool == [t \in DownType |-> <<>>]
EmptyView == [p \in Conn |-> "unseen"]

ClientInit ==
    /\ ready = {}
    /\ remoteId = [c \in Client |-> None]
    /\ pendingSpawn = {}
    /\ pool = [n \in Conn |-> EmptyPool]
    /\ dispatching = {}
    /\ view = [n \in Conn |-> EmptyView]
    /\ mounted = {}
    /\ cars = [n \in Conn |-> {}]
    /\ asked = 0

(* The client of session n is between two calls of Client::Update.         *)
Idle(n) == n \notin dispatching /\ pool[n] = EmptyPool

Offline(c) == \A n \in Conn : holder[n] # c

Open(n) == holder[n] # None

-----------------------------------------------------------------------------
(* NetworkWorldSystem::OnWorldAttached, OnAfterWorldDetach.  The player of  *)
(* the new world stands; no unmounting of the old one is reported.         *)
OnWorldAttached(c) ==
    /\ c \notin ready
    /\ \A n \in Conn : holder[n] = c => Idle(n)
    /\ ready' = ready \cup {c}
    /\ UNCHANGED wireVars
    /\ UNCHANGED <<remoteId, pendingSpawn, pool, dispatching, view, mounted,
                   cars, asked>>

OnAfterWorldDetach(c) ==
    /\ c \in ready \cap Reloaders
    /\ \A n \in Conn : holder[n] = c => Idle(n)
    /\ ready' = ready \ {c}
    /\ remoteId' = [remoteId EXCEPT ![c] = None]
    /\ mounted' = {n \in mounted : holder[n] # c}
    /\ UNCHANGED wireVars
    /\ UNCHANGED <<pendingSpawn, pool, dispatching, view, cars, asked>>

(* The player connects from inside the world; the transport and the clock  *)
(* come up and NetworkService::OnConnected sends the authentication.       *)
Connect(c, n) ==
    /\ c \in ready
    /\ Offline(c)
    /\ n \notin used
    /\ used' = used \cup {n}
    /\ holder' = [holder EXCEPT ![n] = c]
    /\ up' = [up EXCEPT ![n] = <<AuthRequest>>]
    /\ UNCHANGED <<dropped, down>>
    /\ UNCHANGED clientVars

(* A slip: the puppets of the old session stay in the flecs world.         *)
OnDisconnectedKeepingView(n) ==
    /\ Open(n)
    /\ Idle(n)
    /\ holder' = [holder EXCEPT ![n] = None]
    /\ down' = [down EXCEPT ![n] = <<>>]
    /\ pendingSpawn' = pendingSpawn \ {n}
    /\ mounted' = mounted \ {n}
    /\ UNCHANGED <<used, dropped, up>>
    /\ UNCHANGED <<ready, remoteId, pool, dispatching, view, cars, asked>>

(* Client::Close or a lost connection: NetworkService::OnDisconnected and  *)
(* NetworkWorldSystem::OnDisconnected empty the flecs world.  The remote   *)
(* player id is not reset.                                                 *)
OnDisconnected(n) ==
    /\ Open(n)
    /\ Idle(n)
    /\ holder' = [holder EXCEPT ![n] = None]
    /\ down' = [down EXCEPT ![n] = <<>>]
    /\ pendingSpawn' = pendingSpawn \ {n}
    /\ view' = [view EXCEPT ![n] = EmptyView]
    /\ mounted' = mounted \ {n}
    /\ cars' = [cars EXCEPT ![n] = {}]
    /\ UNCHANGED <<used, dropped, up>>
    /\ UNCHANGED <<ready, remoteId, pool, dispatching, asked>>

-----------------------------------------------------------------------------
(* Client::Update reads one message; OnConsume enqueues it.                *)
OnConsume(n) ==
    /\ Open(n)
    /\ n \notin dispatching
    /\ down[n] # <<>>
    /\ LET m == Head(down[n])
       IN  pool' = [pool EXCEPT ![n][m.type] = Append(@, m)]
    /\ down' = [down EXCEPT ![n] = Tail(@)]
    /\ UNCHANGED <<used, dropped, holder, up>>
    /\ UNCHANGED <<ready, remoteId, pendingSpawn, dispatching, view, mounted,
                   cars, asked>>

(* NetworkService::OnUpdate.                                               *)
BeginUpdate(n) ==
    /\ Open(n)
    /\ n \notin dispatching
    /\ pool[n] # EmptyPool \/ n \in pendingSpawn
    /\ dispatching' = dispatching \cup {n}
    /\ UNCHANGED wireVars
    /\ UNCHANGED <<ready, remoteId, pendingSpawn, pool, view, mounted, cars,
                   asked>>

(* TrySendSpawnCharacter needs the local player, hence a world, and the    *)
(* customization state, for which it waits no longer than the deadline.    *)
TrySendSpawnCharacter(n) ==
    /\ holder[n] \in ready
    /\ up' = [up EXCEPT ![n] = Append(@, SpawnRequest)]

EndUpdate(n) ==
    /\ n \in dispatching
    /\ pool[n] = EmptyPool
    /\ dispatching' = dispatching \ {n}
    /\ \/ /\ n \in pendingSpawn
          /\ TrySendSpawnCharacter(n)
          /\ pendingSpawn' = pendingSpawn \ {n}
       \/ UNCHANGED <<up, pendingSpawn>>
    /\ UNCHANGED <<used, dropped, holder, down>>
    /\ UNCHANGED <<ready, remoteId, pool, view, mounted, cars, asked>>

(* update() hands the oldest message of queue t to its handler.            *)
Dispatch(n, t) ==
    /\ n \in dispatching
    /\ \A u \in Before(t) : pool[n][u] = <<>>
    /\ pool[n][t] # <<>>
    /\ pool' = [pool EXCEPT ![n][t] = Tail(@)]
    /\ UNCHANGED <<used, dropped, holder, down, ready, dispatching, mounted,
                   asked>>

(* A slip: the request is tried once, with no deferred retry.              *)
HandleAuthResponseOnce(n) ==
    /\ Dispatch(n, "auth")
    /\ TrySendSpawnCharacter(n) \/ UNCHANGED up
    /\ UNCHANGED <<remoteId, pendingSpawn, view, cars>>

(* NetworkService::HandleAuthentication arms the deferred spawn and tries  *)
(* it at once.                                                             *)
HandleAuthResponse(n) ==
    /\ Dispatch(n, "auth")
    /\ \/ /\ TrySendSpawnCharacter(n)
          /\ pendingSpawn' = pendingSpawn \ {n}
       \/ /\ pendingSpawn' = pendingSpawn \cup {n}
          /\ UNCHANGED up
    /\ UNCHANGED <<remoteId, view, cars>>

(* NetworkWorldSystem::HandleCharacterLoad with Spawn: nothing is created  *)
(* while no world is attached.                                             *)
HandleCharacterLoad(n) ==
    LET p == Head(pool[n]["load"]).id
    IN  /\ Dispatch(n, "load")
        /\ view' = [view EXCEPT ![n][p] =
                      IF holder[n] \in ready THEN "shown"
                      ELSE IF @ = "shown" THEN @ ELSE "skipped"]
        /\ UNCHANGED <<up, remoteId, pendingSpawn, cars>>

(* NetworkWorldSystem::HandleEntityUnload with DeSpawn.                    *)
HandleEntityUnload(n) ==
    LET p == Head(pool[n]["unload"]).id
    IN  /\ Dispatch(n, "unload")
        /\ view' = [view EXCEPT ![n][p] = IF @ = "shown" THEN "gone" ELSE @]
        /\ UNCHANGED <<up, remoteId, pendingSpawn, cars>>

(* NetworkWorldSystem::HandleSpawnCharacterResponse: an answer without an   *)
(* id changes nothing.                                                     *)
HandleSpawnCharacterResponse(n) ==
    LET p == Head(pool[n]["spawned"]).id
    IN  /\ Dispatch(n, "spawned")
        /\ remoteId' = IF p = None THEN remoteId
                       ELSE [remoteId EXCEPT ![holder[n]] = p]
        /\ UNCHANGED <<up, pendingSpawn, view, cars>>

(* VehicleSystem::HandleVehicleLoadMessage adds the vehicle to the flecs   *)
(* world, with or without an attached world.                               *)
HandleVehicleLoad(n) ==
    /\ Dispatch(n, "vload")
    /\ cars' = [cars EXCEPT ![n] = @ \cup {Head(pool[n]["vload"]).vehicle}]
    /\ UNCHANGED <<up, remoteId, pendingSpawn, view>>

(* VehicleSystem's other handlers mount and unmount; they leave this state. *)
HandleMounting(n) ==
    /\ \E t \in {"venter", "vexit", "vcontrol"} : Dispatch(n, t)
    /\ UNCHANGED <<up, remoteId, pendingSpawn, view, cars>>

-----------------------------------------------------------------------------
(* The id a vehicle request carries: *GetRemotePlayerId(), unchecked.  It   *)
(* survives the session that set it; while it is not set, reading it is    *)
(* undefined and may yield the id of anyone's puppet.                      *)
RequestIds(n) == LET id == remoteId[holder[n]]
                 IN  IF id = None THEN Unset ELSE {id}

(* The game reports from a frame, between two calls of Client::Update.     *)
Playing(n) == Open(n) /\ Idle(n) /\ holder[n] \in ready

Ask(n, m) ==
    /\ asked < MaxRequests
    /\ asked' = asked + 1
    /\ up' = [up EXCEPT ![n] = Append(@, m)]
    /\ UNCHANGED <<used, dropped, holder, down>>
    /\ UNCHANGED <<ready, remoteId, pendingSpawn, pool, dispatching, view,
                   cars>>

(* VehicleSystem::OnVehicleEnter and OnVehicleExit, when the player gets    *)
(* into a seat or out: a vehicle found in the flecs world, or else a car   *)
(* of the player's own game.  Without a connection both return at once, so *)
(* the player may get out of a seat taken before the session.              *)
OnVehicleEnter(n) ==
    /\ Playing(n)
    /\ mounted' = mounted \cup {n}
    /\ \E i \in RequestIds(n), v \in cars[n] \cup {None}, driver \in BOOLEAN :
         Ask(n, EnterRequest(i, v, driver))

OnVehicleExit(n) ==
    /\ Playing(n)
    /\ mounted' = mounted \ {n}
    /\ \E i \in RequestIds(n) : Ask(n, ExitRequest(i))

ClientHandle(n) ==
    \/ HandleAuthResponse(n)
    \/ HandleCharacterLoad(n)
    \/ HandleEntityUnload(n)
    \/ HandleSpawnCharacterResponse(n)
    \/ HandleVehicleLoad(n)
    \/ HandleMounting(n)

ClientNext ==
    \/ \E c \in Client : OnWorldAttached(c) \/ OnAfterWorldDetach(c)
    \/ \E c \in Client, n \in Conn : Connect(c, n)
    \/ \E n \in Conn : \/ OnDisconnected(n)
                       \/ OnConsume(n)
                       \/ BeginUpdate(n)
                       \/ EndUpdate(n)
                       \/ ClientHandle(n)
                       \/ OnVehicleEnter(n)
                       \/ OnVehicleExit(n)
=============================================================================
