------------------------------ MODULE Transport ------------------------------
(***************************************************************************)
(* The connections of the server: Server of code/common/Network.  A        *)
(* connection is queued when the transport announces it, becomes a         *)
(* connection of the server with its handshake, and is forgotten when it   *)
(* ends.  Server::Update runs the callbacks and reads what has arrived.    *)
(***************************************************************************)
EXTENDS Naturals

CONSTANTS
    Conn,
    Foreign,    \* connections of clients of another build
    MaxShakes   \* bound on the handshakes a client sends on one connection

ASSUME TransportAssumption == Foreign \subseteq Conn /\ MaxShakes \in Nat \ {0}

VARIABLES
    phase,      \* where Server::Update is; "stopped" once the process has died
    link,       \* link[c]: connection c as the transport has it
    news,       \* news[c]: callbacks that are due, "new" before "gone"
    was,        \* was[c]: m_eOldState of the callback that tells of the end
    shakes,     \* shakes[c]: handshakes the client has sent
    unread,     \* unread[c]: those of them that have arrived and are not read
    queue,      \* m_queuedConnections
    served,     \* served[c]: how often c is in m_connections
    undefined   \* whether an erase of the queue has missed

transportVars == <<phase, link, news, was, shakes, unread, queue, served, undefined>>

Count == [Conn -> 0 .. MaxShakes]

TransportTypeOK ==
    /\ phase \in {"callbacks", "reading", "stopped"}
    /\ link \in [Conn -> {"unused", "connecting", "connected", "lost", "closed"}]
    /\ news \in [Conn -> SUBSET {"new", "gone"}]
    /\ was \in [Conn -> {"none", "connecting", "connected"}]
    /\ shakes \in Count
    /\ unread \in Count
    /\ queue \subseteq Conn
    /\ served \in Count
    /\ undefined \in BOOLEAN

TransportInit ==
    /\ phase = "callbacks"
    /\ link = [c \in Conn |-> "unused"]
    /\ news = [c \in Conn |-> {}]
    /\ was = [c \in Conn |-> "none"]
    /\ shakes = [c \in Conn |-> 0]
    /\ unread = [c \in Conn |-> 0]
    /\ queue = {}
    /\ served = [c \in Conn |-> 0]
    /\ undefined = FALSE

-----------------------------------------------------------------------------
(* The transport, and clients.                                              *)

Arrive(c) ==
    /\ link[c] = "unused"
    /\ link' = [link EXCEPT ![c] = "connecting"]
    /\ news' = [news EXCEPT ![c] = {"new"}]
    /\ UNCHANGED <<phase, was, shakes, unread, queue, served, undefined>>

(* A client sends its handshake when a connection of its comes up; one that *)
(* has begun two attempts may send both on the second (Session, OnUp).      *)
SendHandshake(c) ==
    /\ link[c] = "connected"
    /\ shakes[c] < MaxShakes
    /\ shakes' = [shakes EXCEPT ![c] = @ + 1]
    /\ unread' = [unread EXCEPT ![c] = @ + 1]
    /\ UNCHANGED <<phase, link, news, was, queue, served, undefined>>

Lose(c) ==
    /\ link[c] \in {"connecting", "connected"}
    /\ was' = [was EXCEPT ![c] = link[c]]
    /\ link' = [link EXCEPT ![c] = "lost"]
    /\ news' = [news EXCEPT ![c] = @ \cup {"gone"}]
    /\ UNCHANGED <<phase, shakes, unread, queue, served, undefined>>

-----------------------------------------------------------------------------
(* CloseConnection: what has not been read is dropped.                      *)
CloseConnection(c) ==
    /\ link' = [link EXCEPT ![c] = "closed"]
    /\ unread' = [unread EXCEPT ![c] = 0]

(* m_connections without the first entry of c.                              *)
Removed(c) == [served EXCEPT ![c] = IF @ = 0 THEN 0 ELSE @ - 1]

(* A slip: the connection is accepted and not queued.                       *)
OnConnectingUnqueued(c) ==
    /\ phase = "callbacks"
    /\ "new" \in news[c]
    /\ news' = [news EXCEPT ![c] = @ \ {"new"}]
    /\ \/ /\ link[c] = "connecting"
          /\ link' = [link EXCEPT ![c] = "connected"]
          /\ UNCHANGED unread
       \/ /\ link[c] # "connecting"
          /\ CloseConnection(c)
    /\ UNCHANGED <<phase, was, shakes, queue, served, undefined>>

(* AcceptConnection connects, and refuses a connection that has ended       *)
(* already.  A queue that was erased beyond its end may lose the entry.     *)
OnConnecting(c) ==
    /\ phase = "callbacks"
    /\ "new" \in news[c]
    /\ news' = [news EXCEPT ![c] = @ \ {"new"}]
    /\ \/ /\ link[c] = "connecting"
          /\ link' = [link EXCEPT ![c] = "connected"]
          /\ queue' \in {queue \cup {c}} \cup (IF undefined THEN {queue} ELSE {})
          /\ UNCHANGED unread
       \/ /\ link[c] # "connecting"
          /\ CloseConnection(c)
          /\ UNCHANGED queue
    /\ UNCHANGED <<phase, was, shakes, served, undefined>>

(* A slip: the old state is compared with the one before.                   *)
WasConnecting(c) == was[c] = "connecting"
WasConnected(c) == was[c] = "connected"

OnGone(c) ==
    /\ phase = "callbacks"
    /\ news[c] = {"gone"}
    /\ news' = [news EXCEPT ![c] = {}]
    /\ queue' = IF WasConnected(c) THEN queue \ {c} ELSE queue
    /\ served' = IF WasConnected(c) THEN Removed(c) ELSE served
    /\ CloseConnection(c)
    /\ UNCHANGED <<phase, was, shakes, undefined>>

EndCallbacks ==
    /\ phase = "callbacks"
    /\ \A c \in Conn : news[c] = {}
    /\ phase' = "reading"
    /\ UNCHANGED <<link, news, was, shakes, unread, queue, served, undefined>>

(* m_queuedConnections.erase(find(c)).  If c is not there that erases the   *)
(* end of the vector: entries fall off it, or the process stops.            *)
Dequeue(c) ==
    /\ phase = "reading"
    /\ unread[c] > 0
    /\ \/ /\ c \in queue
          /\ queue' = queue \ {c}
          /\ UNCHANGED undefined
       \/ /\ c \notin queue
          /\ queue' \in SUBSET queue
          /\ undefined' = TRUE

HandleHandshake(c) ==
    /\ c \notin Foreign
    /\ Dequeue(c)
    /\ unread' = [unread EXCEPT ![c] = @ - 1]
    /\ served' = [served EXCEPT ![c] = @ + 1]
    /\ UNCHANGED <<phase, link, news, was, shakes>>

(* Identifiers of another build: Kick.                                      *)
RefuseHandshake(c) ==
    /\ c \in Foreign
    /\ Dequeue(c)
    /\ CloseConnection(c)
    /\ served' = Removed(c)
    /\ UNCHANGED <<phase, news, was, shakes>>

EraseStops(c) ==
    /\ Dequeue(c)
    /\ c \notin queue
    /\ phase' = "stopped"
    /\ UNCHANGED <<link, news, was, shakes, unread, served>>

(* The rest of Server::Update.                                              *)
EndUpdate ==
    /\ phase = "reading"
    /\ \A c \in Conn : unread[c] = 0
    /\ phase' = "callbacks"
    /\ UNCHANGED <<link, news, was, shakes, unread, queue, served, undefined>>

-----------------------------------------------------------------------------
StatusChanged(c) == OnConnecting(c) \/ OnGone(c)
Handle(c) == HandleHandshake(c) \/ RefuseHandshake(c) \/ EraseStops(c)

(* A step of Server::Update, which GameServer::Run calls again and again.   *)
ServerUpdate ==
    \/ \E c \in Conn : StatusChanged(c) \/ Handle(c)
    \/ EndCallbacks
    \/ EndUpdate

TransportNext ==
    \/ \E c \in Conn : Arrive(c) \/ SendHandshake(c) \/ Lose(c)
    \/ ServerUpdate

TransportSpec == TransportInit /\ [][TransportNext]_transportVars

-----------------------------------------------------------------------------
(* HandleHandshake erases the connection from the queue without a look      *)
(* whether it is there, which is undefined if it is not.  However           *)
(* connections come, end and are refused around it, the erase misses only   *)
(* after some client has sent a second handshake; then it does, and it may  *)
(* take the entries of others with it.  (Server.cpp:280.)                   *)
HandshakeFindsQueue == undefined => \E c \in Conn : shakes[c] > 1

(* A connection the server serves, one to which it still sends, has ended   *)
(* only if the callback that makes the server forget it is due: also that   *)
(* of a client whose neighbour's second handshake has damaged the queue.    *)
(* Only who sent the second one is there twice, and once after the end.     *)
(* (Remove, IsAlive, OnSteamNetConnectionStatusChanged.)                    *)
ServedIsAlive ==
    \A c \in Conn :
        served[c] > 0 /\ shakes[c] = 1 =>
            \/ link[c] = "connected"
            \/ link[c] = "lost" /\ "gone" \in news[c] /\ was[c] = "connected"

(* A connection that has ended is not among the clients, unless two         *)
(* handshakes have put it there twice.                                      *)
Forgotten(c) == link[c] \in {"lost", "closed"} => served[c] = 0 \/ shakes[c] > 1

(* Who is lost does not stay: whatever ends and whenever, sooner or later a *)
(* server that runs counts no connection that has ended among its clients. *)
LostIsForgotten ==
    (\E c \in Conn : ~Forgotten(c)) ~> (phase = "stopped" \/ \A c \in Conn : Forgotten(c))
=============================================================================
