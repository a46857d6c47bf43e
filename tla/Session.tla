------------------------------- MODULE Session -------------------------------
(***************************************************************************)
(* The connection of a client: Client (code/common/Network), what          *)
(* NetworkService and RpcService keep for a session, and the answers of    *)
(* the servers.                                                            *)
(*                                                                         *)
(* A frame of the game runs Client::Update: the callbacks of the           *)
(* transport, those of libuv, the messages that have arrived, and then the *)
(* dispatcher.  Scripts of the game act between two frames.  A resolution  *)
(* of an address may still run when the next one is begun, and a callback  *)
(* of the transport may be about a connection that was closed since.       *)
(***************************************************************************)
EXTENDS Naturals, Sequences

CONSTANTS
    Attempt,   \* calls of Client::Connect: a resolution, then a connection
    Server,    \* each has an RPC table of its own
    MaxCalls,  \* bound on the RPC calls of one connection
    None

ASSUME SessionAssumption == /\ None \notin Attempt \cup Server
                            /\ MaxCalls \in Nat

VARIABLES
    phase,      \* where Client::Update is; "game" between two frames
    link,       \* m_connection
    handle,     \* m_pHandle
    stage,      \* stage[a]: the resolution, later the connection
    peer,       \* peer[a]: the server attempt a is for
    news,       \* news[a]: callbacks of the transport that are due, "up" first
    synced,     \* m_clock.IsSynchronized()
    online,     \* m_authenticated, and UIMultiplayerConnectedToServer
    clientRpcs, \* the server whose definitions are in m_clientRpcs, or None
    serverRpcs, \* the same of m_serverRpcs
    up, down,   \* up[a], down[a]: messages to and from the server
    inbox,      \* inbox[t]: the queue of type t of the dispatcher
    admitted,   \* connections the server has authorized
    calls       \* calls[a]: RPC calls made on connection a, in both directions

tables == <<clientRpcs, serverRpcs>>
wires  == <<up, down, admitted, calls>>
sessionVars == <<phase, link, handle, stage, peer, news, synced, online, tables,
                 wires, inbox>>

Resolution == {"unused", "running", "cancelled", "failed"}
Connection == {"connecting", "connected", "lost", "closed"}

Queues == {"auth", "definitions", "call"}
Message(t, s) == [type |-> t, from |-> s]
DownMsg == [type : Queues \cup {"time"}, from : Server]
UpMsg == [type : {"handshake", "auth"}] \cup [type : {"call"}, table : Server]

(* Handlers are published in the order in which they were registered.      *)
Before(t) == CASE t = "auth" -> {}
               [] t = "definitions" -> {"auth"}
               [] t = "call" -> {"auth", "definitions"}

SessionTypeOK ==
    /\ phase \in {"game", "callbacks", "lookups", "reading", "dispatching"}
    /\ link \in Attempt \cup {None}
    /\ handle \in Attempt \cup {None}
    /\ stage \in [Attempt -> Resolution \cup Connection]
    /\ link # None => stage[link] \in {"connecting", "connected", "lost"}
    /\ handle # None => stage[handle] \in {"running", "cancelled"}
    /\ peer \in [Attempt -> Server \cup {None}]
    /\ \A a \in Attempt : stage[a] # "unused" => peer[a] # None
    /\ news \in [Attempt -> SUBSET {"up", "down"}]
    /\ synced \in BOOLEAN
    /\ online \in BOOLEAN
    /\ clientRpcs \in Server \cup {None}
    /\ serverRpcs \in Server \cup {None}
    /\ up \in [Attempt -> Seq(UpMsg)]
    /\ down \in [Attempt -> Seq(DownMsg)]
    /\ inbox \in [Queues -> Seq(DownMsg)]
    /\ admitted \subseteq Attempt
    /\ calls \in [Attempt -> 0 .. MaxCalls]

SessionInit ==
    /\ phase = "game"
    /\ link = None
    /\ handle = None
    /\ stage = [a \in Attempt |-> "unused"]
    /\ peer = [a \in Attempt |-> None]
    /\ news = [a \in Attempt |-> {}]
    /\ synced = FALSE
    /\ online = FALSE
    /\ clientRpcs = None
    /\ serverRpcs = None
    /\ up = [a \in Attempt |-> <<>>]
    /\ down = [a \in Attempt |-> <<>>]
    /\ inbox = [t \in Queues |-> <<>>]
    /\ admitted = {}
    /\ calls = [a \in Attempt |-> 0]

-----------------------------------------------------------------------------
(* A slip: the tables of the session stay.                                 *)
OnDisconnectedKeepingTables ==
    /\ online' = FALSE
    /\ UNCHANGED tables

(* NetworkService::OnDisconnected, on every way a session ends.            *)
OnDisconnected ==
    /\ online' = FALSE
    /\ clientRpcs' = None
    /\ serverRpcs' = None

(* A slip: the connection at hand is not closed.                           *)
LinkKept == stage

(* The stages after the connection, if there is one, has been closed.      *)
LinkClosed == IF link = None THEN stage ELSE [stage EXCEPT ![link] = "closed"]

(* A slip: the end of the session is not reported.                         *)
LeavingQuietly == UNCHANGED <<online, tables>>

(* Client::Close reports the end of a connection, if there was one.        *)
Leaving == IF link = None THEN UNCHANGED <<online, tables>> ELSE OnDisconnected

(* uv_cancel fails when the resolution runs already.                       *)
Cancelled(s) ==
    {s} \cup (IF handle = None THEN {} ELSE {[s EXCEPT ![handle] = "cancelled"]})

-----------------------------------------------------------------------------
(* Scripts of the game, between two frames.                                *)

Connect(a, s) ==
    /\ phase = "game"
    /\ stage[a] = "unused"
    /\ \E rest \in Cancelled(LinkClosed) : stage' = [rest EXCEPT ![a] = "running"]
    /\ peer' = [peer EXCEPT ![a] = s]
    /\ handle' = a
    /\ link' = None
    /\ synced' = FALSE
    /\ Leaving
    /\ UNCHANGED <<phase, news, wires, inbox>>

Close ==
    /\ phase = "game"
    /\ stage' \in Cancelled(LinkClosed)
    /\ link' = None
    /\ synced' = FALSE
    /\ Leaving
    /\ UNCHANGED <<phase, handle, peer, news, wires, inbox>>

(* A script calls an RPC of the server.  Without an id nothing is sent.    *)
CallServer ==
    /\ phase = "game"
    /\ serverRpcs # None
    /\ link # None
    /\ calls[link] < MaxCalls
    /\ calls' = [calls EXCEPT ![link] = @ + 1]
    /\ up' = [up EXCEPT ![link] = Append(@, [type |-> "call", table |-> serverRpcs])]
    /\ UNCHANGED <<phase, link, handle, stage, peer, news, synced, online, tables,
                   down, admitted, inbox>>

-----------------------------------------------------------------------------
(* A frame: Client::Update.                                                *)

(* What ends each part: nothing of it is left to do.                       *)
Done == CASE phase = "game"        -> TRUE
          [] phase = "callbacks"   -> \A a \in Attempt : news[a] = {}
          [] phase = "lookups"     -> \A a \in Attempt : stage[a] # "cancelled"
          [] phase = "reading"     -> link # None => down[link] = <<>>
          [] phase = "dispatching" -> \A t \in Queues : inbox[t] = <<>>

Following == CASE phase = "game"        -> "callbacks"
               [] phase = "callbacks"   -> "lookups"
               [] phase = "lookups"     -> "reading"
               [] phase = "reading"     -> "dispatching"
               [] phase = "dispatching" -> "game"

Turn ==
    /\ Done
    /\ phase' = Following
    /\ UNCHANGED <<link, handle, stage, peer, news, synced, online, tables, wires,
                   inbox>>

(* Whichever connection has come up, the handshake goes to m_connection.   *)
OnUp(a) ==
    /\ phase = "callbacks"
    /\ "up" \in news[a]
    /\ news' = [news EXCEPT ![a] = @ \ {"up"}]
    /\ up' = IF link = None THEN up
             ELSE [up EXCEPT ![link] = Append(@, [type |-> "handshake"])]
    /\ UNCHANGED <<phase, link, handle, stage, peer, synced, online, tables, down,
                   admitted, calls, inbox>>

(* Whichever connection is down, m_connection is closed.                   *)
OnDown(a) ==
    /\ phase = "callbacks"
    /\ news[a] = {"down"}
    /\ news' = [news EXCEPT ![a] = {}]
    /\ stage' = LinkClosed
    /\ link' = None
    /\ synced' = FALSE
    /\ OnDisconnected
    /\ UNCHANGED <<phase, handle, peer, wires, inbox>>

(* Whichever resolution has ended, m_pHandle is cleared.                   *)
OnUnresolved(a) ==
    /\ phase = "lookups"
    /\ stage[a] \in {"running", "cancelled"}
    /\ stage' = [stage EXCEPT ![a] = "failed"]
    /\ handle' = None
    /\ OnDisconnected
    /\ UNCHANGED <<phase, link, peer, news, synced, wires, inbox>>

(* Cancelled resolutions come first: libuv ends them at once.              *)
OnResolved(a) ==
    /\ phase = "lookups"
    /\ stage[a] = "running"
    /\ \A b \in Attempt : stage[b] # "cancelled"
    /\ stage' = [LinkClosed EXCEPT ![a] = "connecting"]
    /\ handle' = None
    /\ link' = a
    /\ synced' = FALSE
    /\ Leaving
    /\ UNCHANGED <<phase, peer, news, wires, inbox>>

(* A slip: whether the clock was synchronized is asked too late.           *)
ReadWithoutConnecting ==
    /\ phase = "reading"
    /\ link # None
    /\ down[link] # <<>>
    /\ down' = [down EXCEPT ![link] = Tail(@)]
    /\ LET m == Head(down[link])
       IN \/ /\ m.type = "time"
             /\ synced' = TRUE
             /\ UNCHANGED inbox
          \/ /\ m.type # "time"
             /\ inbox' = [inbox EXCEPT ![m.type] = Append(@, m)]
             /\ UNCHANGED synced
    /\ UNCHANGED <<phase, link, handle, stage, peer, news, online, tables, up,
                   admitted, calls>>

(* The first time the server sends synchronizes the clock, and the client  *)
(* asks to be authenticated; other messages are queued.                    *)
Read ==
    /\ phase = "reading"
    /\ link # None
    /\ down[link] # <<>>
    /\ down' = [down EXCEPT ![link] = Tail(@)]
    /\ LET m == Head(down[link])
       IN \/ /\ m.type = "time"
             /\ synced' = TRUE
             /\ up' = IF synced THEN up
                      ELSE [up EXCEPT ![link] = Append(@, [type |-> "auth"])]
             /\ UNCHANGED inbox
          \/ /\ m.type # "time"
             /\ inbox' = [inbox EXCEPT ![m.type] = Append(@, m)]
             /\ UNCHANGED <<synced, up>>
    /\ UNCHANGED <<phase, link, handle, stage, peer, news, online, tables, admitted,
                   calls>>

Publish(t) ==
    /\ phase = "dispatching"
    /\ inbox[t] # <<>>
    /\ \A u \in Before(t) : inbox[u] = <<>>
    /\ inbox' = [inbox EXCEPT ![t] = Tail(@)]
    /\ UNCHANGED <<phase, link, handle, stage, peer, news, synced, wires>>

HandleAuthentication ==
    /\ Publish("auth")
    /\ online' = TRUE
    /\ UNCHANGED tables

HandleRpcDefinitions ==
    /\ Publish("definitions")
    /\ clientRpcs' = Head(inbox["definitions"]).from
    /\ serverRpcs' = Head(inbox["definitions"]).from
    /\ UNCHANGED online

HandleRpc ==
    /\ Publish("call")
    /\ UNCHANGED <<online, tables>>

-----------------------------------------------------------------------------
(* The transport and the servers.                                          *)

Reach(a) ==
    /\ stage[a] = "connecting"
    /\ stage' = [stage EXCEPT ![a] = "connected"]
    /\ news' = [news EXCEPT ![a] = @ \cup {"up"}]
    /\ UNCHANGED <<phase, link, handle, peer, synced, online, tables, wires, inbox>>

(* A timeout, a kick, or the end of the server.                            *)
Lose(a) ==
    /\ stage[a] \in {"connecting", "connected"}
    /\ stage' = [stage EXCEPT ![a] = "lost"]
    /\ news' = [news EXCEPT ![a] = @ \cup {"down"}]
    /\ UNCHANGED <<phase, link, handle, peer, synced, online, tables, wires, inbox>>

(* What the server sends after a message of type t.                        *)
Answer(t, s) == CASE t = "handshake" -> <<Message("time", s)>>
                  [] t = "auth" -> <<Message("definitions", s), Message("auth", s)>>
                  [] t = "call" -> <<>>

Serve(a) ==
    /\ stage[a] = "connected"
    /\ up[a] # <<>>
    /\ up' = [up EXCEPT ![a] = Tail(@)]
    /\ down' = [down EXCEPT ![a] = @ \o Answer(Head(up[a]).type, peer[a])]
    /\ admitted' = IF Head(up[a]).type = "auth" THEN admitted \cup {a} ELSE admitted
    /\ UNCHANGED <<phase, link, handle, stage, peer, news, synced, online, tables,
                   calls, inbox>>

CallClient(a) ==
    /\ stage[a] = "connected"
    /\ a \in admitted
    /\ calls[a] < MaxCalls
    /\ calls' = [calls EXCEPT ![a] = @ + 1]
    /\ down' = [down EXCEPT ![a] = Append(@, Message("call", peer[a]))]
    /\ UNCHANGED <<phase, link, handle, stage, peer, news, synced, online, tables,
                   up, admitted, inbox>>

-----------------------------------------------------------------------------
Frame == \/ Turn
         \/ \E a \in Attempt : OnUp(a) \/ OnDown(a) \/ OnUnresolved(a) \/ OnResolved(a)
         \/ Read
         \/ HandleAuthentication
         \/ HandleRpcDefinitions
         \/ HandleRpc

World == \E a \in Attempt : Reach(a) \/ Lose(a) \/ Serve(a) \/ CallClient(a)

-----------------------------------------------------------------------------
(* No connection outlives m_connection, and m_pHandle is never that of a   *)
(* resolution that has ended: however attempts overlap and whichever       *)
(* callback comes late, the client never holds two connections or one it   *)
(* has forgotten, which would keep a second player of it in the world.     *)
(* (Client::Connect, Close, OnSteamNetConnectionStatusChanged.)            *)
OneConnection ==
    /\ \A a \in Attempt : stage[a] \in {"connecting", "connected", "lost"} => a = link
    /\ handle # None => stage[handle] \in {"running", "cancelled"}

(* "Clear per-session RPC tables so a fast reconnect never dispatches a    *)
(* call against a stale/mismatched definition table from the previous      *)
(* session" (RpcService.cpp:43-44): the tables and the messages that wait  *)
(* for the dispatcher are of the server at the other end of m_connection.  *)
NoStaleTable ==
    /\ clientRpcs # None => link # None /\ clientRpcs = peer[link]
    /\ \A t \in Queues : inbox[t] # <<>> =>
           /\ link # None
           /\ \A i \in DOMAIN inbox[t] : inbox[t][i].from = peer[link]

(* "definitions are applied before any calls that arrive in the same       *)
(* Client::Update() tick" (RpcService.cpp:31): a call that is about to be  *)
(* dispatched finds the definitions of its server.  Only a resolution that *)
(* failed beside the connection may have cleared them.                     *)
CallsFindTable ==
    (phase = "dispatching" /\ inbox["call"] # <<>>
        /\ \A t \in Before("call") : inbox[t] = <<>>)
    => \/ clientRpcs = Head(inbox["call"]).from
       \/ \E a \in Attempt : stage[a] = "failed"

(* A call is dispatched against the table of its own session: never that   *)
(* of an earlier one, and never before the table has come.                 *)
TablesAreCurrent == NoStaleTable /\ CallsFindTable

(* "LEAVE SESSION" is offered only while there is a session to leave: who  *)
(* is shown as connected has a synchronized connection that the server has *)
(* authorized.  (UIMultiplayerConnectedToServer, m_authenticated.)         *)
OnlineIsAdmitted == online => link # None /\ synced /\ link \in admitted
=============================================================================
