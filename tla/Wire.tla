-------------------------------- MODULE Wire --------------------------------
(***************************************************************************)
(* The messages of code/protocol/{client,server}.proto that replicate      *)
(* characters and vehicles, and the reliable ordered channels that carry   *)
(* them (GameNetworkingSockets, k_nSteamNetworkingSend_Reliable).          *)
(*                                                                         *)
(* A connection handle is never reused.  A connection spawns at most one   *)
(* puppet, so the handle also names the puppet (and its player entity): the *)
(* flecs id with its generation is as fresh as the handle.  The handshake  *)
(* that precedes the first message is the business of the transport.       *)
(***************************************************************************)
EXTENDS Naturals, Sequences, FiniteSets

CONSTANTS
    Client,   \* the game processes of the players
    Conn,     \* connection handles, each used for one session
    Vehicle,  \* flecs ids of server vehicles
    None      \* no client, no vehicle, no id

ASSUME NoneAssumption == None \notin Client \cup Conn \cup Vehicle
ASSUME ConnAssumption == IsFiniteSet(Conn)

VARIABLES
    used,     \* handles a client has connected with
    dropped,  \* handles whose end the server has closed
    holder,   \* holder[n]: the client whose m_connection is n, else None
    up,       \* up[n]: sent by the client of n, not yet read by the server
    down      \* down[n]: sent by the server on n, not yet read by the client

wireVars == <<used, dropped, holder, up, down>>

-----------------------------------------------------------------------------
(* Client to server.                                                       *)
AuthRequest        == [type |-> "auth"]
SpawnRequest       == [type |-> "spawn"]
EnterRequest(i, v, d) ==
    [type |-> "enter", id |-> i, vehicle |-> v, driver |-> d]
ExitRequest(i)     == [type |-> "exit", id |-> i]

UpMsg == [type : {"auth", "spawn"}]
         \cup [type : {"enter"}, id : Conn \cup {None},
               vehicle : Vehicle \cup {None}, driver : BOOLEAN]
         \cup [type : {"exit"}, id : Conn \cup {None}]

(* Server to client.                                                       *)
AuthResponse       == [type |-> "auth"]
Load(p)            == [type |-> "load", id |-> p]
Unload(p)          == [type |-> "unload", id |-> p]
SpawnResponse(p)   == [type |-> "spawned", id |-> p]
VehicleLoad(v)     == [type |-> "vload", vehicle |-> v]
VehicleEnter(p, v) == [type |-> "venter", id |-> p, vehicle |-> v]
VehicleExit(p)     == [type |-> "vexit", id |-> p]
VehicleControl(v)  == [type |-> "vcontrol", vehicle |-> v]

DownMsg == [type : {"auth"}]
           \cup [type : {"load", "unload", "vexit"}, id : Conn]
           \cup [type : {"spawned"}, id : Conn \cup {None}]
           \cup [type : {"vload", "vcontrol"}, vehicle : Vehicle]
           \cup [type : {"venter"}, id : Conn, vehicle : Vehicle]

-----------------------------------------------------------------------------
WireTypeOK ==
    /\ used \subseteq Conn
    /\ dropped \subseteq used
    /\ holder \in [Conn -> Client \cup {None}]
    /\ up \in [Conn -> Seq(UpMsg)]
    /\ down \in [Conn -> Seq(DownMsg)]

WireInit ==
    /\ used = {}
    /\ dropped = {}
    /\ holder = [n \in Conn |-> None]
    /\ up = [n \in Conn |-> <<>>]
    /\ down = [n \in Conn |-> <<>>]

(* The connections the server has not closed.                              *)
Live == used \ dropped

(* GameServer::Send on every connection n, in order, of the messages box[n]. *)
(* What is sent to a client that has closed its end is lost.                *)
Post(box) ==
    down' = [n \in Conn |-> IF holder[n] = None THEN down[n]
                                                ELSE down[n] \o box[n]]

(* One message for every connection of a set.                              *)
Broadcast(to, m) == [n \in Conn |-> IF n \in to THEN <<m>> ELSE <<>>]
=============================================================================
