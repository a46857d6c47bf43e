----------------------------- MODULE SharedWorld -----------------------------
(***************************************************************************)
(* The server's level and the worlds of its clients, joined by the         *)
(* channels: who is on the server, and whom each player sees.              *)
(***************************************************************************)
EXTENDS ServerLevel, ClientWorld

vars == <<wireVars, serverVars, clientVars>>

Init == WireInit /\ ServerInit /\ ClientInit

Next == \/ ServerNext /\ UNCHANGED clientVars
        \/ ClientNext /\ UNCHANGED serverVars

Spec == Init /\ [][Next]_vars

(* The server loop and the clients' frame loops keep turning, and the      *)
(* transport delivers what it has accepted.  The spawn waits for the       *)
(* player's customization no longer than its deadline while a world is     *)
(* attached.  Nothing makes a player connect, leave or drive.              *)
ServerFairness ==
    /\ \A n \in Conn : SF_vars(Receive(n) /\ UNCHANGED clientVars)
    /\ WF_vars(BeginDispatch /\ UNCHANGED clientVars)
    /\ WF_vars(EndDispatch /\ UNCHANGED clientVars)
    /\ \A t \in UpType :
         WF_vars(/\ inbox[t] # <<>>
                 /\ ServerHandle(Head(inbox[t]))
                 /\ UNCHANGED clientVars)

SpawnSent(n) == EndUpdate(n) /\ up' # up

ClientFairness ==
    \A n \in Conn :
        /\ SF_vars(OnConsume(n) /\ UNCHANGED serverVars)
        /\ WF_vars(BeginUpdate(n) /\ UNCHANGED serverVars)
        /\ WF_vars(ClientHandle(n) /\ UNCHANGED serverVars)
        /\ WF_vars(EndUpdate(n) /\ UNCHANGED serverVars)
        /\ SF_vars(SpawnSent(n) /\ UNCHANGED serverVars)

FairSpec == Spec /\ ServerFairness /\ ClientFairness

-----------------------------------------------------------------------------
(* The state is what the comments at the variables say it is.              *)
TypeOK == WireTypeOK /\ ServerTypeOK /\ ClientTypeOK

(* Message m of the server has been sent on n and not been handled.        *)
OnWire(n, m) == m \in Range(down[n])
Queued(n, m) == m \in Range(pool[n][m.type])
OnWay(n, m)  == OnWire(n, m) \/ Queued(n, m)

(* A puppet on a player's screen is on the server, or news of its removal  *)
(* is on the way, or the server has dropped that player: nobody is left    *)
(* with the ghost of someone who has gone (Level::Remove against the       *)
(* client's DeSpawn, across the reordering of both dispatchers).           *)
NoGhostPuppet ==
    \A n, p \in Conn :
        view[n][p] = "shown" /\ n \notin dropped
            => p \in puppets \/ OnWay(n, Unload(p))

(* Two players in the level see each other, or the news that one has       *)
(* spawned is on the way, or it came while no world was attached.  The     *)
(* two halves of Level::AddPlayer, the announcement and the snapshot,      *)
(* leave no gap between them.                                              *)
NoMissingPuppet ==
    \A n, p \in puppets :
        n # p /\ Open(n)
            => view[n][p] \in {"shown", "skipped"} \/ OnWay(n, Load(p))

(* No announcement is on the way of a puppet the player has, nor a second  *)
(* one (Spawn would create a second game entity and forget the first).     *)
AnnouncedOnce ==
    \A n, p \in Conn :
        OnWay(n, Load(p))
            => /\ view[n][p] = "unseen"
               /\ Cardinality({i \in DOMAIN down[n] : down[n][i] = Load(p)})
                  + Cardinality({i \in DOMAIN pool[n]["load"] :
                                   pool[n]["load"][i] = Load(p)}) = 1

(* NetworkService.cpp:112-115: the server ingests one spawn request of a   *)
(* session, and it is there only after the player was created: a second    *)
(* one would orphan the puppet, one that is early would find no player.    *)
RequestedOnce ==
    /\ \A i \in DOMAIN inbox["spawn"] :
         inbox["spawn"][i].conn \in players \ puppets
    /\ \A i, j \in DOMAIN inbox["spawn"] :
         inbox["spawn"][i].conn = inbox["spawn"][j].conn => i = j

(* A player of a session spawns once: the server handles one request of    *)
(* it, and each screen is told of it at most once (the deferred spawn of   *)
(* NetworkService.cpp:127 and both loops of Level::AddPlayer).             *)
SpawnedOnce == RequestedOnce /\ AnnouncedOnce

(* Whatever is in the dispatcher's queues comes from a connection the      *)
(* server has not closed, and puppets, vehicles and seats belong to        *)
(* players who are online: disconnecting leaves nothing behind.            *)
NothingLeftBehind ==
    /\ \A t \in UpType : \A i \in DOMAIN inbox[t] : inbox[t][i].conn \in Live
    /\ players \subseteq Live
    /\ \A v \in Vehicle : owner[v] # None => owner[v] \in puppets
    /\ \A p \in Conn : attached[p] # None => p \in puppets

(* A puppet's cell is one the level holds (a cell is erased through a      *)
(* count that may be that of another cell).                                *)
CellsHeld == \A p \in puppets : cellOf[p] \in cells

(* A puppet is seated, moved to another seat or unseated only when the     *)
(* server handles a request of its own player or loses that player, even   *)
(* though requests may carry the id of an earlier session or no id at all. *)
SeatedByOwnPlayer ==
    [][\A p \in Conn : attached'[p] # attached[p] =>
         \/ p \in dropped' \ dropped
         \/ \E t \in {"enter", "exit"} :
              /\ inbox[t] # <<>>
              /\ Head(inbox[t]).conn = p
              /\ inbox'[t] = Tail(inbox[t])]_vars

(* A vehicle request of connection n that the server has not handled.      *)
Riding(n) == \/ \E i \in DOMAIN up[n] : up[n][i].type \in {"enter", "exit"}
             \/ \E t \in {"enter", "exit"} :
                  \E i \in DOMAIN inbox[t] : inbox[t][i].conn = n

(* A player who has got out of the vehicle does not go on riding in it for *)
(* the others: once the server has handled what the player sent, a puppet  *)
(* with a seat is the puppet of a seated player, in whatever order one     *)
(* tick publishes an enter and the exit that followed it.                  *)
NoGhostRider ==
    \A n \in Conn : attached[n] # None /\ Open(n) /\ ~Riding(n)
                      => n \in mounted

-----------------------------------------------------------------------------
(* The shared world implements the roster: every step of a dispatcher, a   *)
(* channel or a handler is one step of who sees whom, or none.             *)
Screens == INSTANCE Roster WITH Player   <- Conn,
                                online   <- puppets,
                                left     <- dropped,
                                watching <- {n \in Conn : Open(n)},
                                seen     <- view

ImplementsRoster == Screens!RosterSpec

-----------------------------------------------------------------------------
(* Two players who connect, and stay with their worlds attached, are        *)
(* spawned and come to see each other.                                     *)
PlayersMeet ==
    \A n, p \in Conn :
        n # p => (Open(n) /\ Open(p) /\ {n, p} \cap dropped = {})
                 ~> \/ view[n][p] \in {"shown", "skipped"}
                    \/ {n, p} \cap dropped # {} \/ ~Open(n) \/ ~Open(p)
                    \/ \E c \in Client : holder[n] = c /\ c \notin ready
                    \/ \E c \in Client : holder[p] = c /\ c \notin ready

(* The puppet of a player who has gone disappears from everyone's screen.  *)
GhostsFade ==
    \A n, p \in Conn :
        (view[n][p] = "shown" /\ p \in dropped)
            ~> (view[n][p] # "shown" \/ n \in dropped)
=============================================================================
