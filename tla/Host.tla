-------------------------------- MODULE Host --------------------------------
(***************************************************************************)
(* The server process: its loop, the signal that ends it, the order of its *)
(* teardown (code/server/native), and what every turn of the loop does for *)
(* the scripts: timers and the world clock, which is kept in a file        *)
(* (code/server/loader, scripting/JobSystem/WorldClock.cs).                *)
(* Threads that announce the server to the server list run beside it.      *)
(***************************************************************************)
EXTENDS Naturals

CONSTANTS
    Player,     \* players, each with the connection it comes over
    Thread,     \* the detached threads of ServerListSystem::Announce
    Noon,       \* the clock of a fresh world
    Period,     \* the interval of Broadcast
    MaxDelta,   \* the longest time between two turns of the loop
    MaxTotal,   \* bound on the clock
    MaxBoots    \* bound on the times the server is started

ASSUME HostAssumption == /\ Noon \in Nat \ {0}
                         /\ Period \in Nat \ {0}
                         /\ MaxDelta \in Nat \ {0}
                         /\ MaxTotal \in Nat
                         /\ MaxBoots \in Nat

VARIABLES
    pc,         \* where the main thread is
    run,        \* GameServer::m_run
    listening,  \* Server::IsListening()
    asked,      \* g_shutdownRequested
    players,    \* PlayerManager::m_players, and PlayerIds of the scripts
    elapsed,    \* ElapsedTime of Broadcast
    total,      \* WorldClock.totalGameSeconds
    file,       \* world-clock.txt, 0 if there is none
    told,       \* told[p]: the clock last sent to p
    due,        \* m_nextAnnounce has passed
    thread,     \* thread[t]: what an announcement is at
    boots       \* how often the server was started

hostFlags == <<run, listening, asked>>
hostClock == <<elapsed, total, file, told>>
hostVars  == <<pc, hostFlags, players, hostClock, due, thread, boots>>

HostTypeOK ==
    /\ pc \in {"down", "top", "callbacks", "messages", "closed", "gone"}
    /\ run \in BOOLEAN
    /\ listening \in BOOLEAN
    /\ asked \in BOOLEAN
    /\ players \in SUBSET Player
    /\ elapsed \in Nat
    /\ total \in Nat \ {0}
    /\ file \in Nat
    /\ told \in [Player -> Nat]
    /\ due \in BOOLEAN
    /\ thread \in [Thread -> {"none", "counting", "posting"}]
    /\ boots \in Nat

HostInit ==
    /\ pc = "down"
    /\ run = FALSE
    /\ listening = FALSE
    /\ asked = FALSE
    /\ players = {}
    /\ elapsed = 0
    /\ total = Noon
    /\ file = 0
    /\ told = [p \in Player |-> 0]
    /\ due = FALSE
    /\ thread = [t \in Thread |-> "none"]
    /\ boots = 0

-----------------------------------------------------------------------------
(* WorldClock.Load: a clock that is there and positive, else noon.         *)
Restored == IF file > 0 THEN file ELSE Noon

(* A configuration that cannot be parsed leaves a server that never listens.*)
Initialize(parsed) ==
    /\ pc = "down"
    /\ boots < MaxBoots
    /\ boots' = boots + 1
    /\ pc' = IF parsed THEN "top" ELSE "gone"
    /\ run' = parsed
    /\ listening' = parsed
    /\ asked' = FALSE
    /\ players' = {}
    /\ elapsed' = 0
    /\ total' = Restored
    /\ due' = TRUE
    /\ UNCHANGED <<file, told, thread>>

(* SIGTERM or SIGINT, at any moment of GameServer::Run.                    *)
HandleShutdownSignal ==
    /\ pc \in {"top", "callbacks", "messages"}
    /\ ~asked
    /\ asked' = TRUE
    /\ UNCHANGED <<pc, run, listening, players, hostClock, due, thread, boots>>

(* A slip: a loop that the signal does not end.                            *)
RunsOn == run /\ listening

Running == run /\ listening /\ ~asked

(* The head of the loop, and RunCallbacks of Server::Update.               *)
Update ==
    /\ pc = "top"
    /\ Running
    /\ pc' = "callbacks"
    /\ UNCHANGED <<hostFlags, players, hostClock, due, thread, boots>>

OnDisconnection(p) ==
    /\ pc = "callbacks"
    /\ listening
    /\ p \in players
    /\ players' = players \ {p}
    /\ due' = TRUE
    /\ UNCHANGED <<pc, hostFlags, hostClock, thread, boots>>

ReceiveMessages ==
    /\ pc = "callbacks"
    /\ pc' = "messages"
    /\ UNCHANGED <<hostFlags, players, hostClock, due, thread, boots>>

(* A slip: a newcomer waits for the next broadcast.                        *)
JoinsUntold(p) ==
    /\ pc = "messages"
    /\ listening
    /\ p \notin players
    /\ players' = players \cup {p}
    /\ due' = TRUE
    /\ UNCHANGED <<pc, hostFlags, hostClock, thread, boots>>

(* The clock, and the weather that follows from it.                        *)
Send(ps) == told' = [p \in Player |-> IF p \in ps THEN total ELSE told[p]]

(* An authentication: the observer of PlayerComponent tells the scripts,    *)
(* and the clock sends itself to the newcomer.                             *)
PlayerJoin(p) ==
    /\ pc = "messages"
    /\ listening
    /\ p \notin players
    /\ players' = players \cup {p}
    /\ Send({p})
    /\ due' = TRUE
    /\ UNCHANGED <<pc, hostFlags, elapsed, total, file, thread, boots>>

Fires(d) == elapsed + d >= Period

Broadcast  == Send(players) /\ file' = total
Advance(d) == total' = total + d

(* World::Update, in the order the systems and subscribers came: the server *)
(* list, Rpc.Poll, Timer.Update (Broadcast: Send to each, Save) and the     *)
(* clock itself.                                                           *)
Tick(d) ==
    /\ pc = "messages"
    /\ total + d <= MaxTotal
    /\ pc' = "top"
    /\ elapsed' = IF Fires(d) THEN 0 ELSE elapsed + d
    /\ IF Fires(d) THEN Broadcast ELSE UNCHANGED <<told, file>>
    /\ Advance(d)
    /\ \/ /\ due
          /\ \E t \in Thread : /\ thread[t] = "none"
                               /\ thread' = [thread EXCEPT ![t] = "counting"]
          /\ due' = FALSE
       \/ UNCHANGED <<due, thread>>
    /\ UNCHANGED <<hostFlags, players, boots>>

MinutePasses ==
    /\ pc = "top"
    /\ ~due
    /\ due' = TRUE
    /\ UNCHANGED <<pc, hostFlags, players, hostClock, thread, boots>>

-----------------------------------------------------------------------------
(* Announce reads the configuration and the number of players; a server     *)
(* that is gone by then takes the process with it.                         *)
CountPlayers(t) ==
    /\ thread[t] = "counting"
    /\ pc # "gone"
    /\ thread' = [thread EXCEPT ![t] = "posting"]
    /\ UNCHANGED <<pc, hostFlags, players, hostClock, due, boots>>

(* A 403 is a ban: GServer->Kill() from this thread.                       *)
PostAnnouncement(t, banned) ==
    /\ thread[t] = "posting"
    /\ banned => pc # "gone"
    /\ thread' = [thread EXCEPT ![t] = "none"]
    /\ run' = (run /\ ~banned)
    /\ listening' = (listening /\ ~banned)
    /\ UNCHANGED <<pc, asked, players, hostClock, due, boots>>

-----------------------------------------------------------------------------
(* The end of Run: Kill, before anything is destroyed.                     *)
Kill ==
    /\ pc = "top"
    /\ ~Running
    /\ run' = FALSE
    /\ listening' = FALSE
    /\ pc' = "closed"
    /\ UNCHANGED <<asked, players, hostClock, due, thread, boots>>

(* Main's finally: the world ends, its players leave.                      *)
Exit ==
    /\ pc = "closed"
    /\ players' = {}
    /\ pc' = "gone"
    /\ UNCHANGED <<hostFlags, hostClock, due, thread, boots>>

(* Save writes world-clock.txt.tmp and renames it: killed on the way, it    *)
(* leaves the clock as it was.                                             *)
Interrupted == file' = file

(* The process ends, or is killed; its threads end with it.                *)
ProcessEnds ==
    /\ pc # "down"
    /\ pc' = "down"
    /\ run' = FALSE
    /\ listening' = FALSE
    /\ thread' = [t \in Thread |-> "none"]
    /\ Interrupted
    /\ UNCHANGED <<asked, players, elapsed, total, told, due, boots>>

Loop == \/ Update
        \/ ReceiveMessages
        \/ \E d \in 1 .. MaxDelta : Tick(d)
        \/ Kill
        \/ Exit

HostNext ==
    \/ \E parsed \in BOOLEAN : Initialize(parsed)
    \/ HandleShutdownSignal
    \/ Loop
    \/ \E p \in Player : OnDisconnection(p) \/ PlayerJoin(p)
    \/ MinutePasses
    \/ \E t \in Thread : \/ CountPlayers(t)
                         \/ \E banned \in BOOLEAN : PostAnnouncement(t, banned)
    \/ ProcessEnds

HostSpec == HostInit /\ [][HostNext]_hostVars

-----------------------------------------------------------------------------
(* A kill at any moment costs less than one broadcast period and one turn   *)
(* of the loop: "a kill mid-write must never leave a truncated (yet still   *)
(* parseable) clock behind" (WorldClock.cs:128-129).  And no player's sky   *)
(* is older than that, also of one who joined between two broadcasts.       *)
(* (WorldClock.Save, OnPlayerJoin, Broadcast.)                              *)
LossBounded == total < Restored + Period + MaxDelta
SkyInStep   == pc \in {"top", "callbacks", "messages"} =>
                   \A p \in players : total < told[p] + Period + MaxDelta
ClockKept   == LossBounded /\ SkyInStep

(* A server that is told to stop, by a signal or by the server list, ends.  *)
(* (GameServer::Run, ServerListSystem::PostAnnouncement.)                  *)
ToldToStop == pc = "top" /\ (asked \/ ~run)
StopsWhenTold == ToldToStop ~> pc = "down"
=============================================================================
