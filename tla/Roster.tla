------------------------------- MODULE Roster -------------------------------
(***************************************************************************)
(* What the shared world promises of who is seen by whom, with nothing     *)
(* said of channels, dispatchers or ticks.  A player joins the level once  *)
(* and leaves it for good.  While a viewer watches, each other player who  *)
(* has joined is shown to it at most once, stays on its screen until after *)
(* that player has left, and does not come back; what is announced while   *)
(* the viewer has no world is skipped.  Nobody is shown to itself.         *)
(***************************************************************************)
CONSTANT Player

VARIABLES
    online,   \* players in the level
    left,     \* players who have gone
    watching, \* players whose screen is on
    seen      \* seen[n][p]: what the screen of n has made of player p

rosterVars == <<online, left, watching, seen>>

Life == {"unseen", "shown", "skipped", "gone"}

Blank == [p \in Player |-> "unseen"]

RosterInit ==
    /\ online = {}
    /\ left = {}
    /\ watching = {}
    /\ seen = [n \in Player |-> Blank]

Watch(n) ==
    /\ n \notin watching \cup online \cup left
    /\ watching' = watching \cup {n}
    /\ UNCHANGED <<online, left, seen>>

Join(p) ==
    /\ p \notin online \cup left
    /\ online' = online \cup {p}
    /\ UNCHANGED <<left, watching, seen>>

Leave(p) ==
    /\ p \notin left
    /\ online' = online \ {p}
    /\ left' = left \cup {p}
    /\ UNCHANGED <<watching, seen>>

Show(n, p) ==
    /\ n \in watching
    /\ n # p
    /\ p \in online \cup left
    /\ seen[n][p] = "unseen"
    /\ \E life \in {"shown", "skipped"} :
         seen' = [seen EXCEPT ![n][p] = life]
    /\ UNCHANGED <<online, left, watching>>

Hide(n, p) ==
    /\ seen[n][p] = "shown"
    /\ p \in left
    /\ seen' = [seen EXCEPT ![n][p] = "gone"]
    /\ UNCHANGED <<online, left, watching>>

StopWatching(n) ==
    /\ n \in watching
    /\ watching' = watching \ {n}
    /\ seen' = [seen EXCEPT ![n] = Blank]
    /\ UNCHANGED <<online, left>>

RosterNext ==
    \E n \in Player :
        \/ Watch(n) \/ Join(n) \/ Leave(n) \/ StopWatching(n)
        \/ \E p \in Player : Show(n, p) \/ Hide(n, p)

RosterSpec == RosterInit /\ [][RosterNext]_rosterVars
=============================================================================
