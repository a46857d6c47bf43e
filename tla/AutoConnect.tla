----------------------------- MODULE AutoConnect -----------------------------
(***************************************************************************)
(* Joining and leaving a session: the JOIN item of the main menu, which    *)
(* arms a session; the attachment of the player, which starts a deferred   *)
(* connection; and the LEAVE SESSION item of the pause menu                *)
(* (code/assets/redscript/NightCityMP, NetworkAutoConnect.reds).           *)
(***************************************************************************)
EXTENDS Session, FiniteSets

CONSTANTS
    Timer,      \* NcmpDeferredConnect callbacks; each attachment has its own
    MaxLeft,    \* attemptsLeft of the first of them
    MaxArms     \* bound on the times a session is armed

ASSUME AutoConnectAssumption == /\ None \notin Timer
                                /\ MaxLeft \in Nat
                                /\ MaxArms \in Nat \ {0}

VARIABLES
    inWorld,    \* ~IsPreGame(): a save is loaded
    pending,    \* Settings::pendingSession
    endpoint,   \* Settings::ip and port
    deferred,   \* deferred[k]: the callback that is due, None if there is none
    arms        \* how often a session was armed

menus == <<inWorld, pending, endpoint, arms>>
vars == <<sessionVars, menus, deferred>>

Wait == [left : 0 .. MaxLeft, streak : 0 .. 1]

TypeOK ==
    /\ SessionTypeOK
    /\ inWorld \in BOOLEAN
    /\ pending \in BOOLEAN
    /\ endpoint \in Server
    /\ deferred \in [Timer -> Wait \cup {None}]
    /\ arms \in 0 .. MaxArms

(* The argument -online arms a session before the game has started.        *)
Init ==
    /\ SessionInit
    /\ inWorld = FALSE
    /\ pending \in BOOLEAN
    /\ endpoint \in Server
    /\ deferred = [k \in Timer |-> None]
    /\ arms = IF pending THEN 1 ELSE 0

-----------------------------------------------------------------------------
(* A callback that is due at the menu is dropped there, before the player  *)
(* has got to JOIN.                                                        *)
OnNcmpJoin(s) ==
    /\ phase = "game"
    /\ ~inWorld
    /\ \A k \in Timer : deferred[k] = None
    /\ arms < MaxArms
    /\ pending' = TRUE
    /\ endpoint' = s
    /\ arms' = arms + 1
    /\ UNCHANGED <<sessionVars, inWorld, deferred>>

(* OnGameAttached, of a player who has loaded a save, from the main menu or *)
(* from another save.                                                       *)
Attach ==
    /\ phase = "game"
    /\ ~pending \/ online
    /\ inWorld' = TRUE
    /\ UNCHANGED <<sessionVars, pending, endpoint, arms, deferred>>

AttachArmed(k) ==
    /\ phase = "game"
    /\ pending
    /\ ~online
    /\ deferred[k] = None
    /\ deferred' = [deferred EXCEPT ![k] = [left |-> MaxLeft, streak |-> 0]]
    /\ pending' = FALSE
    /\ inWorld' = TRUE
    /\ UNCHANGED <<sessionVars, endpoint, arms>>

ExitToMenu ==
    /\ phase = "game"
    /\ inWorld
    /\ inWorld' = FALSE
    /\ UNCHANGED <<sessionVars, pending, endpoint, arms, deferred>>

OnLeave ==
    /\ inWorld
    /\ online
    /\ pending' = FALSE
    /\ Close
    /\ UNCHANGED <<inWorld, endpoint, arms, deferred>>

-----------------------------------------------------------------------------
(* NcmpDeferredConnect.Call: `ready' is what IsEquipmentReady() answers.    *)

Due(k, ready) == (ready /\ deferred[k].streak = 1) \/ deferred[k].left = 0

CallAtMenu(k) ==
    /\ phase = "game"
    /\ deferred[k] # None
    /\ ~inWorld
    /\ deferred' = [deferred EXCEPT ![k] = None]
    /\ UNCHANGED <<sessionVars, menus>>

CallConnects(k, ready, a) ==
    /\ deferred[k] # None
    /\ inWorld
    /\ Due(k, ready)
    /\ deferred' = [deferred EXCEPT ![k] = None]
    /\ Connect(a, endpoint)
    /\ UNCHANGED menus

(* A slip: the attempts are not counted.                                    *)
CallWaitsForever(k, ready) ==
    /\ phase = "game"
    /\ deferred[k] # None
    /\ inWorld
    /\ ~Due(k, ready)
    /\ deferred' = [deferred EXCEPT ![k].streak = IF ready THEN 1 ELSE 0]
    /\ UNCHANGED <<sessionVars, menus>>

CallWaits(k, ready) ==
    /\ phase = "game"
    /\ deferred[k] # None
    /\ inWorld
    /\ ~Due(k, ready)
    /\ deferred' = [deferred EXCEPT ![k] = [left   |-> @.left - 1,
                                            streak |-> IF ready THEN 1 ELSE 0]]
    /\ UNCHANGED <<sessionVars, menus>>

Call(k) == \/ CallAtMenu(k)
           \/ \E ready \in BOOLEAN : \/ CallWaits(k, ready)
                                     \/ \E a \in Attempt : CallConnects(k, ready, a)

-----------------------------------------------------------------------------
Next ==
    \/ \E s \in Server : OnNcmpJoin(s)
    \/ Attach
    \/ \E k \in Timer : AttachArmed(k)
    \/ ExitToMenu
    \/ OnLeave
    \/ \E k \in Timer : Call(k)
    \/ CallServer /\ UNCHANGED <<menus, deferred>>
    \/ Frame /\ UNCHANGED <<menus, deferred>>
    \/ World /\ UNCHANGED <<menus, deferred>>

Spec == Init /\ [][Next]_vars

(* Frames come one after the other and each part of one ends; a deferred   *)
(* callback is called between two frames.  Connections that are up deliver,*)
(* and a connection that is begun comes up or is lost.                     *)
FairSpec ==
    /\ Spec
    /\ WF_vars(Frame /\ UNCHANGED <<menus, deferred>>)
    /\ \A k \in Timer : SF_vars(Call(k))
    /\ \A a \in Attempt :
          /\ WF_vars((Reach(a) \/ Lose(a)) /\ stage[a] = "connecting"
                        /\ UNCHANGED <<menus, deferred>>)
          /\ WF_vars(Serve(a) /\ UNCHANGED <<menus, deferred>>)

-----------------------------------------------------------------------------
Begins == \E a \in Attempt : stage[a] = "unused" /\ stage'[a] = "running"

(* "connected-guard -- never Connect() while already connected"            *)
(* (NetworkAutoConnect.reds:12).                                           *)
NeverWhileConnected == [][Begins => ~online]_vars

(* "A timeout still connects after ~15s so a genuinely empty-equipment     *)
(* character can't stall joining forever": a deferred connection is begun, *)
(* or dropped at the main menu.  (NcmpDeferredConnect.Call.)               *)
DeferredEnds == \A k \in Timer : deferred[k] # None ~> deferred[k] = None

(* A connection that is neither lost nor replaced gets the player online:  *)
(* the handshake, the time, the authentication and its answer follow one   *)
(* from the other.  (Only a failed resolution beside it may take the       *)
(* player offline.)                                                        *)
AttemptCompletes ==
    \A a \in Attempt :
        link = a ~> \/ online
                    \/ link # a
                    \/ \E b \in Attempt : stage[b] = "failed"
=============================================================================
