-------------------------------- MODULE Mounts --------------------------------
(***************************************************************************)
(* Who is shown in which vehicle on the screen of one player (VehicleSystem*)
(* of code/client/App/World, with its script).  A vehicle of the server is *)
(* spawned long before it is there, and a rider who gets in meanwhile      *)
(* waits in m_pendingMounts; the player's own car has an id of the server  *)
(* only when the answer to its request comes.                              *)
(***************************************************************************)
EXTENDS FiniteSets

CONSTANTS
    Rider,      \* the puppets of other players, which are there
    Vehicle,    \* vehicles of the server
    OwnCar,     \* a car of the player's own game
    OnFoot      \* no vehicle

ASSUME MountsAssumption == OwnCar # OnFoot /\ {OwnCar, OnFoot} \cap Vehicle = {}

VARIABLES
    vehicle,    \* vehicle[v]: "none", SpawningComponent or EntityComponent
    metal,      \* metal[v]: the game's entity: "none", asked for ("new"), "there"
    waiting,    \* waiting[v]: riders of m_pendingMounts
    shownIn,    \* shownIn[c]: where c was mounted, AttachedComponent
    rides,      \* rides[c]: the vehicle of the last message about c
    seat,       \* where the player itself sits
    ownCar,     \* m_vehicleGameId has a value
    control,    \* m_vehicleRemoteId
    answers,    \* NotifyVehicleControlAssigned to come
    mine,       \* vehicles the server made of the player's own car
    hasty,      \* riders of whom more came while they waited (history)
    stray,      \* control was assigned of what is no car of the game (history)
    reloaded,   \* a world was detached during the session (history)
    broken      \* a car was used that is not there

mountsShown  == <<waiting, shownIn, rides, hasty>>
mountsPlayer == <<seat, ownCar, control, answers, mine>>
mountsVars   == <<vehicle, metal, mountsShown, mountsPlayer, stray, reloaded, broken>>

MountsTypeOK ==
    /\ vehicle \in [Vehicle -> {"none", "spawning", "entity"}]
    /\ metal \in [Vehicle -> {"none", "new", "there"}]
    /\ waiting \in [Vehicle -> SUBSET Rider]
    /\ shownIn \in [Rider -> Vehicle \cup {OwnCar, OnFoot}]
    /\ rides \in [Rider -> Vehicle \cup {OnFoot}]
    /\ seat \in Vehicle \cup {OwnCar, OnFoot}
    /\ ownCar \in BOOLEAN
    /\ control \in Vehicle \cup {OnFoot}
    /\ answers \in SUBSET Vehicle
    /\ mine \in SUBSET Vehicle
    /\ hasty \in SUBSET Rider
    /\ stray \in BOOLEAN
    /\ reloaded \in BOOLEAN
    /\ broken \in BOOLEAN

MountsInit ==
    /\ vehicle = [v \in Vehicle |-> "none"]
    /\ metal = [v \in Vehicle |-> "none"]
    /\ waiting = [v \in Vehicle |-> {}]
    /\ shownIn = [c \in Rider |-> OnFoot]
    /\ rides = [c \in Rider |-> OnFoot]
    /\ seat = OnFoot
    /\ ownCar = FALSE
    /\ control = OnFoot
    /\ answers = {}
    /\ mine = {}
    /\ hasty = {}
    /\ stray = FALSE
    /\ reloaded = FALSE
    /\ broken = FALSE

-----------------------------------------------------------------------------
(* The server tells of a vehicle once, all but its owner, and before anyone *)
(* gets in.                                                                *)
HandleVehicleLoadMessage(v) ==
    /\ ~broken
    /\ vehicle[v] = "none" /\ v \notin mine
    /\ \A c \in Rider : rides[c] # v
    /\ vehicle' = [vehicle EXCEPT ![v] = "spawning"]
    /\ metal' = [metal EXCEPT ![v] = "new"]
    /\ UNCHANGED <<mountsShown, mountsPlayer, stray, reloaded, broken>>

Waits(c) == \E v \in Vehicle : c \in waiting[v]

DoMount(c, place) == shownIn' = [shownIn EXCEPT ![c] = place]

(* A vehicle this client has never heard of is looked up as the entity 0,   *)
(* and a mount that is queued for that is never taken out.                 *)
HandleVehicleEnterMessage(v, c) ==
    /\ ~broken
    /\ rides' = [rides EXCEPT ![c] = v]
    /\ hasty' = IF Waits(c) THEN hasty \cup {c} ELSE hasty
    /\ \/ /\ control = v
          /\ IF ownCar THEN DoMount(c, OwnCar) ELSE UNCHANGED shownIn
          /\ broken' = ~ownCar
          /\ UNCHANGED waiting
       \/ /\ control # v /\ vehicle[v] = "entity"
          /\ IF metal[v] = "there" THEN DoMount(c, v) ELSE UNCHANGED shownIn
          /\ broken' = (metal[v] # "there")
          /\ UNCHANGED waiting
       \/ /\ control # v /\ vehicle[v] # "entity"
          /\ waiting' = IF vehicle[v] = "spawning"
                        THEN [waiting EXCEPT ![v] = @ \cup {c}] ELSE waiting
          /\ UNCHANGED <<shownIn, broken>>
    /\ UNCHANGED <<vehicle, metal, mountsPlayer, stray, reloaded>>

(* Entity/Attached of a vehicle.  Only one that riders wait for becomes an  *)
(* entity: those who get in later wait for ever.                           *)
OnVehicleReady(v) ==
    /\ ~broken
    /\ metal[v] = "new"
    /\ metal' = [metal EXCEPT ![v] = "there"]
    /\ vehicle' = IF waiting[v] # {} THEN [vehicle EXCEPT ![v] = "entity"] ELSE vehicle
    /\ shownIn' = [c \in Rider |-> IF c \in waiting[v] THEN v ELSE shownIn[c]]
    /\ waiting' = [waiting EXCEPT ![v] = {}]
    /\ UNCHANGED <<rides, hasty, mountsPlayer, stray, reloaded, broken>>

HandleVehicleExitMessage(c) ==
    /\ ~broken
    /\ shownIn' = [shownIn EXCEPT ![c] = OnFoot]
    /\ rides' = [rides EXCEPT ![c] = OnFoot]
    /\ hasty' = IF Waits(c) THEN hasty \cup {c} ELSE hasty
    /\ UNCHANGED <<vehicle, metal, waiting, mountsPlayer, stray, reloaded, broken>>

-----------------------------------------------------------------------------
(* The player gets into a car of its own game, of which the server makes a  *)
(* vehicle; or into one that FindEntity knows.  Who drives is answered.     *)
OnVehicleEnter(v, driver) ==
    /\ ~broken
    /\ seat = OnFoot
    /\ v \notin mine
    /\ IF vehicle[v] # "none"
       THEN /\ metal[v] = "there"
            /\ seat' = v
            /\ ownCar' = FALSE
            /\ UNCHANGED mine
       ELSE /\ seat' = OwnCar
            /\ ownCar' = TRUE
            /\ mine' = mine \cup {v}
    /\ answers' = IF driver THEN answers \cup {v} ELSE answers
    /\ UNCHANGED <<vehicle, metal, mountsShown, control, stray, reloaded, broken>>

HandleVehicleControlMessage(v) ==
    /\ ~broken
    /\ v \in answers
    /\ answers' = answers \ {v}
    /\ control' = v
    /\ stray' = (stray \/ ~ownCar)
    /\ UNCHANGED <<vehicle, metal, mountsShown, seat, ownCar, mine, reloaded, broken>>

(* A slip: who gets out keeps the control.                                  *)
LeavesTheCar ==
    /\ ~broken
    /\ seat # OnFoot
    /\ seat' = OnFoot
    /\ ownCar' = FALSE
    /\ UNCHANGED <<control, vehicle, metal, mountsShown, answers, mine, stray, reloaded, broken>>

OnVehicleExit ==
    /\ ~broken
    /\ seat # OnFoot
    /\ seat' = OnFoot
    /\ ownCar' = FALSE
    /\ control' = OnFoot
    /\ UNCHANGED <<vehicle, metal, mountsShown, answers, mine, stray, reloaded, broken>>

(* The game's entities go with the world, and nobody reports that the       *)
(* player got out; the flecs world and what is remembered stay.             *)
OnAfterWorldDetach ==
    /\ ~broken
    /\ metal' = [v \in Vehicle |-> "none"]
    /\ seat' = OnFoot
    /\ reloaded' = TRUE
    /\ UNCHANGED <<vehicle, mountsShown, ownCar, control, answers, mine, stray, broken>>

(* Every entity is despawned.  m_pendingMounts is not cleared; the ids in   *)
(* it will not come again.  The player may stay in its seat.               *)
OnDisconnected ==
    /\ ~broken
    /\ vehicle' = [v \in Vehicle |-> "none"]
    /\ metal' = [v \in Vehicle |-> "none"]
    /\ waiting' = [v \in Vehicle |-> {}]
    /\ shownIn' = [c \in Rider |-> OnFoot]
    /\ rides' = [c \in Rider |-> OnFoot]
    /\ seat' = IF seat = OwnCar THEN OwnCar ELSE OnFoot
    /\ ownCar' = FALSE
    /\ control' = OnFoot
    /\ answers' = {}
    /\ mine' = {}
    /\ hasty' = {}
    /\ stray' = FALSE
    /\ reloaded' = FALSE
    /\ UNCHANGED broken

MountsNext ==
    \/ \E v \in Vehicle : \/ HandleVehicleLoadMessage(v)
                          \/ OnVehicleReady(v)
                          \/ HandleVehicleControlMessage(v)
                          \/ \E driver \in BOOLEAN : OnVehicleEnter(v, driver)
                          \/ \E c \in Rider : HandleVehicleEnterMessage(v, c)
    \/ \E c \in Rider : HandleVehicleExitMessage(c)
    \/ OnVehicleExit
    \/ OnAfterWorldDetach
    \/ OnDisconnected

MountsSpec == MountsInit /\ [][MountsNext]_mountsVars

-----------------------------------------------------------------------------
(* Who got out is shown in no vehicle, and who got into one that is an      *)
(* entity in that one (or in the player's car), unless the word of it came  *)
(* while the rider waited.                                                  *)
NoGhostMount ==
    \A c \in Rider \ hasty :
        /\ rides[c] = OnFoot => shownIn[c] = OnFoot
        /\ rides[c] # OnFoot /\ vehicle[rides[c]] = "entity" => shownIn[c] \in {rides[c], OwnCar}

(* The car that a rider is put into is there: *m_vehicleGameId has a value  *)
(* and the vehicle an entity, unless control was assigned of a vehicle that*)
(* the player has left or that is no car of its game, or the world was      *)
(* detached in between.                                                    *)
CarsAreThere == broken => stray \/ reloaded

(* Riders are shown where they ride, in cars that are there, in whatever    *)
(* order loads, enters, exits, answers and the game's entities come.        *)
(* (VehicleSystem: m_pendingMounts, OnVehicleReady, DoMount.)               *)
RidersShown == (broken \/ NoGhostMount) /\ CarsAreThere
===============================================================================
