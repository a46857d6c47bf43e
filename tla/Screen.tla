------------------------------- MODULE Screen -------------------------------
(***************************************************************************)
(* The multiplayer screen (MultiplayerGameController and its lists, code/  *)
(* assets/redscript/Ink): the emote wheel, the list of jobs, the list of   *)
(* deliveries, the hints of the keys, the phone icon and the map marker of *)
(* a delivery or a fare (DeliveryClient, TaxiDriverClient).  Each widget is  *)
(* spawned asynchronously, and a popup that is displayed pushes a modal     *)
(* context on the game, which its closing pops.                            *)
(* Keys, spawns, calls of the server and the connection come in any order. *)
(***************************************************************************)
EXTENDS Integers, Sequences, SequencesExt

CONSTANTS
    MaxSpawns,  \* bound on the spawns in flight
    MaxWidgets, \* bound on the popups on the screen
    MaxCalls,   \* bound on the calls of the server on their way
    MaxMarkers  \* bound on the markers on the map

ASSUME ScreenAssumption ==
    {MaxSpawns, MaxWidgets, MaxCalls, MaxMarkers} \subseteq Nat

VARIABLES
    connected,      \* m_connectedToServer
    open,           \* popups whose m_...Open is set
    spawning,       \* spawning[p]: AsyncSpawnFromLocal not answered yet
    shown,          \* popups with a controller: m_emoteContextPushed, m_...LogicController
    widgets,        \* widgets[p]: how many of them are on the screen
    contexts,       \* UIGameContext.ModalPopup, how often it is pushed
    requests,       \* UIMultiplayerContextRequest, UIEmoteSelectionContextRequest
    keys,           \* the actions this controller listens to
    hints,          \* the keys whose hint the game displays
    activeJob,      \* m_activeJob
    activeDelivery, \* m_activeDelivery
    entries,        \* whose work m_deliveryEntries is, "none" if it is empty
    listed,         \* whose work the displayed delivery list is, if there is one
    markers,        \* markers on the map
    mappin,         \* what the marker with the id m_mappin is at, if there is one
    job,            \* the job the server holds for this player, or "none"
    task,           \* where that job's delivery or fare has the player go
    former,         \* a job the player quit has a task; its finalizer is due
    calls,          \* calls of the server on their way, in order
    abandoned,      \* history: a task was left by quitting or with its session
    riding,         \* the game has the player in a vehicle
    inVehicle,      \* m_isInVehicle, 2 at first
    iconSpawned,    \* m_phoneIconWidget is there
    icon            \* where the last animation has put the phone icon

screenWindows == <<open, spawning, shown, widgets, contexts, requests>>
screenJobs    == <<activeJob, activeDelivery, entries, listed>>
screenMap     == <<markers, mappin>>
screenServer  == <<job, task, former, calls, abandoned>>
screenIcon    == <<riding, inVehicle, iconSpawned, icon>>
screenWork    == <<screenJobs, screenMap, screenServer>>
screenVars    == <<connected, screenWindows, keys, hints, screenWork, screenIcon>>

Popup == {"emotes", "jobs", "deliveries"}
Key   == {"UIEmote", "UIJob", "UIShop", "mouse", "popup"}
Driver == {"Delivery Driver", "Taxi Driver"}
Place  == {"none", "pickup", "goal"}
Call   == Driver \cup {"deliveries", "fares", "delivery", "pickup", "trip", "end"}

ScreenTypeOK ==
    /\ connected \in BOOLEAN
    /\ open \in SUBSET Popup
    /\ spawning \in [Popup -> Nat]
    /\ shown \in SUBSET Popup
    /\ widgets \in [Popup -> Nat]
    /\ contexts \in Nat
    /\ requests \in SUBSET {"lists", "emotes"}
    /\ keys \in SUBSET Key
    /\ hints \in SUBSET Key
    /\ {activeJob, activeDelivery, former, abandoned, riding, iconSpawned} \subseteq BOOLEAN
    /\ {entries, listed, job} \subseteq Driver \cup {"none"}
    /\ {mappin, task} \subseteq Place
    /\ markers \in Nat
    /\ calls \in Seq(Call)
    /\ inVehicle \in 0..2
    /\ icon \in {"unset", "phone", "vehicle", "list"}

ScreenInit ==
    /\ connected = FALSE
    /\ open = {}
    /\ spawning = [p \in Popup |-> 0]
    /\ shown = {}
    /\ widgets = [p \in Popup |-> 0]
    /\ contexts = 0
    /\ requests = {}
    /\ keys = {}
    /\ hints = {}
    /\ activeJob = FALSE
    /\ activeDelivery = FALSE
    /\ entries = "none"
    /\ listed = "none"
    /\ markers = 0
    /\ mappin = "none"
    /\ job = "none"
    /\ task = "none"
    /\ former = FALSE
    /\ calls = <<>>
    /\ abandoned = FALSE
    /\ riding \in BOOLEAN
    /\ inVehicle = 2
    /\ iconSpawned = FALSE
    /\ icon = "unset"

-----------------------------------------------------------------------------
InAll(f) == f["emotes"] + f["jobs"] + f["deliveries"]

Own(p) == IF p = "emotes" THEN {"mouse"} ELSE {"popup"}

(* The input context that the request of a popup has the player enter: the  *)
(* two lists share one.                                                    *)
Request(p) == IF p = "emotes" THEN "emotes" ELSE "lists"

(* The hints are the game's copy of these conditions, sent to it once more  *)
(* by every handler that changes one.                                      *)
UpdateInputHints ==
    hints' = {k \in {"UIEmote", "UIShop", "UIJob"} :
                /\ connected'
                /\ k = "UIEmote" => "emotes" \notin open'
                /\ k # "UIEmote" => /\ "deliveries" \notin open'
                                    /\ activeDelivery' = (k = "UIShop")}

(* The keys of a driver under way, and of one who may look for work.        *)
DriverKeys(k) == (k \ {"UIJob"}) \cup {"UIShop"}

SeekerKeys(k) == (k \ {"UIShop"}) \cup {"UIJob"}

(* 2Vehicle or 2Phone, by what the screen has last been told.               *)
IconHome == IF inVehicle = 1 THEN "vehicle" ELSE "phone"

(* What the session started is over for the server; the popups, the marker  *)
(* and m_active... stay as they are.                                       *)
OnConnectedToServer(c) ==
    /\ c # connected
    /\ connected' = c
    /\ keys' = IF c THEN keys \cup {"UIEmote", "UIJob"} ELSE keys \ {"UIEmote", "UIJob"}
    /\ job' = "none"
    /\ task' = "none"
    /\ former' = FALSE
    /\ calls' = <<>>
    /\ abandoned' = (abandoned \/ markers > 0)
    /\ UNCHANGED <<screenWindows, screenJobs, screenMap, screenIcon>>
    /\ UpdateInputHints

(* Keys go to the delivery list, else to the job list, else to the rest.    *)
Pressed(k, p) ==
    /\ connected
    /\ k \in keys
    /\ p \in {"jobs", "deliveries"} => p \in shown
    /\ "deliveries" \in shown => p = "deliveries"
    /\ "jobs" \in shown => p \in {"jobs", "deliveries"}

Spawn(p) ==
    /\ InAll(spawning) < MaxSpawns
    /\ spawning' = [spawning EXCEPT ![p] = @ + 1]
    /\ open' = open \cup {p}
    /\ UNCHANGED <<shown, widgets, contexts, requests>>

(* A slip: whoever closes a popup pops the context, as if it had spawned.   *)
ClosesAnyway(p) ==
    /\ open' = open \ {p}
    /\ shown' = shown \ {p}
    /\ contexts' = contexts - 1
    /\ widgets' = [widgets EXCEPT ![p] = IF p \in shown THEN @ - 1 ELSE @]
    /\ requests' = IF p \in shown THEN requests \ {Request(p)} ELSE requests
    /\ UNCHANGED spawning

(* OnEmoteSelectorClosed, OnJobListClosed and OnDeliveryListClosed: nothing *)
(* to tear down if nothing was displayed.                                  *)
Closes(p) ==
    /\ open' = open \ {p}
    /\ shown' = shown \ {p}
    /\ contexts' = IF p \in shown THEN contexts - 1 ELSE contexts
    /\ widgets' = [widgets EXCEPT ![p] = IF p \in shown THEN @ - 1 ELSE @]
    /\ requests' = IF p \in shown THEN requests \ {Request(p)} ELSE requests
    /\ UNCHANGED spawning

KeysWithout(p) == IF p \in shown THEN keys \ Own(p) ELSE keys

(* A list that is closed gives the phone icon its place back.               *)
CloseList(p) ==
    /\ Closes(p)
    /\ listed' = IF p = "deliveries" THEN "none" ELSE listed
    /\ icon' = IconHome
    /\ UNCHANGED <<connected, riding, inVehicle, iconSpawned>>

(* The popup takes the screen, the keys and the input context.              *)
Displays(p) ==
    /\ InAll(widgets) < MaxWidgets
    /\ widgets' = [widgets EXCEPT ![p] = @ + 1]
    /\ contexts' = contexts + 1
    /\ shown' = shown \cup {p}
    /\ keys' = keys \cup Own(p)
    /\ requests' = requests \cup {Request(p)}

(* The list of deliveries is filled with the entries of that moment.        *)
Listing(p) == IF p = "deliveries" THEN entries ELSE listed

Send(c) == Len(calls) < MaxCalls /\ calls' = Append(calls, c)

-----------------------------------------------------------------------------
PressEmote ==
    /\ Pressed("UIEmote", "emotes")
    /\ "emotes" \notin open
    /\ Spawn("emotes")
    /\ UNCHANGED <<connected, keys, screenWork, screenIcon>>
    /\ UpdateInputHints

ReleaseEmote ==
    /\ Pressed("UIEmote", "emotes")
    /\ "emotes" \in open
    /\ Closes("emotes")
    /\ keys' = KeysWithout("emotes")
    /\ UNCHANGED <<connected, screenWork, screenIcon>>
    /\ UpdateInputHints

(* DeliveryServer.LoadDeliveries and TaxiServer.LoadJobs are answered to    *)
(* whoever has the job of that name, and to nobody else.                   *)
ListOf(name) == IF name = "Taxi Driver" THEN "fares" ELSE "deliveries"

ServerLists(name) == IF job = name THEN <<ListOf(name)>> ELSE <<>>

(* UIJob: the jobs, or, for one who has a job, the deliveries; the key asks *)
(* for these alone, whatever the job is.                                   *)
PressJob ==
    /\ Pressed("UIJob", "screen")
    /\ "deliveries" \notin open
    /\ ~activeDelivery
    /\ IF activeJob
       THEN /\ Len(calls) < MaxCalls
            /\ calls' = calls \o ServerLists("Delivery Driver")
            /\ UNCHANGED <<screenWindows, icon>>
       ELSE /\ Spawn("jobs")
            /\ icon' = "list"
            /\ UNCHANGED calls
    /\ UNCHANGED <<connected, keys, screenJobs, screenMap, job, task, former, abandoned,
                   riding, inVehicle, iconSpawned>>
    /\ UpdateInputHints

(* OnEmoteSelectorSpawned, OnJobListSpawned and OnDeliveryListSpawned: a    *)
(* widget that comes after the popup was closed is discarded.  The widgets  *)
(* of the library are taken to bring their controllers with them.          *)
OnSpawned(p) ==
    /\ spawning[p] > 0
    /\ spawning' = [spawning EXCEPT ![p] = @ - 1]
    /\ IF p \in open
       THEN Displays(p)
       ELSE UNCHANGED <<widgets, contexts, shown, keys, requests>>
    /\ listed' = IF p \in open THEN Listing(p) ELSE listed
    /\ UNCHANGED <<connected, open, hints, activeJob, activeDelivery, entries, screenMap,
                   screenServer, screenIcon>>

(* What the job list offers, GetSelectedJobData; without a selection the    *)
(* name is empty, and no job of the server.                                *)
JobName == {"Delivery Driver", "Taxi Driver", "Taxi Rider", "none"}

(* OnJobListAction, proceed: a rider only asks for a ride.  The server keeps *)
(* the job a player has and names the job to the client in every case      *)
(* (JobManager.SetJob), which is nothing to it unless a driver's.          *)
SelectJob(name) ==
    /\ Pressed("popup", "jobs")
    /\ CloseList("jobs")
    /\ keys' = KeysWithout("jobs")
    /\ activeJob' = (activeJob \/ name # "Taxi Rider")
    /\ job' = IF job = "none" /\ name # "Taxi Rider" THEN name ELSE job
    /\ IF name # "Taxi Rider" /\ job' \in Driver THEN Send(job') ELSE UNCHANGED calls
    /\ UNCHANGED <<activeDelivery, entries, screenMap, task, former, abandoned>>
    /\ UpdateInputHints

CancelList(p) ==
    /\ Pressed("popup", p)
    /\ CloseList(p)
    /\ keys' = KeysWithout(p)
    /\ UNCHANGED <<activeJob, activeDelivery, entries, screenMap, screenServer>>
    /\ UpdateInputHints

(* A delivery is taken to its goal; a fare is picked up first.              *)
FirstPlace(name) == IF name = "Taxi Driver" THEN "pickup" ELSE "goal"

StartCall(name) == IF name = "Taxi Driver" THEN "pickup" ELSE "delivery"

(* OnDeliveryListAction, proceed: AcceptDelivery for a delivery, AcceptJob  *)
(* for a fare.  The server only logs it if the player's job is another one *)
(* by now or has a task already, or if another driver has been faster.     *)
AcceptDelivery ==
    /\ Pressed("popup", "deliveries")
    /\ listed # "none"
    /\ CloseList("deliveries")
    /\ keys' = DriverKeys(KeysWithout("deliveries"))
    /\ activeDelivery' = TRUE
    /\ \/ UNCHANGED <<task, calls>>
       \/ /\ job = listed
          /\ task = "none"
          /\ task' = FirstPlace(listed)
          /\ Send(StartCall(listed))
    /\ UNCHANGED <<activeJob, entries, screenMap, job, former, abandoned>>
    /\ UpdateInputHints

(* secondaryAction; the task of the job goes with it to the finalizer.      *)
QuitJob ==
    /\ Pressed("popup", "deliveries")
    /\ CloseList("deliveries")
    /\ keys' = KeysWithout("deliveries")
    /\ activeJob' = FALSE
    /\ ~(task # "none" /\ former)
    /\ job' = "none"
    /\ task' = "none"
    /\ former' = (former \/ task # "none")
    /\ abandoned' = (abandoned \/ task # "none")
    /\ UNCHANGED <<activeDelivery, entries, screenMap, calls>>
    /\ UpdateInputHints

-----------------------------------------------------------------------------
(* The server: a rider has got in (Taxi.RiderReady) ...                     *)
RiderReady ==
    /\ task = "pickup"
    /\ task' = "goal"
    /\ Send("trip")
    /\ UNCHANGED <<connected, screenWindows, keys, hints, screenJobs, screenMap, job, former, abandoned,
                   screenIcon>>

(* ... a task ends, at its goal or, a delivery, by UIShop ...               *)
EndTask ==
    /\ task = "goal"
    /\ task' = "none"
    /\ Send("end")
    /\ UNCHANGED <<connected, screenWindows, keys, hints, screenJobs, screenMap, job, former, abandoned,
                   screenIcon>>

(* ... or it is given back by the finalizer of a job that was quit.         *)
FinalizeTask ==
    /\ former
    /\ former' = FALSE
    /\ Send("end")
    /\ UNCHANGED <<connected, screenWindows, keys, hints, screenJobs, screenMap, job, task, abandoned,
                   screenIcon>>

Receive(c) == calls # <<>> /\ Head(calls) = c /\ calls' = Tail(calls)

(* SetActiveJob: a driver's first list is asked for at once, without a key. *)
SetActiveJob(name) ==
    /\ calls # <<>>
    /\ Head(calls) = name
    /\ calls' = Tail(calls) \o ServerLists(name)
    /\ UNCHANGED <<connected, screenWindows, keys, hints, screenJobs, screenMap, job, task, former,
                   abandoned, screenIcon>>

(* LoadDeliveries and LoadJobs of the plugins, whatever is open by then.    *)
ShowDeliveryListCallback(name) ==
    /\ Receive(ListOf(name))
    /\ Spawn("deliveries")
    /\ entries' \in {"none", name}
    /\ icon' = "list"
    /\ UNCHANGED <<connected, keys, activeJob, activeDelivery, listed, screenMap, job, task,
                   former, abandoned, riding, inVehicle, iconSpawned>>
    /\ UpdateInputHints

(* A marker is registered, and its id forgets that of the one before.       *)
RegisterMappin(place) ==
    /\ mappin' = place
    /\ UNCHANGED <<connected, screenWindows, keys, hints, screenJobs, job, task, former, abandoned,
                   screenIcon>>

(* StartDelivery of the delivery plugin, StartJob of the taxi's.            *)
StartDelivery(name) ==
    /\ Receive(StartCall(name))
    /\ markers < MaxMarkers
    /\ markers' = markers + 1
    /\ RegisterMappin(FirstPlace(name))

Unregistered == IF mappin = "none" THEN markers ELSE markers - 1

(* A slip: the marker of the pick-up is left on the map.                    *)
StartTripOnly ==
    /\ Receive("trip")
    /\ markers < MaxMarkers
    /\ markers' = markers + 1
    /\ RegisterMappin("goal")

(* The marker of the pick-up is replaced by that of the goal.               *)
StartTrip ==
    /\ Receive("trip")
    /\ markers' = Unregistered + 1
    /\ markers' <= MaxMarkers
    /\ RegisterMappin("goal")

(* EndDelivery and EndTrip remove the marker they have the id of and call   *)
(* OnDeliveryComplete.                                                     *)
OnDeliveryComplete ==
    /\ Receive("end")
    /\ markers' = Unregistered
    /\ mappin' = "none"
    /\ activeDelivery' = FALSE
    /\ keys' = SeekerKeys(keys)
    /\ UNCHANGED <<connected, screenWindows, activeJob, entries, listed, job, task, former, abandoned,
                   screenIcon>>
    /\ UpdateInputHints

-----------------------------------------------------------------------------
(* The widget of the icon has been spawned: it starts where the player is,  *)
(* whatever has been opened since it was asked for.                        *)
OnHotKeySpawn ==
    /\ ~iconSpawned
    /\ iconSpawned' = TRUE
    /\ inVehicle' = IF riding THEN 1 ELSE 0
    /\ icon' = IF riding THEN "vehicle" ELSE "phone"
    /\ UNCHANGED <<connected, screenWindows, keys, hints, screenWork, riding>>

(* The player gets in or out, or something else of the phone is activated,  *)
(* before the widget is there as well as after; the icon moves, even under *)
(* an open list.                                                           *)
OnActivatePhoneElements ==
    /\ riding' \in BOOLEAN
    /\ inVehicle' = IF riding' THEN 1 ELSE 0
    /\ icon' = IF inVehicle' = inVehicle THEN icon
               ELSE IF riding' THEN "vehicle" ELSE "phone"
    /\ UNCHANGED <<connected, screenWindows, keys, hints, screenWork, iconSpawned>>

ScreenNext ==
    \/ \E c \in BOOLEAN : OnConnectedToServer(c)
    \/ PressEmote
    \/ ReleaseEmote
    \/ PressJob
    \/ \E p \in Popup : OnSpawned(p)
    \/ \E name \in JobName : SelectJob(name)
    \/ \E p \in {"jobs", "deliveries"} : CancelList(p)
    \/ AcceptDelivery
    \/ QuitJob
    \/ RiderReady
    \/ EndTask
    \/ FinalizeTask
    \/ \E name \in Driver :
          \/ SetActiveJob(name)
          \/ ShowDeliveryListCallback(name)
          \/ StartDelivery(name)
    \/ StartTrip
    \/ OnDeliveryComplete
    \/ OnHotKeySpawn
    \/ OnActivatePhoneElements

ScreenSpec == ScreenInit /\ [][ScreenNext]_screenVars

-----------------------------------------------------------------------------
(* The game has exactly as many modal contexts as there are popups on the   *)
(* screen, in whatever order keys, spawns, answers and the connection come: *)
(* a quick tap pops nothing ("if no context was ever pushed there is        *)
(* nothing to tear down"), and a context that stays is one the player sees. *)
PopupsHaveTheirContext ==
    contexts = InAll(widgets)

(* A key whose hint is displayed is one the screen listens to.              *)
HintsWork == hints \subseteq keys

(* The calls that set, move or remove a marker.                             *)
Sign == {"delivery", "pickup", "trip", "end"}

(* A delivery or a fare has its one marker from its start to its end, where *)
(* it has the player go by now, once what the server said of it has come,  *)
(* and none stays; unless one was left by quitting the job or with the     *)
(* session: its end takes the marker of another one away, or never comes.  *)
MarkersFollowTasks ==
    ~abandoned =>
        /\ markers = IF mappin = "none" THEN 0 ELSE 1
        /\ ToSet(calls) \cap Sign = {} => mappin = task

(* Once the screen has been told where the player is, and while no list is  *)
(* displayed or coming, that is where the icon is.                         *)
IconInPlace ==
    inVehicle # 2 /\ open \cap {"jobs", "deliveries"} = {}
        => icon = IF riding THEN "vehicle" ELSE "phone"

(* No input context outlives the popups it is for.                          *)
InputHasItsPopup == requests \subseteq {Request(p) : p \in shown}

(* What the screen displays beside its popups is true: hints, marker, icon  *)
(* and input, each a copy that some handler has to bring up to date.       *)
ScreenIsTrue == HintsWork /\ MarkersFollowTasks /\ IconInPlace /\ InputHasItsPopup
=============================================================================
