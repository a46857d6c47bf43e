-------------------------------- MODULE Jobs --------------------------------
(***************************************************************************)
(* The job plugin of the server (code/server/scripting/JobSystem):         *)
(* JobManager, the deliveries of DeliverySystem and the fares of           *)
(* TaxiServer.                                                             *)
(*                                                                         *)
(* RPCs, timers and the events of players run one after the other on the   *)
(* main thread.  A Job object that JobManager has dropped is finalized at  *)
(* some later time, on the thread of the garbage collector: its finalizer  *)
(* offers the task again, in tables that the main thread uses without a    *)
(* lock.                                                                   *)
(***************************************************************************)
EXTENDS Naturals

CONSTANTS
    Player,    \* players of the server; an id is used once
    Worker,    \* Job objects
    Delivery,  \* the deliveries made when the plugin is loaded
    Fare,      \* rides that players may ask for
    Vehicle,
    None

Task == Delivery \cup Fare
Trade == {"delivery", "taxi"}

ASSUME JobsAssumption ==
    /\ Delivery \cap Fare = {}
    /\ None \notin Player \cup Worker \cup Task \cup Vehicle \cup Trade

VARIABLES
    up,      \* the server process runs
    online,  \* players of the server
    left,    \* players who have gone
    jobOf,   \* jobOf[p]: JobManager::playerJobs
    trade,   \* trade[w]: the class of object w, None before it is created
    driver,  \* driver[w]: Job::Id
    task,    \* task[w]: activeJob
    ready,   \* workers with isRiderReady
    freed,   \* objects the collector is done with
    offers,  \* keys of DeliverySystem::availableJobs and TaxiServer::AvailableJobs
    rider,   \* rider[f]: the player who asked for fare f
    parent,  \* parent[p]: AttachmentComponent::Parent of the puppet of p
    fin,     \* the object whose finalizer is offering its task, or None
    torn,    \* tables that both threads have used at the same time
    paid,    \* tasks that were paid
    shown    \* shown[p]: the task of the last Start... not yet followed by End...

players == <<online, left>>
objects == <<jobOf, trade, driver, freed>>
tables  == <<offers, rider, torn>>
vars == <<up, online, left, jobOf, trade, driver, task, ready, freed, offers,
          rider, parent, fin, torn, paid, shown>>

TradeOf(t) == IF t \in Delivery THEN "delivery" ELSE "taxi"

Employed(w) == \E p \in Player : jobOf[p] = w
Former(w) == /\ trade[w] # None
             /\ ~Employed(w)
             /\ w \notin freed

TypeOK ==
    /\ up \in BOOLEAN
    /\ online \subseteq Player
    /\ left \subseteq Player \ online
    /\ jobOf \in [Player -> Worker \cup {None}]
    /\ \A p \in Player : jobOf[p] # None => p \in online
    /\ trade \in [Worker -> Trade \cup {None}]
    /\ driver \in [Worker -> Player \cup {None}]
    /\ \A w \in Worker : trade[w] # None => driver[w] # None
    /\ task \in [Worker -> Task \cup {None}]
    /\ \A w \in Worker : task[w] # None => trade[w] = TradeOf(task[w])
    /\ ready \subseteq Worker
    /\ freed \subseteq Worker
    /\ offers \subseteq Task
    /\ rider \in [Fare -> Player \cup {None}]
    /\ parent \in [Player -> Vehicle \cup {None}]
    /\ fin \in Worker \cup {None}
    /\ torn \subseteq Trade
    /\ paid \subseteq Task
    /\ shown \in [Player -> Task \cup {None}]

(* DeliverySystem offers its deliveries, TaxiServer nothing.               *)
Init ==
    /\ up = TRUE
    /\ online = {}
    /\ left = {}
    /\ jobOf = [p \in Player |-> None]
    /\ trade = [w \in Worker |-> None]
    /\ driver = [w \in Worker |-> None]
    /\ task = [w \in Worker |-> None]
    /\ ready = {}
    /\ freed = {}
    /\ offers = Delivery
    /\ rider = [f \in Fare |-> None]
    /\ parent = [p \in Player |-> None]
    /\ fin = None
    /\ torn = {}
    /\ paid = {}
    /\ shown = [p \in Player |-> None]

-----------------------------------------------------------------------------
(* The tables.  A Dictionary that two threads use at once may lose an      *)
(* entry, keep one that was removed, or throw.                             *)

Racing(k) == fin # None /\ trade[fin] = k
TornBy(k) == torn \cup (IF Racing(k) THEN {k} ELSE {})
Broken(k) == k \in TornBy(k)

(* What the tables may be after an Add or a Remove of t.                   *)
Added(t) == {offers \cup {t}} \cup (IF Broken(TradeOf(t)) THEN {offers} ELSE {})
Removed(t) == {offers \ {t}} \cup (IF Broken(TradeOf(t)) THEN {offers} ELSE {})

(* The finalizer looks its player up in m_scriptInstances: the process may *)
(* crash when the main thread changes that map meanwhile.                  *)
LookupSurvives == IF fin = None THEN {TRUE} ELSE BOOLEAN

-----------------------------------------------------------------------------
(* Players.                                                                *)

PlayerJoin(p) ==
    /\ up
    /\ p \notin online \cup left
    /\ online' = online \cup {p}
    /\ up' \in LookupSurvives
    /\ UNCHANGED <<left, objects, task, ready, tables, parent, fin, paid, shown>>

(* A slip: the job of a player who leaves stays with JobManager.           *)
OnPlayerLeaveKeepingJob(p) ==
    /\ up
    /\ p \in online
    /\ online' = online \ {p}
    /\ left' = left \cup {p}
    /\ parent' = [parent EXCEPT ![p] = None]
    /\ shown' = [shown EXCEPT ![p] = None]
    /\ up' \in LookupSurvives
    /\ UNCHANGED <<objects, task, ready, tables, fin, paid>>

OnPlayerLeave(p) ==
    /\ up
    /\ p \in online
    /\ online' = online \ {p}
    /\ left' = left \cup {p}
    /\ jobOf' = [jobOf EXCEPT ![p] = None]
    /\ parent' = [parent EXCEPT ![p] = None]
    /\ shown' = [shown EXCEPT ![p] = None]
    /\ up' \in LookupSurvives
    /\ UNCHANGED <<trade, driver, freed, task, ready, tables, fin, paid>>

(* The player gets into a vehicle or out of one.                           *)
Sit(p, v) ==
    /\ up
    /\ p \in online
    /\ parent' = [parent EXCEPT ![p] = v]
    /\ UNCHANGED <<up, players, objects, task, ready, tables, fin, paid, shown>>

-----------------------------------------------------------------------------
(* RPCs of players.                                                        *)

SetJob(p, k, w) ==
    /\ up
    /\ p \in online
    /\ jobOf[p] = None
    /\ trade[w] = None
    /\ jobOf' = [jobOf EXCEPT ![p] = w]
    /\ trade' = [trade EXCEPT ![w] = k]
    /\ driver' = [driver EXCEPT ![w] = p]
    /\ UNCHANGED <<up, players, freed, task, ready, tables, parent, fin, paid, shown>>

Quit(p) ==
    /\ up
    /\ jobOf[p] # None
    /\ jobOf' = [jobOf EXCEPT ![p] = None]
    /\ UNCHANGED <<up, players, trade, driver, freed, task, ready, tables, parent,
                   fin, paid, shown>>

CreateJob(p, f) ==
    /\ up
    /\ p \in online
    /\ rider[f] = None
    /\ rider' = [rider EXCEPT ![f] = p]
    /\ offers' \in Added(f)
    /\ torn' = TornBy("taxi")
    /\ UNCHANGED <<up, players, objects, task, ready, parent, fin, paid, shown>>

(* The RPCs of a trade do nothing for a player who has another job, or none.*)
Serves(p, k) == jobOf[p] # None /\ trade[jobOf[p]] = k

(* A task that is not offered (any more), or a driver who has one, refuses.*)
MayTake(w, t) == task[w] = None /\ t \in offers

AcceptJob(p, t) ==
    /\ up
    /\ Serves(p, TradeOf(t))
    /\ MayTake(jobOf[p], t)
    /\ task' = [task EXCEPT ![jobOf[p]] = t]
    /\ offers' \in Removed(t)
    /\ torn' = TornBy(TradeOf(t))
    /\ shown' = [shown EXCEPT ![p] = t]
    /\ UNCHANGED <<up, players, objects, ready, rider, parent, fin, paid>>

(* The table may throw, after the driver has been told and before activeJob *)
(* is reset; Poll catches that.                                             *)
CancelJob(p) ==
    LET w == jobOf[p]
        t == task[w]
    IN /\ up
       /\ w # None
       /\ t # None
       /\ shown' = [shown EXCEPT ![p] = None]
       /\ ready' = ready \ {w}
       /\ torn' = TornBy(TradeOf(t))
       /\ \/ /\ offers' \in Added(t)
             /\ task' = [task EXCEPT ![w] = None]
          \/ /\ Broken(TradeOf(t))
             /\ UNCHANGED <<offers, task>>
       /\ UNCHANGED <<up, players, objects, rider, parent, fin, paid>>

(* GetById never returns null: a rider who has gone is ready, too.         *)
RiderReady(p) ==
    /\ up
    /\ Serves(p, "taxi")
    /\ task[jobOf[p]] # None
    /\ ready' = ready \cup {jobOf[p]}
    /\ UNCHANGED <<up, players, objects, task, tables, parent, fin, paid, shown>>

-----------------------------------------------------------------------------
(* The timer: HeavyUpdate of every job of JobManager.                      *)

(* A slip: objects that JobManager has dropped are updated still.           *)
AtWorkDropped == {w \in Worker : task[w] # None}

AtWork == {w \in Worker : Employed(w) /\ task[w] # None}
Taxis == {w \in AtWork : trade[w] = "taxi"}
RiderOf(w) == rider[task[w]]
RiderGone(w) == RiderOf(w) \notin online

(* Reading a component of a player who has gone throws.  `there` are the   *)
(* drivers near their destination, and slow enough.                        *)
Throws(w, there) ==
    \/ driver[w] \notin online
    \/ /\ w \in Taxis \ ready
       /\ RiderGone(w)
       /\ parent[driver[w]] # None
    \/ /\ w \in Taxis \cap ready \cap there
       /\ RiderGone(w)

PickedUp(w) == /\ parent[driver[w]] # None
               /\ parent[driver[w]] = parent[RiderOf(w)]
Arrived(w) == parent[driver[w]] # parent[RiderOf(w)]

Finished(there) ==
    {w \in AtWork \cap there : w \in Taxis => w \in ready /\ Arrived(w)}
Boarded(there) == {w \in Taxis \ ready : PickedUp(w)}

(* Nothing catches an exception of a timer on its way to the native server.*)
HeavyUpdateThrows(there) ==
    /\ up
    /\ \E w \in AtWork : Throws(w, there)
    /\ up' = FALSE
    /\ UNCHANGED <<players, objects, task, ready, tables, parent, fin, paid, shown>>

HeavyUpdate(there) ==
    /\ up
    /\ \A w \in AtWork : ~Throws(w, there)
    /\ task' = [w \in Worker |-> IF w \in Finished(there) THEN None ELSE task[w]]
    /\ ready' = (ready \cup Boarded(there)) \ Finished(there)
    /\ paid' = paid \cup {task[w] : w \in Finished(there)}
    /\ shown' = [p \in Player |->
                   IF jobOf[p] \in Finished(there) THEN None ELSE shown[p]]
    /\ UNCHANGED <<up, players, objects, tables, parent, fin>>

-----------------------------------------------------------------------------
(* The finalizer of an object: CancelJob on another thread.                *)

FinalizeIdle(w) ==
    /\ up
    /\ Former(w)
    /\ task[w] = None
    /\ fin = None
    /\ freed' = freed \cup {w}
    /\ UNCHANGED <<up, players, jobOf, trade, driver, task, ready, tables, parent,
                   fin, paid, shown>>

(* A slip: the player of a finalized job is not told.                      *)
BeginFinalizeSilently(w) ==
    /\ up
    /\ Former(w)
    /\ task[w] # None
    /\ fin = None
    /\ fin' = w
    /\ ready' = ready \ {w}
    /\ UNCHANGED <<up, players, objects, task, tables, parent, paid, shown>>

(* EndDelivery or EndTrip is sent to the player, if there still.           *)
BeginFinalize(w) ==
    /\ up
    /\ Former(w)
    /\ task[w] # None
    /\ fin = None
    /\ fin' = w
    /\ ready' = ready \ {w}
    /\ shown' = [shown EXCEPT ![driver[w]] = None]
    /\ UNCHANGED <<up, players, objects, task, tables, parent, paid>>

(* A slip: the finalizer does not cancel, and the task is lost.            *)
EndFinalizeOnly ==
    /\ up
    /\ fin # None
    /\ task' = [task EXCEPT ![fin] = None]
    /\ freed' = freed \cup {fin}
    /\ fin' = None
    /\ UNCHANGED <<up, players, jobOf, trade, driver, ready, tables, parent, paid, shown>>

(* An exception of the table is caught in the finalizer.                   *)
EndFinalize ==
    /\ up
    /\ fin # None
    /\ offers' \in {offers \cup {task[fin]}}
                   \cup (IF trade[fin] \in torn THEN {offers} ELSE {})
    /\ task' = [task EXCEPT ![fin] = None]
    /\ freed' = freed \cup {fin}
    /\ fin' = None
    /\ UNCHANGED <<up, players, jobOf, trade, driver, ready, rider, torn, parent,
                   paid, shown>>

-----------------------------------------------------------------------------
Next ==
    \/ \E p \in Player :
         \/ PlayerJoin(p)
         \/ OnPlayerLeave(p)
         \/ \E v \in Vehicle \cup {None} : Sit(p, v)
         \/ \E k \in Trade, w \in Worker : SetJob(p, k, w)
         \/ Quit(p)
         \/ \E f \in Fare : CreateJob(p, f)
         \/ \E t \in Task : AcceptJob(p, t)
         \/ CancelJob(p)
         \/ RiderReady(p)
    \/ \E there \in SUBSET AtWork :
         \/ HeavyUpdateThrows(there)
         \/ HeavyUpdate(there)
    \/ \E w \in Worker :
         \/ FinalizeIdle(w)
         \/ BeginFinalize(w)
    \/ EndFinalize

Spec == Init /\ [][Next]_vars

-----------------------------------------------------------------------------
Holds(w, t) == task[w] = t
Held(t) == \E w \in Worker : Holds(w, t)

(* A task is in one place: offered, with one job, or paid; none is lost and *)
(* none is done twice, whatever players cancel, quit or leave.  Only tables *)
(* that two threads used at once make an exception.  (MakeJobAvailable,     *)
(* AssignJob, CancelJob, the finalizers and HeavyUpdate.)                   *)
OnePlace ==
    \A t \in Task : TradeOf(t) \notin torn =>
        /\ t \in offers => ~Held(t) /\ t \notin paid
        /\ Held(t) => t \notin paid
        /\ \A v, w \in Worker : Holds(v, t) /\ Holds(w, t) => v = w
        /\ t \in Delivery \/ rider[t] # None => Held(t) \/ t \in offers \cup paid

(* What a driver is shown is a task that one of its jobs still has: nobody  *)
(* is left driving to a place that has no task.  (The Start and End calls   *)
(* of AcceptJob, CancelJob, HeavyUpdate and the finalizers.)                *)
ShownIsHeld ==
    \A p \in Player : shown[p] # None =>
        \E w \in Worker : driver[w] = p /\ Holds(w, shown[p])

(* What a task is for who sees no objects: torn with its table, paid, with  *)
(* an object that JobManager has or has dropped, offered, or not asked for. *)
Place(t) == IF TradeOf(t) \in torn THEN "torn"
            ELSE IF t \in paid    THEN "paid"
            ELSE IF \E w \in Worker : Holds(w, t) /\ Employed(w) THEN "driven"
            ELSE IF Held(t)       THEN "dropped"
            ELSE IF t \in offers  THEN "offered"
            ELSE "unasked"

DriverOf(t) == IF Place(t) \in {"driven", "dropped"}
               THEN driver[CHOOSE w \in Worker : Holds(w, t)] ELSE None

(* The plugin implements the pool: whatever is accepted, cancelled, quit,   *)
(* left or finalized, and however late the collector is, each task goes     *)
(* from hand to hand as the pool says, and only a driver at work is paid.   *)
(* (JobManager.cs, DeliveryDriver.cs, Taxi.cs.)                            *)
Pool == INSTANCE TaskPool WITH Player   <- Player,
                               Delivery <- Delivery,
                               Fare     <- Fare,
                               Nobody   <- None,
                               place    <- [t \in Task |-> Place(t)],
                               by       <- [t \in Task |-> DriverOf(t)]

ImplementsPool == Pool!PoolSpec

(* A rider is only ready for a ride that is on: no trip starts with the     *)
(* rider of an earlier one already aboard.  (isRiderReady of Taxi.)         *)
ReadyHasRide == \A w \in ready : trade[w] = "taxi" /\ task[w] # None

(* The server goes down for two reasons only: the rider of a ride has gone, *)
(* or a finalizer ran while players came or went.  In particular a driver   *)
(* who leaves is harmless.  (Taxi.HeavyUpdate, JobManager.OnPlayerLeave.)   *)
StaysUp == \/ up
           \/ fin # None
           \/ \E w \in Taxis : RiderGone(w)

(* What Taxi.HeavyUpdate means to do when the rider of an accepted ride has *)
(* gone ("Rider disappeared..."): the ride is given back.                   *)
LostRiderCancels ==
    [][(\E there \in SUBSET AtWork : HeavyUpdate(there) \/ HeavyUpdateThrows(there))
         => \A w \in Taxis \ ready : RiderGone(w) => task'[w] = None]_vars
=============================================================================
