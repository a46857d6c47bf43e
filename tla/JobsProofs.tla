----------------------------- MODULE JobsProofs -----------------------------
(* Theorems about Jobs, for any players, objects, deliveries and fares.    *)
EXTENDS Jobs, TLAPS

(* The object being finalized still has its task, and nobody works with it.*)
Finalizing ==
    fin # None => /\ trade[fin] # None
                  /\ task[fin] # None
                  /\ ~Employed(fin)
                  /\ fin \notin ready

OwnDriver == \A p \in Player : jobOf[p] # None => /\ trade[jobOf[p]] # None
                                                  /\ driver[jobOf[p]] = p

(* ShownIsHeld, with the object whose finalizer runs left out.             *)
ShownElsewhere ==
    \A p \in Player : shown[p] # None =>
        \E w \in Worker : w # fin /\ driver[w] = p /\ Holds(w, shown[p])

(* A fare nobody has asked for is nowhere.                                 *)
Unasked == \A f \in Fare : rider[f] = None => f \notin offers \cup paid /\ ~Held(f)

JobsInv == /\ TypeOK
           /\ Unasked
           /\ Finalizing
           /\ OwnDriver
           /\ OnePlace
           /\ ShownElsewhere
           /\ ReadyHasRide
           /\ StaysUp

-----------------------------------------------------------------------------
LEMMA JobsStart == Init => JobsInv
<1> SUFFICES ASSUME Init PROVE JobsInv
  OBVIOUS
<1> USE JobsAssumption DEF Init
<1>1. TypeOK
  BY DEF TypeOK, Task, Trade
<1>2. Finalizing /\ OwnDriver /\ ShownElsewhere
  BY DEF Finalizing, OwnDriver, ShownElsewhere
<1>3. OnePlace /\ Unasked
  BY DEF OnePlace, Unasked, Held, Holds, Task
<1>4. ReadyHasRide /\ StaysUp
  BY DEF ReadyHasRide, StaysUp
<1> QED
  BY <1>1, <1>2, <1>3, <1>4 DEF JobsInv

(* Types are kept by every action.                                         *)
LEMMA JobsTypes ==
  ASSUME TypeOK, Finalizing, OwnDriver, Next
  PROVE  TypeOK'
<1> USE JobsAssumption DEF TypeOK, players, objects, tables, Task, Trade, TradeOf
<1>1. ASSUME NEW p \in Player, PlayerJoin(p) PROVE TypeOK'
  BY <1>1 DEF PlayerJoin, LookupSurvives
<1>2. ASSUME NEW p \in Player, OnPlayerLeave(p) PROVE TypeOK'
  <2>1. \A q \in Player : /\ jobOf'[q] = (IF q = p THEN None ELSE jobOf[q])
                          /\ jobOf'[q] # None => q \in online'
    BY <1>2 DEF OnPlayerLeave
  <2> QED
    BY <1>2, <2>1 DEF OnPlayerLeave, LookupSurvives
<1>3. ASSUME NEW p \in Player, NEW v \in Vehicle \cup {None}, Sit(p, v) PROVE TypeOK'
  BY <1>3 DEF Sit
<1>4. ASSUME NEW p \in Player, NEW k \in Trade, NEW w \in Worker, SetJob(p, k, w)
      PROVE  TypeOK'
  <2>1. /\ jobOf' \in [Player -> Worker \cup {None}]
        /\ \A q \in Player : jobOf'[q] # None => q \in online'
    BY <1>4 DEF SetJob
  <2>2. /\ trade' \in [Worker -> Trade \cup {None}]
        /\ driver' \in [Worker -> Player \cup {None}]
        /\ \A x \in Worker : trade'[x] # None => driver'[x] # None
        /\ \A x \in Worker : task'[x] # None => trade'[x] = TradeOf(task'[x])
    BY <1>4 DEF SetJob
  <2> QED
    BY <1>4, <2>1, <2>2 DEF SetJob
<1>5. ASSUME NEW p \in Player, Quit(p) PROVE TypeOK'
  BY <1>5 DEF Quit
<1>6. ASSUME NEW p \in Player, NEW f \in Fare, CreateJob(p, f) PROVE TypeOK'
  BY <1>6 DEF CreateJob, Added, TornBy
<1>7. ASSUME NEW p \in Player, NEW t \in Task, AcceptJob(p, t) PROVE TypeOK'
  BY <1>7 DEF AcceptJob, Removed, TornBy, Serves, MayTake
<1>8. ASSUME NEW p \in Player, CancelJob(p) PROVE TypeOK'
  BY <1>8 DEF CancelJob, Added, TornBy
<1>9. ASSUME NEW p \in Player, RiderReady(p) PROVE TypeOK'
  BY <1>9 DEF RiderReady, Serves
<1>10. ASSUME NEW there \in SUBSET AtWork, HeavyUpdateThrows(there) PROVE TypeOK'
  BY <1>10 DEF HeavyUpdateThrows
<1>11. ASSUME NEW there \in SUBSET AtWork, HeavyUpdate(there) PROVE TypeOK'
  BY <1>11 DEF HeavyUpdate, Finished, Boarded, AtWork, Taxis
<1>12. ASSUME NEW w \in Worker, FinalizeIdle(w) \/ BeginFinalize(w) PROVE TypeOK'
  <2>1. CASE FinalizeIdle(w)
    BY <2>1 DEF FinalizeIdle
  <2>2. CASE BeginFinalize(w)
    <3>1. driver[w] \in Player
      BY <2>2 DEF BeginFinalize, Former
    <3> QED
      BY <2>2, <3>1 DEF BeginFinalize
  <2> QED
    BY <1>12, <2>1, <2>2
<1>13. ASSUME EndFinalize PROVE TypeOK'
  BY <1>13 DEF EndFinalize, Finalizing
<1> QED
  BY <1>1, <1>2, <1>3, <1>4, <1>5, <1>6, <1>7, <1>8, <1>9, <1>10, <1>11, <1>12, <1>13
     DEF Next

-----------------------------------------------------------------------------
(* The auxiliary invariants, step by step.                                 *)

LEMMA FinalizingKept ==
  ASSUME TypeOK, Finalizing, OwnDriver, Next
  PROVE  Finalizing'
<1> USE JobsAssumption DEF TypeOK, Finalizing, Employed, players, objects, tables
<1>1. ASSUME NEW p \in Player, PlayerJoin(p) PROVE Finalizing'
  BY <1>1 DEF PlayerJoin
<1>2. ASSUME NEW p \in Player, OnPlayerLeave(p) PROVE Finalizing'
  BY <1>2 DEF OnPlayerLeave
<1>3. ASSUME NEW p \in Player, NEW v \in Vehicle \cup {None}, Sit(p, v) PROVE Finalizing'
  BY <1>3 DEF Sit
<1>4. ASSUME NEW p \in Player, NEW k \in Trade, NEW w \in Worker, SetJob(p, k, w)
      PROVE  Finalizing'
  BY <1>4 DEF SetJob
<1>5. ASSUME NEW p \in Player, Quit(p) PROVE Finalizing'
  BY <1>5 DEF Quit
<1>6. ASSUME NEW p \in Player, NEW f \in Fare, CreateJob(p, f) PROVE Finalizing'
  BY <1>6 DEF CreateJob
<1>7. ASSUME NEW p \in Player, NEW t \in Task, AcceptJob(p, t) PROVE Finalizing'
  BY <1>7 DEF AcceptJob, Serves, MayTake
<1>8. ASSUME NEW p \in Player, CancelJob(p) PROVE Finalizing'
  BY <1>8 DEF CancelJob
<1>9. ASSUME NEW p \in Player, RiderReady(p) PROVE Finalizing'
  BY <1>9 DEF RiderReady, Serves
<1>10. ASSUME NEW there \in SUBSET AtWork, HeavyUpdateThrows(there) PROVE Finalizing'
  BY <1>10 DEF HeavyUpdateThrows
<1>11. ASSUME NEW there \in SUBSET AtWork, HeavyUpdate(there) PROVE Finalizing'
  BY <1>11 DEF HeavyUpdate, Finished, Boarded, AtWork, Taxis
<1>12. ASSUME NEW w \in Worker, FinalizeIdle(w) \/ BeginFinalize(w) PROVE Finalizing'
  BY <1>12 DEF FinalizeIdle, BeginFinalize, Former
<1>13. ASSUME EndFinalize PROVE Finalizing'
  BY <1>13 DEF EndFinalize
<1> QED
  BY <1>1, <1>2, <1>3, <1>4, <1>5, <1>6, <1>7, <1>8, <1>9, <1>10, <1>11, <1>12, <1>13
     DEF Next

LEMMA OwnDriverKept ==
  ASSUME TypeOK, OwnDriver, Next
  PROVE  OwnDriver'
<1> USE JobsAssumption DEF TypeOK, OwnDriver, players, objects, tables
<1>1. ASSUME NEW p \in Player, NEW k \in Trade, NEW w \in Worker, SetJob(p, k, w)
      PROVE  OwnDriver'
  BY <1>1 DEF SetJob
<1>2. ASSUME NEW p \in Player, OnPlayerLeave(p) \/ Quit(p) PROVE OwnDriver'
  BY <1>2 DEF OnPlayerLeave, Quit
<1>3. CASE UNCHANGED <<jobOf, trade, driver>>
  BY <1>3
<1> QED
  BY <1>1, <1>2, <1>3 DEF Next, PlayerJoin, Sit, CreateJob, AcceptJob, CancelJob,
     RiderReady, HeavyUpdateThrows, HeavyUpdate, FinalizeIdle, BeginFinalize, EndFinalize,
     Serves, MayTake

(* isRiderReady is reset wherever activeJob is.                            *)
LEMMA ReadyKept ==
  ASSUME TypeOK, Finalizing, OwnDriver, ReadyHasRide, Next
  PROVE  ReadyHasRide'
<1> USE JobsAssumption DEF TypeOK, ReadyHasRide, players, objects, tables
<1>1. ASSUME NEW p \in Player, NEW k \in Trade, NEW w \in Worker, SetJob(p, k, w)
      PROVE  ReadyHasRide'
  <2>1. \A x \in ready : x # w
    BY <1>1 DEF SetJob, Trade
  <2> QED
    BY <1>1, <2>1 DEF SetJob
<1>2. ASSUME NEW p \in Player, NEW t \in Task, AcceptJob(p, t) PROVE ReadyHasRide'
  <2>1. task' = [task EXCEPT ![jobOf[p]] = t] /\ t # None
    BY <1>2 DEF AcceptJob, Serves, MayTake
  <2>2. ready' = ready /\ trade' = trade
    BY <1>2 DEF AcceptJob, Serves, MayTake
  <2> QED
    BY <2>1, <2>2
<1>3. ASSUME NEW p \in Player, CancelJob(p) PROVE ReadyHasRide'
  BY <1>3 DEF CancelJob
<1>4. ASSUME NEW p \in Player, RiderReady(p) PROVE ReadyHasRide'
  BY <1>4 DEF RiderReady, Serves
<1>5. ASSUME NEW there \in SUBSET AtWork, HeavyUpdate(there) PROVE ReadyHasRide'
  BY <1>5 DEF HeavyUpdate, Boarded, Taxis, AtWork
<1>6. ASSUME NEW w \in Worker, BeginFinalize(w) PROVE ReadyHasRide'
  BY <1>6 DEF BeginFinalize
<1>7. ASSUME EndFinalize PROVE ReadyHasRide'
  BY <1>7 DEF EndFinalize, Finalizing
<1>8. CASE UNCHANGED <<trade, task, ready>>
  BY <1>8
<1> QED
  BY <1>1, <1>2, <1>3, <1>4, <1>5, <1>6, <1>7, <1>8 DEF Next, PlayerJoin,
     OnPlayerLeave, Sit, Quit, CreateJob, HeavyUpdateThrows, FinalizeIdle

(* No driver who works has left, so only a lost rider makes the tick throw. *)
LEMMA UpKept ==
  ASSUME TypeOK, OwnDriver, StaysUp, Next
  PROVE  StaysUp'
<1> USE JobsAssumption DEF TypeOK, StaysUp
<1>1. ASSUME NEW there \in SUBSET AtWork, HeavyUpdateThrows(there) PROVE StaysUp'
  <2>1. PICK w \in AtWork : Throws(w, there)
    BY <1>1 DEF HeavyUpdateThrows
  <2>2. driver[w] \in online
    BY DEF AtWork, Employed, OwnDriver
  <2>3. w \in Taxis /\ RiderGone(w)
    BY <2>1, <2>2 DEF Throws
  <2>4. w \in Taxis' /\ RiderGone(w)'
    BY <1>1, <2>3 DEF HeavyUpdateThrows, players, objects, tables, Taxis, AtWork,
       Employed, RiderGone, RiderOf
  <2> QED
    BY <2>4
<1>2. ASSUME NEW p \in Player, PlayerJoin(p) \/ OnPlayerLeave(p) PROVE StaysUp'
  BY <1>2 DEF PlayerJoin, OnPlayerLeave, LookupSurvives
<1>3. CASE up' = up /\ up
  BY <1>3
<1> QED
  BY <1>1, <1>2, <1>3 DEF Next, Sit, SetJob, Quit, CreateJob, AcceptJob, CancelJob,
     RiderReady, HeavyUpdate, FinalizeIdle, BeginFinalize, EndFinalize, Serves, MayTake

-----------------------------------------------------------------------------
(* One place per task.                                                     *)

LEMMA UnaskedKept ==
  ASSUME TypeOK, Finalizing, Unasked, Next
  PROVE  Unasked'
<1> USE JobsAssumption DEF TypeOK, Unasked, Held, Holds, tables, Task
<1>1. ASSUME NEW p \in Player, NEW f \in Fare, CreateJob(p, f) PROVE Unasked'
  BY <1>1 DEF CreateJob, Added
<1>2. ASSUME NEW p \in Player, NEW t \in Task, AcceptJob(p, t) PROVE Unasked'
  BY <1>2 DEF AcceptJob, Removed, Serves, MayTake
<1>3. ASSUME NEW p \in Player, CancelJob(p) PROVE Unasked'
  BY <1>3 DEF CancelJob, Added
<1>4. ASSUME NEW there \in SUBSET AtWork, HeavyUpdate(there) PROVE Unasked'
  BY <1>4 DEF HeavyUpdate, Finished, AtWork
<1>5. ASSUME EndFinalize PROVE Unasked'
  BY <1>5 DEF EndFinalize, Finalizing
<1>6. CASE UNCHANGED <<tables, task, paid>>
  BY <1>6
<1> QED
  BY <1>1, <1>2, <1>3, <1>4, <1>5, <1>6 DEF Next, PlayerJoin, OnPlayerLeave, Sit,
     SetJob, Quit, RiderReady, HeavyUpdateThrows, FinalizeIdle, BeginFinalize, Serves

LEMMA OnePlaceKept ==
  ASSUME TypeOK, Finalizing, Unasked, OnePlace, Next
  PROVE  OnePlace'
<1> SUFFICES ASSUME NEW x \in Task, TradeOf(x) \notin torn'
             PROVE  /\ x \in offers' => ~Held(x)' /\ x \notin paid'
                    /\ Held(x)' => x \notin paid'
                    /\ \A v, w \in Worker : Holds(v, x)' /\ Holds(w, x)' => v = w
                    /\ x \in Delivery \/ rider'[x] # None
                         => Held(x)' \/ x \in offers' \cup paid'
  BY DEF OnePlace
<1> DEFINE Kept == /\ x \in offers' => ~Held(x)' /\ x \notin paid'
                   /\ Held(x)' => x \notin paid'
                   /\ \A v, w \in Worker : Holds(v, x)' /\ Holds(w, x)' => v = w
                   /\ x \in Delivery \/ rider'[x] # None
                        => Held(x)' \/ x \in offers' \cup paid'
<1>0. torn \subseteq torn'
  BY DEF Next, PlayerJoin, OnPlayerLeave, Sit, SetJob, Quit, CreateJob, AcceptJob,
     CancelJob, RiderReady, HeavyUpdateThrows, HeavyUpdate, FinalizeIdle,
     BeginFinalize, EndFinalize, TornBy, tables, Serves, MayTake
<1>a. /\ x \in offers => ~Held(x) /\ x \notin paid
      /\ Held(x) => x \notin paid
      /\ \A v, w \in Worker : Holds(v, x) /\ Holds(w, x) => v = w
      /\ x \in Delivery \/ rider[x] # None => Held(x) \/ x \in offers \cup paid
  BY <1>0 DEF OnePlace
<1> USE JobsAssumption DEF TypeOK, Held, Holds, tables
<1>1. ASSUME NEW p \in Player, NEW f \in Fare, CreateJob(p, f) PROVE Kept
  <2>1. CASE x = f
    <3>1. TradeOf(x) = "taxi" /\ x \notin Delivery
      BY <2>1 DEF TradeOf
    <3>2. ~Held(x)' /\ x \notin paid'
      BY <1>1, <2>1 DEF CreateJob, Unasked
    <3>3. x \in offers'
      BY <1>1, <2>1, <3>1 DEF CreateJob, Added, Broken
    <3> QED
      BY <3>2, <3>3
  <2>2. CASE x # f
    BY <1>1, <1>a, <2>2 DEF CreateJob, Added
  <2> QED
    BY <2>1, <2>2
<1>2. ASSUME NEW p \in Player, NEW t \in Task, AcceptJob(p, t) PROVE Kept
  BY <1>2, <1>a DEF AcceptJob, Removed, Broken, TornBy, Serves, MayTake
<1>3. ASSUME NEW p \in Player, CancelJob(p) PROVE Kept
  BY <1>3, <1>a DEF CancelJob, Added, Broken, TornBy
<1>4. ASSUME NEW there \in SUBSET AtWork, HeavyUpdate(there) PROVE Kept
  BY <1>4, <1>a DEF HeavyUpdate, Finished, AtWork
<1>5. ASSUME EndFinalize PROVE Kept
  BY <1>5, <1>a, <1>0 DEF EndFinalize, Finalizing
<1>6. CASE UNCHANGED <<tables, task, paid>>
  BY <1>6, <1>a
<1> QED
  BY <1>1, <1>2, <1>3, <1>4, <1>5, <1>6 DEF Next, PlayerJoin, OnPlayerLeave, Sit,
     SetJob, Quit, RiderReady, HeavyUpdateThrows, FinalizeIdle, BeginFinalize, Serves

-----------------------------------------------------------------------------
(* What is shown is held: a task ends for its holder together with its sign,*)
(* or in the finalizer, which has taken the sign down before.              *)
LEMMA ShownKept ==
  ASSUME TypeOK, Finalizing, OwnDriver, ShownElsewhere, Next
  PROVE  ShownElsewhere'
<1> USE JobsAssumption DEF TypeOK, Holds, players, objects, tables
<1>1. ASSUME NEW p \in Player, OnPlayerLeave(p) PROVE ShownElsewhere'
  BY <1>1 DEF OnPlayerLeave, ShownElsewhere
<1>2. ASSUME NEW p \in Player, NEW k \in Trade, NEW w \in Worker, SetJob(p, k, w)
      PROVE  ShownElsewhere'
  <2>1. task[w] = None
    BY <1>2 DEF SetJob, TradeOf, Trade
  <2>2. \A x \in Worker : x # w => driver'[x] = driver[x]
    BY <1>2 DEF SetJob
  <2> QED
    BY <1>2, <2>1, <2>2 DEF SetJob, ShownElsewhere
<1>3. ASSUME NEW p \in Player, NEW t \in Task, AcceptJob(p, t) PROVE ShownElsewhere'
  <2> DEFINE w == jobOf[p]
  <2>1. /\ w \in Worker
        /\ w # fin
        /\ driver[w] = p
        /\ task[w] = None
    BY <1>3 DEF AcceptJob, Finalizing, Employed, OwnDriver, Serves, MayTake
  <2>2. /\ fin' = fin
        /\ driver' = driver
        /\ task'[w] = t
        /\ \A x \in Worker : x # w => task'[x] = task[x]
        /\ shown'[p] = t
        /\ \A q \in Player : q # p => shown'[q] = shown[q]
    BY <1>3, <2>1 DEF AcceptJob, Serves, MayTake
  <2> QED
    BY <2>1, <2>2 DEF ShownElsewhere
<1>4. ASSUME NEW p \in Player, CancelJob(p) PROVE ShownElsewhere'
  <2>1. driver[jobOf[p]] = p
    BY <1>4 DEF CancelJob, OwnDriver
  <2>2. /\ fin' = fin
        /\ driver' = driver
        /\ \A x \in Worker : x # jobOf[p] => task'[x] = task[x]
        /\ shown'[p] = None
        /\ \A q \in Player : q # p => shown'[q] = shown[q]
    BY <1>4 DEF CancelJob
  <2> QED
    BY <2>1, <2>2 DEF ShownElsewhere
<1>5. ASSUME NEW there \in SUBSET AtWork, HeavyUpdate(there) PROVE ShownElsewhere'
  <2> SUFFICES ASSUME NEW p \in Player, shown'[p] # None
               PROVE  \E w \in Worker : /\ w # fin'
                                        /\ driver'[w] = p
                                        /\ task'[w] = shown'[p]
    BY DEF ShownElsewhere
  <2>1. jobOf[p] \notin Finished(there) /\ shown'[p] = shown[p]
    BY <1>5 DEF HeavyUpdate
  <2>2. PICK w \in Worker : w # fin /\ driver[w] = p /\ task[w] = shown[p]
    BY <2>1 DEF ShownElsewhere
  <2>3. w \notin Finished(there)
    BY <2>1, <2>2 DEF Finished, AtWork, Employed, OwnDriver
  <2> QED
    BY <1>5, <2>1, <2>2, <2>3 DEF HeavyUpdate
<1>6. ASSUME NEW w \in Worker, BeginFinalize(w) PROVE ShownElsewhere'
  <2>1. driver[w] \in Player
    BY <1>6 DEF BeginFinalize, Former
  <2> QED
    BY <1>6, <2>1 DEF BeginFinalize, ShownElsewhere
<1>7. ASSUME EndFinalize PROVE ShownElsewhere'
  BY <1>7 DEF EndFinalize, ShownElsewhere
<1>8. CASE UNCHANGED <<task, driver, fin, shown>>
  BY <1>8 DEF ShownElsewhere
<1> QED
  BY <1>1, <1>2, <1>3, <1>4, <1>5, <1>6, <1>7, <1>8 DEF Next, PlayerJoin, Sit, Quit,
     CreateJob, RiderReady, HeavyUpdateThrows, FinalizeIdle, Serves

-----------------------------------------------------------------------------
LEMMA JobsStep == ASSUME JobsInv, [Next]_vars PROVE JobsInv'
<1>1. CASE Next
  <2>1. TypeOK' /\ Finalizing' /\ OwnDriver'
    BY <1>1, JobsTypes, FinalizingKept, OwnDriverKept DEF JobsInv
  <2>2. Unasked' /\ OnePlace'
    BY <1>1, UnaskedKept, OnePlaceKept DEF JobsInv
  <2>3. ShownElsewhere' /\ ReadyHasRide' /\ StaysUp'
    BY <1>1, ShownKept, ReadyKept, UpKept DEF JobsInv
  <2> QED
    BY <2>1, <2>2, <2>3 DEF JobsInv
<1>2. CASE UNCHANGED vars
  BY <1>2 DEF vars, JobsInv, TypeOK, Finalizing, OwnDriver, Unasked, OnePlace,
     ShownElsewhere, ReadyHasRide, StaysUp, Employed, Held, Holds, Taxis, AtWork,
     RiderGone, RiderOf
<1> QED
  BY <1>1, <1>2

LEMMA JobsAlways == Spec => []JobsInv
  BY JobsStart, JobsStep, PTL DEF Spec

(* Every reachable state of the jobs has the declared types.               *)
THEOREM JobsTypeCorrect == Spec => []TypeOK
<1>1. JobsInv => TypeOK
  BY DEF JobsInv
<1> QED
  BY <1>1, JobsAlways, PTL

(* A delivery or fare is in one place, unless two threads have used its    *)
(* table at the same time.                                                 *)
THEOREM TasksAreKept == Spec => []OnePlace
<1>1. JobsInv => OnePlace
  BY DEF JobsInv
<1> QED
  BY <1>1, JobsAlways, PTL

(* A driver is only shown a task that one of its jobs has.                 *)
THEOREM SignsAreRight == Spec => []ShownIsHeld
<1>1. JobsInv => ShownIsHeld
  BY DEF JobsInv, ShownElsewhere, ShownIsHeld
<1> QED
  BY <1>1, JobsAlways, PTL

(* Only a lost rider, or a finalizer, can bring the server down.           *)
THEOREM OnlyLostRidersCrash == Spec => []StaysUp
<1>1. JobsInv => StaysUp
  BY DEF JobsInv
<1> QED
  BY <1>1, JobsAlways, PTL
-----------------------------------------------------------------------------
(* What the invariant says of places: a task that is not torn has one      *)
(* holder at most, and no holder once it is offered or paid.               *)
Placed ==
    \A t \in Task :
        /\ TradeOf(t) \in torn => Place(t) = "torn" /\ DriverOf(t) = None
        /\ TradeOf(t) \notin torn =>
            /\ t \in paid => Place(t) = "paid" /\ DriverOf(t) = None
            /\ \A w \in Worker : Holds(w, t) =>
                 /\ Place(t) = IF Employed(w) THEN "driven" ELSE "dropped"
                 /\ DriverOf(t) = driver[w]
            /\ ~Held(t) /\ t \notin paid =>
                 /\ Place(t) = IF t \in offers THEN "offered" ELSE "unasked"
                 /\ DriverOf(t) = None

LEMMA PlacedAlways == JobsInv => Placed
<1> SUFFICES ASSUME JobsInv, NEW t \in Task
             PROVE  /\ TradeOf(t) \in torn => Place(t) = "torn" /\ DriverOf(t) = None
                    /\ TradeOf(t) \notin torn =>
                        /\ t \in paid => Place(t) = "paid" /\ DriverOf(t) = None
                        /\ \A w \in Worker : Holds(w, t) =>
                             /\ Place(t) = IF Employed(w) THEN "driven" ELSE "dropped"
                             /\ DriverOf(t) = driver[w]
                        /\ ~Held(t) /\ t \notin paid =>
                             /\ Place(t) = IF t \in offers THEN "offered" ELSE "unasked"
                             /\ DriverOf(t) = None
  BY DEF Placed
<1>1. CASE TradeOf(t) \in torn
  BY <1>1 DEF Place, DriverOf
<1>2. CASE TradeOf(t) \notin torn
  <2>1. /\ t \in offers => ~Held(t) /\ t \notin paid
        /\ Held(t) => t \notin paid
        /\ \A v, w \in Worker : Holds(v, t) /\ Holds(w, t) => v = w
    BY <1>2 DEF JobsInv, OnePlace
  <2>2. CASE t \in paid
    BY <1>2, <2>1, <2>2 DEF Place, DriverOf, Held
  <2>3. ASSUME t \notin paid, NEW w \in Worker, Holds(w, t)
        PROVE  /\ Place(t) = IF Employed(w) THEN "driven" ELSE "dropped"
               /\ DriverOf(t) = driver[w]
    <3>1. Place(t) = IF Employed(w) THEN "driven" ELSE "dropped"
      BY <1>2, <2>1, <2>3 DEF Place, Held
    <3>2. w = CHOOSE v \in Worker : Holds(v, t)
      BY <2>1, <2>3
    <3> QED
      BY <3>1, <3>2 DEF DriverOf
  <2>4. CASE ~Held(t) /\ t \notin paid
    BY <1>2, <2>4 DEF Place, DriverOf, Held
  <2> QED
    BY <1>2, <2>1, <2>2, <2>3, <2>4
<1> QED
  BY <1>1, <1>2

(* A task of which nothing changes stays where it is.                      *)
LEMMA PlaceKept ==
    ASSUME Placed, Placed', NEW t \in Task,
           TradeOf(t) \in torn <=> TradeOf(t) \in torn',
           TradeOf(t) \notin torn => /\ t \in paid <=> t \in paid'
                                     /\ t \in offers <=> t \in offers',
           \A w \in Worker : Holds(w, t)' <=> Holds(w, t),
           \A w \in Worker : Holds(w, t) => /\ Employed(w)' <=> Employed(w)
                                            /\ driver'[w] = driver[w]
    PROVE  Place(t)' = Place(t) /\ DriverOf(t)' = DriverOf(t)
<1> DEFINE Says(place, by) ==
             /\ TradeOf(t) \in torn => place = "torn" /\ by = None
             /\ TradeOf(t) \notin torn =>
                 /\ t \in paid => place = "paid" /\ by = None
                 /\ \A w \in Worker : Holds(w, t) =>
                      /\ place = IF Employed(w) THEN "driven" ELSE "dropped"
                      /\ by = driver[w]
                 /\ ~(\E w \in Worker : Holds(w, t)) /\ t \notin paid =>
                      /\ place = IF t \in offers THEN "offered" ELSE "unasked"
                      /\ by = None
<1>1. Says(Place(t), DriverOf(t))
  BY DEF Placed, Held
<1>2. /\ TradeOf(t) \in torn' => Place(t)' = "torn" /\ DriverOf(t)' = None
      /\ TradeOf(t) \notin torn' =>
          /\ t \in paid' => Place(t)' = "paid" /\ DriverOf(t)' = None
          /\ \A w \in Worker : Holds(w, t)' =>
               /\ Place(t)' = IF Employed(w)' THEN "driven" ELSE "dropped"
               /\ DriverOf(t)' = driver'[w]
          /\ ~(\E w \in Worker : Holds(w, t)') /\ t \notin paid' =>
               /\ Place(t)' = IF t \in offers' THEN "offered" ELSE "unasked"
               /\ DriverOf(t)' = None
  BY DEF Placed, Held, TradeOf
<1>3. Says(Place(t)', DriverOf(t)')
  BY <1>2
<1>4. \A x, y, d, e : Says(x, d) /\ Says(y, e) => x = y /\ d = e
  OBVIOUS
<1> HIDE DEF Says
<1> QED
  BY <1>1, <1>3, <1>4

(* The moves of the pool, task by task.                                    *)
LEMMA PoolMoved ==
    ASSUME NEW T \in SUBSET Task, NEW to,
           \A t \in T : Place(t)' = to /\ DriverOf(t)' = None,
           \A t \in Task \ T : Place(t)' = Place(t) /\ DriverOf(t)' = DriverOf(t)
    PROVE  Pool!Moved(T, to)
  BY DEF Pool!Moved, Pool!Task, Task

LEMMA PoolStill ==
    ASSUME \A t \in Task : Place(t)' = Place(t) /\ DriverOf(t)' = DriverOf(t)
    PROVE  UNCHANGED Pool!poolVars
  BY DEF Pool!poolVars

(* A table that is torn by this step, or was before, takes all its tasks.  *)
LEMMA PoolTorn ==
    ASSUME Placed, Placed', NEW x \in Task, torn' = TornBy(TradeOf(x)), Broken(TradeOf(x)),
           UNCHANGED <<jobOf, driver, paid>>,
           \A t \in Task : TradeOf(t) # TradeOf(x) =>
               /\ t \in offers <=> t \in offers'
               /\ \A w \in Worker : Holds(w, t)' <=> Holds(w, t)
    PROVE  \E T \in {Delivery, Fare} : Pool!Tear(T)
<1> DEFINE T == IF x \in Delivery THEN Delivery ELSE Fare
<1>1. T \in SUBSET Task /\ T \in {Delivery, Fare}
  BY DEF Task
<1>2. \A t \in Task : t \in T <=> TradeOf(t) = TradeOf(x)
  BY JobsAssumption DEF Task, TradeOf
<1>3. torn' \in {torn, torn \cup {TradeOf(x)}} /\ TradeOf(x) \in torn'
  BY DEF TornBy, Broken
<1> HIDE DEF T
<1>4. ASSUME NEW t \in T PROVE Place(t)' = "torn" /\ DriverOf(t)' = None
  <2>1. t \in Task /\ TradeOf(t) = TradeOf(x)
    BY <1>1, <1>2
  <2>2. TradeOf(t) \in torn'
    BY <1>3, <2>1
  <2> QED
    BY <2>1, <2>2 DEF Placed, TradeOf
<1>5. ASSUME NEW t \in Task \ T
      PROVE  Place(t)' = Place(t) /\ DriverOf(t)' = DriverOf(t)
  <2>1. TradeOf(t) # TradeOf(x)
    BY <1>2
  <2>2. \A w \in Worker : /\ Employed(w)' <=> Employed(w)
                          /\ driver'[w] = driver[w]
    BY DEF Employed
  <2> QED
    BY <1>3, <2>1, <2>2, PlaceKept
<1> QED
  BY <1>1, <1>4, <1>5, PoolMoved DEF Pool!Tear

(* Quitting and leaving drop what the player drives.                       *)
LEMMA PoolDrops ==
    ASSUME JobsInv, Placed, Placed', NEW p \in Player, OnPlayerLeave(p) \/ Quit(p)
    PROVE  Pool!Drop(p)
<1> USE JobsAssumption
<1>1. /\ jobOf' = [jobOf EXCEPT ![p] = None]
      /\ UNCHANGED <<driver, task, paid, offers, torn>>
  BY DEF OnPlayerLeave, Quit, tables
<1>2. /\ \A q \in Player : jobOf[q] # None => driver[jobOf[q]] = q
      /\ jobOf \in [Player -> Worker \cup {None}]
  BY DEF JobsInv, OwnDriver, TypeOK
<1>3. ASSUME NEW t \in Task PROVE DriverOf(t)' = DriverOf(t)
                               /\ Place(t)' = IF Place(t) = "driven" /\ DriverOf(t) = p
                                              THEN "dropped" ELSE Place(t)
  <2>1. CASE TradeOf(t) \notin torn /\ \E w \in Worker : Holds(w, t) /\ Employed(w) /\ driver[w] = p
    <3>1. PICK w \in Worker : Holds(w, t) /\ Employed(w) /\ driver[w] = p
      BY <2>1
    <3>2. Place(t) = "driven" /\ DriverOf(t) = p
      BY <2>1, <3>1 DEF Placed
    <3>3. ~Employed(w)'
      BY <1>1, <1>2, <3>1 DEF Employed
    <3>4. Holds(w, t)' /\ TradeOf(t) \notin torn' /\ driver'[w] = p
      BY <1>1, <2>1, <3>1 DEF Holds
    <3>5. Place(t)' = "dropped" /\ DriverOf(t)' = p
      BY <3>3, <3>4 DEF Placed, TradeOf
    <3> QED
      BY <3>2, <3>5
  <2>2. CASE ~(TradeOf(t) \notin torn /\ \E w \in Worker : Holds(w, t) /\ Employed(w) /\ driver[w] = p)
    <3>1. ~(Place(t) = "driven" /\ DriverOf(t) = p)
      <4>1. CASE TradeOf(t) \in torn
        BY <4>1 DEF Placed
      <4>2. CASE TradeOf(t) \notin torn /\ t \in paid
        BY <4>2 DEF Placed
      <4>3. CASE TradeOf(t) \notin torn /\ ~Held(t) /\ t \notin paid
        BY <4>3 DEF Placed
      <4>4. CASE TradeOf(t) \notin torn /\ Held(t)
        <5>1. PICK w \in Worker : Holds(w, t)
          BY <4>4 DEF Held
        <5>2. /\ Place(t) = IF Employed(w) THEN "driven" ELSE "dropped"
              /\ DriverOf(t) = driver[w]
          BY <4>4, <5>1 DEF Placed
        <5> QED
          BY <2>2, <4>4, <5>1, <5>2
      <4> QED
        BY <4>1, <4>2, <4>3, <4>4
    <3>2. CASE TradeOf(t) \in torn
      BY <1>1, <3>1, <3>2 DEF Placed, TradeOf
    <3>3. CASE TradeOf(t) \notin torn
      <4>1. \A w \in Worker : Holds(w, t) => (Employed(w)' <=> Employed(w))
        BY <1>1, <1>2, <2>2, <3>3 DEF Employed
      <4>2. \A w \in Worker : /\ Holds(w, t)' <=> Holds(w, t)
                              /\ driver'[w] = driver[w]
        BY <1>1 DEF Holds
      <4> QED
        BY <1>1, <3>1, <4>1, <4>2, PlaceKept
    <3> QED
      BY <3>2, <3>3
  <2> QED
    BY <2>1, <2>2
<1> QED
  BY <1>3 DEF Pool!Drop, Pool!DrivenBy, Pool!Task, Task

LEMMA PoolAsks ==
    ASSUME JobsInv, Placed, Placed', NEW p \in Player, NEW f \in Fare, CreateJob(p, f)
    PROVE  Pool!PoolNext
<1> USE JobsAssumption
<1>1. /\ rider[f] = None /\ offers' \in Added(f) /\ torn' = TornBy("taxi")
      /\ UNCHANGED <<jobOf, driver, task, paid>>
  BY DEF CreateJob, objects
<1>2. f \in Task /\ TradeOf(f) = "taxi"
  BY DEF Task, TradeOf
<1>3. \A t \in Task : t # f => (t \in offers <=> t \in offers')
  BY <1>1 DEF Added
<1>4. \A t \in Task, w \in Worker : Holds(w, t)' <=> Holds(w, t)
  BY <1>1 DEF Holds
<1>5. CASE Broken("taxi")
  <2>1. \A t \in Task : TradeOf(t) # TradeOf(f) => t # f
    OBVIOUS
  <2> QED
    BY <1>1, <1>2, <1>3, <1>4, <1>5, <2>1, PoolTorn DEF Pool!PoolNext
<1>6. CASE ~Broken("taxi")
  <2>1. torn' = torn /\ "taxi" \notin torn /\ offers' = offers \cup {f}
    BY <1>1, <1>2, <1>6 DEF Broken, TornBy, Added
  <2>2. f \notin offers \cup paid /\ ~Held(f)
    BY <1>1 DEF JobsInv, Unasked
  <2>3. Place(f) = "unasked"
    BY <1>2, <2>1, <2>2 DEF Placed
  <2>4. ~Held(f)' /\ f \notin paid' /\ f \in offers' /\ TradeOf(f) \notin torn'
    BY <1>1, <1>2, <1>4, <2>1, <2>2 DEF Held
  <2>5. Place(f)' = "offered" /\ DriverOf(f)' = None
    BY <1>2, <2>4 DEF Placed, TradeOf
  <2>6. \A w \in Worker : (Employed(w)' <=> Employed(w)) /\ driver'[w] = driver[w]
    BY <1>1 DEF Employed
  <2>7. \A t \in Task \ {f} : Place(t)' = Place(t) /\ DriverOf(t)' = DriverOf(t)
    BY <1>1, <1>3, <1>4, <2>1, <2>6, PlaceKept
  <2>8. Pool!Moved({f}, "offered")
    BY <1>2, <2>5, <2>7, PoolMoved
  <2> QED
    BY <1>2, <2>3, <2>8 DEF Pool!PoolNext, Pool!Ask
<1> QED
  BY <1>5, <1>6

LEMMA PoolTakes ==
    ASSUME JobsInv, Placed, Placed', NEW p \in Player, NEW t \in Task, AcceptJob(p, t)
    PROVE  Pool!PoolNext
<1> USE JobsAssumption
<1>0. PICK w \in Worker : w = jobOf[p]
  BY DEF AcceptJob, Serves, JobsInv, TypeOK
<1>1. /\ task[w] = None /\ t \in offers
      /\ task' = [task EXCEPT ![w] = t]
      /\ offers' \in Removed(t)
      /\ torn' = TornBy(TradeOf(t))
      /\ UNCHANGED <<jobOf, driver, paid>>
  BY <1>0 DEF AcceptJob, Serves, MayTake, objects
<1>2. task \in [Worker -> Task \cup {None}] /\ None \notin Task
  BY DEF JobsInv, TypeOK, Task
<1>3. driver[w] = p
  BY <1>0 DEF JobsInv, OwnDriver
<1>4. Employed(w)
  BY <1>0 DEF Employed
<1>5. \A s \in Task \ {t} : /\ s \in offers <=> s \in offers'
                            /\ \A x \in Worker : Holds(x, s)' <=> Holds(x, s)
  BY <1>1, <1>2 DEF Removed, Holds
<1>6. \A x \in Worker : (Employed(x)' <=> Employed(x)) /\ driver'[x] = driver[x]
  BY <1>1 DEF Employed
<1>7. CASE Broken(TradeOf(t))
  <2>1. \A s \in Task : TradeOf(s) # TradeOf(t) => s \in Task \ {t}
    OBVIOUS
  <2> QED
    BY <1>1, <1>5, <1>7, <2>1, PoolTorn DEF Pool!PoolNext
<1>8. CASE ~Broken(TradeOf(t))
  <2>1. torn' = torn /\ TradeOf(t) \notin torn
    BY <1>1, <1>8 DEF Broken, TornBy
  <2>2. t \notin paid /\ ~Held(t)
    BY <1>1, <2>1 DEF JobsInv, OnePlace
  <2>3. Place(t) = "offered"
    BY <1>1, <2>1, <2>2 DEF Placed
  <2>4. Holds(w, t)' /\ Employed(w)' /\ driver'[w] = p /\ TradeOf(t) \notin torn'
    BY <1>1, <1>2, <1>3, <1>4, <1>6, <2>1 DEF Holds
  <2>5. Place(t)' = "driven" /\ DriverOf(t)' = p
    BY <1>1, <2>4 DEF Placed, TradeOf
  <2>6. \A s \in Task \ {t} : Place(s)' = Place(s) /\ DriverOf(s)' = DriverOf(s)
    BY <1>1, <1>5, <1>6, <2>1, PlaceKept
  <2>7. ASSUME NEW s \in Task, Place(s) = "driven", DriverOf(s) = p PROVE FALSE
    <3>1. TradeOf(s) \notin torn /\ s \notin paid /\ Held(s)
      BY <2>7 DEF Placed
    <3>2. PICK x \in Worker : Holds(x, s)
      BY <3>1 DEF Held
    <3>3. Employed(x) /\ driver[x] = p
      BY <2>7, <3>1, <3>2 DEF Placed
    <3>4. x = w
      BY <1>0, <3>3 DEF Employed, JobsInv, OwnDriver
    <3> QED
      BY <1>1, <1>2, <3>2, <3>4 DEF Holds
  <2>8. Pool!Take(p, t)
    BY <2>3, <2>5, <2>6, <2>7 DEF Pool!Take, Pool!DrivenBy, Pool!Task, Task
  <2> QED
    BY <2>8 DEF Pool!PoolNext, Pool!Task, Task
<1> QED
  BY <1>7, <1>8

LEMMA PoolGivesBack ==
    ASSUME JobsInv, Placed, Placed', NEW p \in Player, CancelJob(p)
    PROVE  Pool!PoolNext
<1> USE JobsAssumption
<1>1. PICK w \in Worker : w = jobOf[p]
  BY DEF CancelJob, JobsInv, TypeOK
<1>2. PICK t \in Task : t = task[w]
  BY <1>1 DEF CancelJob, JobsInv, TypeOK, Task
<1>3. /\ torn' = TornBy(TradeOf(t))
      /\ \/ offers' \in Added(t) /\ task' = [task EXCEPT ![w] = None]
         \/ Broken(TradeOf(t)) /\ UNCHANGED <<offers, task>>
      /\ UNCHANGED <<jobOf, driver, paid>>
  BY <1>1, <1>2 DEF CancelJob, objects
<1>4. task \in [Worker -> Task \cup {None}] /\ None \notin Task
  BY DEF JobsInv, TypeOK, Task
<1>5. \A s \in Task \ {t} : /\ s \in offers <=> s \in offers'
                            /\ \A x \in Worker : Holds(x, s)' <=> Holds(x, s)
  BY <1>2, <1>3, <1>4 DEF Added, Holds
<1>6. \A x \in Worker : (Employed(x)' <=> Employed(x)) /\ driver'[x] = driver[x]
  BY <1>3 DEF Employed
<1>7. CASE Broken(TradeOf(t))
  <2>1. \A s \in Task : TradeOf(s) # TradeOf(t) => s \in Task \ {t}
    OBVIOUS
  <2> QED
    BY <1>3, <1>5, <1>7, <2>1, PoolTorn DEF Pool!PoolNext
<1>8. CASE ~Broken(TradeOf(t))
  <2>1. /\ torn' = torn /\ TradeOf(t) \notin torn
        /\ offers' = offers \cup {t} /\ task' = [task EXCEPT ![w] = None]
    BY <1>3, <1>8 DEF Broken, TornBy, Added
  <2>2. Holds(w, t) /\ Employed(w)
    BY <1>1, <1>2 DEF Holds, Employed
  <2>3. Place(t) = "driven"
    BY <2>1, <2>2 DEF Placed
  <2>4. t \notin paid /\ \A x \in Worker : Holds(x, t) => x = w
    BY <2>1, <2>2 DEF JobsInv, OnePlace, Held
  <2>5. t \notin paid' /\ ~Held(t)' /\ t \in offers' /\ TradeOf(t) \notin torn'
    BY <1>3, <1>4, <2>1, <2>4 DEF Held, Holds
  <2>6. Place(t)' = "offered" /\ DriverOf(t)' = None
    BY <2>5 DEF Placed, TradeOf
  <2>7. \A s \in Task \ {t} : Place(s)' = Place(s) /\ DriverOf(s)' = DriverOf(s)
    BY <1>3, <1>5, <1>6, <2>1, PlaceKept
  <2>8. Pool!Moved({t}, "offered")
    BY <2>6, <2>7, PoolMoved
  <2> QED
    BY <2>3, <2>8 DEF Pool!PoolNext, Pool!GiveBack, Pool!Task, Task
<1> QED
  BY <1>7, <1>8

(* A tick pays what those at work have finished, if its table is whole.    *)
LEMMA PoolPays ==
    ASSUME JobsInv, Placed, Placed', NEW there \in SUBSET AtWork, HeavyUpdate(there)
    PROVE  Pool!PoolNext
<1> USE JobsAssumption
<1> DEFINE T == {t \in Task : TradeOf(t) \notin torn /\ \E w \in Finished(there) : Holds(w, t)}
<1>1. /\ task' = [w \in Worker |-> IF w \in Finished(there) THEN None ELSE task[w]]
      /\ paid' = paid \cup {task[w] : w \in Finished(there)}
      /\ UNCHANGED <<jobOf, driver, offers, torn>>
  BY DEF HeavyUpdate, objects, tables
<1>2. task \in [Worker -> Task \cup {None}] /\ None \notin Task
  BY DEF JobsInv, TypeOK, Task
<1>3. Finished(there) \subseteq Worker /\ \A w \in Finished(there) : Employed(w)
  BY DEF Finished, AtWork
<1>4. ASSUME NEW t \in T
      PROVE  Place(t) = "driven" /\ Place(t)' = "paid" /\ DriverOf(t)' = None
  <2>1. PICK w \in Finished(there) : Holds(w, t)
    OBVIOUS
  <2>2. t \in Task /\ TradeOf(t) \notin torn /\ TradeOf(t) \notin torn'
    BY <1>1
  <2>3. Place(t) = "driven"
    BY <1>3, <2>1, <2>2 DEF Placed
  <2>4. t \in paid'
    BY <1>1, <2>1 DEF Holds
  <2> QED
    BY <2>2, <2>3, <2>4 DEF Placed, TradeOf
<1>5. ASSUME NEW t \in Task \ T
      PROVE  Place(t)' = Place(t) /\ DriverOf(t)' = DriverOf(t)
  <2>1. CASE TradeOf(t) \in torn
    BY <1>1, <2>1 DEF Placed, TradeOf
  <2>2. CASE TradeOf(t) \notin torn
    <3>1. \A w \in Finished(there) : task[w] # t
      BY <2>2 DEF Holds
    <3>2. /\ t \in paid <=> t \in paid'
          /\ \A w \in Worker : Holds(w, t)' <=> Holds(w, t)
      BY <1>1, <1>2, <1>3, <3>1 DEF Holds
    <3>3. \A w \in Worker : (Employed(w)' <=> Employed(w)) /\ driver'[w] = driver[w]
      BY <1>1 DEF Employed
    <3> QED
      BY <1>1, <3>2, <3>3, PlaceKept
  <2> QED
    BY <2>1, <2>2
<1>6. T \in SUBSET Task
  OBVIOUS
<1> HIDE DEF T
<1>7. Pool!Moved(T, "paid")
  BY <1>4, <1>5, <1>6, PoolMoved
<1>8. Pool!Pay(T)
  BY <1>4, <1>6, <1>7 DEF Pool!Pay, Pool!Task, Task
<1> QED
  BY <1>6, <1>8 DEF Pool!PoolNext, Pool!Task, Task

LEMMA PoolFinalizes ==
    ASSUME JobsInv, Placed, Placed', EndFinalize
    PROVE  [Pool!PoolNext]_Pool!poolVars
<1> USE JobsAssumption
<1>1. PICK w \in Worker : w = fin /\ ~Employed(w)
  BY DEF EndFinalize, JobsInv, TypeOK, Finalizing
<1>2. PICK t \in Task : t = task[w] /\ TradeOf(t) = trade[w]
  BY <1>1 DEF EndFinalize, JobsInv, TypeOK, Finalizing, Task
<1>3. /\ offers' \in {offers \cup {t}} \cup (IF TradeOf(t) \in torn THEN {offers} ELSE {})
      /\ task' = [task EXCEPT ![w] = None]
      /\ UNCHANGED <<jobOf, driver, paid, torn>>
  BY <1>1, <1>2 DEF EndFinalize
<1>4. task \in [Worker -> Task \cup {None}] /\ None \notin Task
  BY DEF JobsInv, TypeOK, Task
<1>5. ASSUME NEW s \in Task \ {t}
      PROVE  Place(s)' = Place(s) /\ DriverOf(s)' = DriverOf(s)
  <2>1. /\ s \in offers <=> s \in offers'
        /\ \A x \in Worker : Holds(x, s)' <=> Holds(x, s)
    BY <1>2, <1>3, <1>4 DEF Holds
  <2>2. \A x \in Worker : (Employed(x)' <=> Employed(x)) /\ driver'[x] = driver[x]
    BY <1>3 DEF Employed
  <2> QED
    BY <1>3, <2>1, <2>2, PlaceKept
<1>6. CASE TradeOf(t) \in torn
  <2>1. Place(t)' = Place(t) /\ DriverOf(t)' = DriverOf(t)
    BY <1>3, <1>6 DEF Placed, TradeOf
  <2> QED
    BY <1>5, <2>1, PoolStill
<1>7. CASE TradeOf(t) \notin torn
  <2>1. Holds(w, t)
    BY <1>2 DEF Holds
  <2>2. Place(t) = "dropped"
    BY <1>1, <1>7, <2>1 DEF Placed
  <2>3. t \notin paid /\ \A x \in Worker : Holds(x, t) => x = w
    BY <1>7, <2>1 DEF JobsInv, OnePlace, Held
  <2>4. t \notin paid' /\ ~Held(t)' /\ t \in offers' /\ TradeOf(t) \notin torn'
    BY <1>3, <1>4, <1>7, <2>3 DEF Held, Holds
  <2>5. Place(t)' = "offered" /\ DriverOf(t)' = None
    BY <2>4 DEF Placed, TradeOf
  <2>6. Pool!Moved({t}, "offered")
    BY <1>5, <2>5, PoolMoved
  <2> QED
    BY <2>2, <2>6 DEF Pool!PoolNext, Pool!GiveBack, Pool!Task, Task
<1> QED
  BY <1>6, <1>7

(* All other steps leave every task where it is.                           *)
LEMMA PoolRests ==
    ASSUME JobsInv, Placed, Placed', UNCHANGED <<task, offers, torn, paid>>,
           \A w \in Worker : task[w] # None => /\ Employed(w)' <=> Employed(w)
                                               /\ driver'[w] = driver[w]
    PROVE  UNCHANGED Pool!poolVars
<1>1. ASSUME NEW t \in Task
      PROVE  Place(t)' = Place(t) /\ DriverOf(t)' = DriverOf(t)
  <2>1. t # None
    BY JobsAssumption
  <2>2. \A w \in Worker : /\ Holds(w, t)' <=> Holds(w, t)
                          /\ Holds(w, t) => task[w] # None
    BY <2>1 DEF Holds
  <2> QED
    BY <2>2, PlaceKept
<1> QED
  BY <1>1, PoolStill

LEMMA PoolStep ==
    ASSUME JobsInv, Placed, Placed', [Next]_vars
    PROVE  [Pool!PoolNext]_Pool!poolVars
<1>1. ASSUME NEW p \in Player, OnPlayerLeave(p) \/ Quit(p) PROVE Pool!PoolNext
  BY <1>1, PoolDrops DEF Pool!PoolNext
<1>2. ASSUME NEW p \in Player, NEW k \in Trade, NEW w \in Worker, SetJob(p, k, w)
      PROVE  UNCHANGED Pool!poolVars
  <2>1. task[w] = None
    BY <1>2, JobsAssumption DEF SetJob, JobsInv, TypeOK, TradeOf, Trade
  <2>2. ASSUME NEW x \in Worker, task[x] # None
        PROVE  (Employed(x)' <=> Employed(x)) /\ driver'[x] = driver[x]
    <3>1. x # w /\ x # None
      BY <2>1, <2>2, JobsAssumption
    <3>2. \A q \in Player : jobOf'[q] = x <=> jobOf[q] = x
      BY <1>2, <3>1 DEF SetJob, JobsInv, TypeOK
    <3> QED
      BY <1>2, <3>1, <3>2 DEF SetJob, Employed, JobsInv, TypeOK
  <2> QED
    BY <1>2, <2>2, PoolRests DEF SetJob, tables
<1>3. ASSUME NEW p \in Player, NEW f \in Fare, CreateJob(p, f) PROVE Pool!PoolNext
  BY <1>3, PoolAsks
<1>4. ASSUME NEW p \in Player, NEW t \in Task, AcceptJob(p, t) PROVE Pool!PoolNext
  BY <1>4, PoolTakes
<1>5. ASSUME NEW p \in Player, CancelJob(p) PROVE Pool!PoolNext
  BY <1>5, PoolGivesBack
<1>6. ASSUME NEW there \in SUBSET AtWork, HeavyUpdate(there) PROVE Pool!PoolNext
  BY <1>6, PoolPays
<1>7. ASSUME EndFinalize PROVE [Pool!PoolNext]_Pool!poolVars
  BY <1>7, PoolFinalizes
<1>8. CASE UNCHANGED <<jobOf, driver, task, offers, torn, paid>>
  BY <1>8, PoolRests DEF Employed
<1>9. CASE UNCHANGED vars
  BY <1>8, <1>9 DEF vars
<1> QED
  BY <1>1, <1>2, <1>3, <1>4, <1>5, <1>6, <1>7, <1>8, <1>9 DEF Next, PlayerJoin, Sit,
     RiderReady, HeavyUpdateThrows, FinalizeIdle, BeginFinalize, objects, tables

(* The job plugin implements the pool of tasks: each goes from the table to *)
(* a player and back, or is paid once, to a player at work with it, as long *)
(* as no two threads have used its table at the same time.                 *)
THEOREM TasksGoAround == Spec => ImplementsPool
<1>1. Init => Pool!PoolInit
  <2> SUFFICES ASSUME Init PROVE Pool!PoolInit
    OBVIOUS
  <2>1. JobsInv /\ Placed
    BY JobsStart, PlacedAlways
  <2>2. ASSUME NEW t \in Task
        PROVE  /\ Place(t) = IF t \in Delivery THEN "offered" ELSE "unasked"
               /\ DriverOf(t) = None
    <3>1. TradeOf(t) \notin torn /\ t \notin paid /\ ~Held(t)
      BY JobsAssumption DEF Init, Held, Holds, Task
    <3>2. offers = Delivery
      BY DEF Init
    <3> QED
      BY <2>1, <3>1, <3>2 DEF Placed
  <2> QED
    BY <2>2 DEF Pool!PoolInit, Pool!Task, Task
<1>2. JobsInv /\ Placed /\ Placed' /\ [Next]_vars => [Pool!PoolNext]_Pool!poolVars
  BY PoolStep
<1> QED
  BY <1>1, <1>2, JobsAlways, PlacedAlways, PTL DEF Spec, ImplementsPool, Pool!PoolSpec
=============================================================================
