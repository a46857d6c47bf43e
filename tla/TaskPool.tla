------------------------------ MODULE TaskPool ------------------------------
(***************************************************************************)
(* What the job plugin promises of its deliveries and fares, with nothing  *)
(* said of job objects, tables, calls or finalizers.  A task is driven by  *)
(* one player at a time, who drives no other one, and is paid at most      *)
(* once, to one who drives it still.  What a player drops by quitting or   *)
(* leaving is neither paid nor taken until it is offered again.  Two       *)
(* threads that use a table at once may tear it; nothing is promised of    *)
(* its tasks from then on.                                                 *)
(***************************************************************************)
CONSTANTS
    Player,
    Delivery,  \* tasks that are offered from the start
    Fare,      \* tasks that somebody has to ask for
    Nobody

VARIABLES
    place,  \* place[t]: what has become of task t
    by      \* by[t]: the player who drives or has dropped t

poolVars == <<place, by>>

Task  == Delivery \cup Fare
Place == {"unasked", "offered", "driven", "dropped", "paid", "torn"}

PoolInit ==
    /\ place = [t \in Task |-> IF t \in Delivery THEN "offered" ELSE "unasked"]
    /\ by = [t \in Task |-> Nobody]

(* All of T come to one place, and nobody drives them any more.            *)
Moved(T, to) ==
    /\ place' = [t \in Task |-> IF t \in T THEN to ELSE place[t]]
    /\ by' = [t \in Task |-> IF t \in T THEN Nobody ELSE by[t]]

DrivenBy(p) == {t \in Task : place[t] = "driven" /\ by[t] = p}

Ask(f) == place[f] = "unasked" /\ Moved({f}, "offered")

Take(p, t) ==
    /\ place[t] = "offered"
    /\ DrivenBy(p) = {}
    /\ place' = [place EXCEPT ![t] = "driven"]
    /\ by' = [by EXCEPT ![t] = p]

GiveBack(t) == place[t] \in {"driven", "dropped"} /\ Moved({t}, "offered")

Drop(p) ==
    /\ place' = [t \in Task |-> IF t \in DrivenBy(p) THEN "dropped" ELSE place[t]]
    /\ UNCHANGED by

Pay(T) == (\A t \in T : place[t] = "driven") /\ Moved(T, "paid")

Tear(T) == Moved(T, "torn")

PoolNext ==
    \/ \E f \in Fare : Ask(f)
    \/ \E p \in Player : Drop(p) \/ \E t \in Task : Take(p, t)
    \/ \E t \in Task : GiveBack(t)
    \/ \E T \in SUBSET Task : Pay(T)
    \/ \E T \in {Delivery, Fare} : Tear(T)

PoolSpec == PoolInit /\ [][PoolNext]_poolVars
=============================================================================
