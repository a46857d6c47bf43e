------------------------------- MODULE MCJobs -------------------------------
(* Small instances of Jobs for TLC.                                        *)
EXTENDS Jobs, TLC

CONSTANTS p1, p2, w1, w2, w3, d1, d2, f1, f2, v1

TwoPlayers   == {p1, p2}
TwoWorkers   == {w1, w2}
ThreeWorkers == {w1, w2, w3}
OneDelivery  == {d1}
TwoDeliveries == {d1, d2}
OneFare      == {f1}
TwoFares     == {f1, f2}
OneVehicle   == {v1}

Symmetric == Permutations(Player) \cup Permutations(Worker)
             \cup Permutations(Delivery) \cup Permutations(Fare)
=============================================================================
