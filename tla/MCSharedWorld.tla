---------------------------- MODULE MCSharedWorld ----------------------------
(* Small instances of SharedWorld for TLC.                                 *)
EXTENDS SharedWorld, TLC

CONSTANTS a, b, n1, n2, n3, v1, v2, k1, k2

TwoClients   == {a, b}
TwoConns     == {n1, n2}
ThreeConns   == {n1, n2, n3}
TwoVehicles  == {v1, v2}
TwoCells     == {k1, k2}

(* Clients, handles, vehicle ids and cells are interchangeable.            *)
Symmetric == Permutations(Client) \cup Permutations(Conn)
             \cup Permutations(Vehicle) \cup Permutations(Cell)
=============================================================================
