--------------------------- MODULE MCTieredStorage ---------------------------
(* Instance of TieredStorage for TLC. *)
EXTENDS TieredStorage, TLC

CONSTANTS t1, t2, v1, v2, w1, w2, k1, k2

MCPutValues == [k \in {k1, k2} |-> IF k = k1 THEN {v1, v2} ELSE {w1, w2}]

StorageSymmetry ==
    Permutations({t1, t2}) \cup Permutations({v1, v2}) \cup Permutations({w1, w2})
=============================================================================
