--------------------------- MODULE MCStorageCalls ---------------------------
(* StorageCalls for TLC: entries differ by their terms alone and snapshots *)
(* carry no data, since storage copies payloads without looking at them.   *)
EXTENDS StorageCalls, TLC
CONSTANTS p1, c1, c2
MCPayload == {p1}
MCSnapData == {NoData}
Symmetry == Permutations(Confs)
=============================================================================
