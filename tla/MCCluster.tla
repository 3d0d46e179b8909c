----------------------------- MODULE MCCluster -----------------------------
(* Cluster for TLC: servers and PUTs are interchangeable. *)
EXTENDS Cluster, TLC
CONSTANTS MaxTermMemory, MaxTermDisk, MaxIndexMemory, MaxIndexDisk
MCPayload == Ids \cup {Empty}
MCMaxTerm ==
    [b \in Backends |-> IF b = "disk" THEN MaxTermDisk ELSE MaxTermMemory]
MCMaxIndex ==
    [b \in Backends |-> IF b = "disk" THEN MaxIndexDisk ELSE MaxIndexMemory]
Symmetry == Permutations(Server) \cup Permutations(Ids)
=============================================================================
