--------------------------- MODULE MCManagerTasks ---------------------------
(* Small instances of ManagerTasks: store s1 of rep1 in the west, managed  *)
(* by mgr1; mgr2 manages the east.                                         *)
EXTENDS ManagerTasks, TLC

MCRole == [u \in Users |-> IF u \in {"mgr1", "mgr2"} THEN "manager" ELSE "rep"]
MCUserTerritory == [u \in Users |-> IF u = "mgr2" THEN "east" ELSE "west"]
MCStoreRep == [s \in Stores |-> "rep1"]
MCStoreTerritory == [s \in Stores |-> "west"]

RequestSymmetry == Permutations(Requests)
=============================================================================
