----------------------------- MODULE MCOrderHITL -----------------------------
(* Small instances of OrderHITL.  Store s1 belongs to rep1 in the west      *)
(* territory; mgr1 manages the west, mgr2 the east, where s2 of rep2 is.    *)
EXTENDS OrderHITL, TLC

MCStores == IF "rep2" \in Users THEN {"s1", "s2"} ELSE {"s1"}
MCTerritories == {"west", "east"}
MCHashes == {"h1", "h2"}

MCRole == [u \in Users |-> IF u = "root" THEN "admin"
                           ELSE IF u \in {"mgr1", "mgr2"} THEN "manager" ELSE "rep"]
MCUserTerritory == [u \in Users |-> IF u \in {"rep2", "mgr2"} THEN "east" ELSE "west"]
MCStoreRep == [s \in Stores |-> IF s = "s1" THEN "rep1" ELSE "rep2"]
MCStoreTerritory == [s \in Stores |-> IF s = "s1" THEN "west" ELSE "east"]
MCDigest == [p \in Users \X Stores \X Items |-> IF p[3] = "i1" THEN "h1" ELSE "h2"]

RequestSymmetry == Permutations(Requests)
=============================================================================
