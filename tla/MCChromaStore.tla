----------------------------- MODULE MCChromaStore -----------------------------
(* Small instances of ChromaStore for TLC. *)
EXTENDS ChromaStoreInv, TLC

CONSTANTS r1, r2

MCRows == {r1, r2}
(* Two inventories, so that a synchronization may find its records active *)
(* already; with Capacity 1 the larger one takes two batches.             *)
MCSmallInventories == {{r1}, {r1, r2}}
(* The empty inventory is indexed and searched without a query. *)
MCInventories == {{}, {r1, r2}}

TokenSymmetry == Permutations(Tokens)
================================================================================
