-------------------------- MODULE MCSaleSyncBatch --------------------------
(* Instances of SaleSyncBatch for TLC: two sales of one store. *)
EXTENDS SaleSyncBatch

CONSTANTS s1, s2, storeA

OneStore == [s \in Sales |-> storeA]
=============================================================================
