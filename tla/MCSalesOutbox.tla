--------------------------- MODULE MCSalesOutbox ---------------------------
(***************************************************************************)
(* Instances of SalesOutbox for TLC.  With two stores, s2 is a sale of store  *)
(* B and the others are of store A.                                         *)
(***************************************************************************)
EXTENDS SalesOutbox, TLC

CONSTANTS s1, s2, s3, storeA, storeB

OneStore == [s \in Sales |-> storeA]
TwoStores == [s \in Sales |-> IF s = s2 THEN storeB ELSE storeA]
TwoPlaces == 1..2
ThreePlaces == 1..3

\* Drains and request slots are interchangeable, and no safety property names
\* one of them.
Interchangeable == Permutations(Drains) \cup Permutations(Requests)
=============================================================================
