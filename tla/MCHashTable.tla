---------------------------- MODULE MCHashTable ----------------------------
(***************************************************************************)
(* An instance of HashTable: four names, three of which share a bucket     *)
(* until the table has grown, and two of which always do.                  *)
(***************************************************************************)
EXTENDS HashTable

CONSTANTS k1, k2, k3, k4, v

MCHash == [k \in Keys |-> CASE k = k1 -> 0 [] k = k2 -> 2 [] k = k3 -> 8 [] k = k4 -> 5]
=============================================================================
