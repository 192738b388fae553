----------------------- MODULE MCLinearProbeHashTable -----------------------
(***************************************************************************)
(* Instances of LinearProbeHashTable for TLC: two keys with two values     *)
(* each, one more pair than the three buckets on two pages can hold.  The  *)
(* keys' probe paths overlap and wrap around; Resize moves one of them.    *)
(***************************************************************************)
EXTENDS LinearProbeHashTable

MCHash == [k \in Keys |-> IF k = 1 THEN 1 ELSE 5]
=============================================================================
