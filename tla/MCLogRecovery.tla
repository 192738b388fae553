--------------------------- MODULE MCLogRecovery ---------------------------
(***************************************************************************)
(* Instances of LogRecovery for TLC: tuples of one byte, each transaction  *)
(* inserting its own, and pages with room for two of them.                 *)
(***************************************************************************)
EXTENDS LogRecovery

MCTuples == {<<1>>, <<2>>}
MCInserts == [t \in Txns |-> {<<t>>}]
=============================================================================
