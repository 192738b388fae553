----------------------------- MODULE MCRWLatch -----------------------------
(***************************************************************************)
(* An instance of RWLatch for TLC.                                         *)
(***************************************************************************)
EXTENDS RWLatch
=============================================================================
