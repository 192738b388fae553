---------------------------- MODULE MCBufferPool ----------------------------
(***************************************************************************)
(* Instances of BufferPool for TLC: the .cfg files named after it.         *)
(***************************************************************************)
EXTENDS BufferPool
=============================================================================
