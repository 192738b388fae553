--------------------------- MODULE MCClockReplacer ---------------------------
(* TLC instance of ClockReplacer: a pool of a few frames. *)
EXTENDS ClockReplacer
=============================================================================
