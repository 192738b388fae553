------------------------------ MODULE Replacer ------------------------------
(***************************************************************************)
(* What the Replacer interface (include/buffer/replacer.h) promises, with  *)
(* no replacement policy: a set of frames that may be victimized.  Victim  *)
(* removes any one of them and reports it, or reports that there is none.  *)
(***************************************************************************)
EXTENDS Integers

CONSTANT Frames        \* frame_id_t values the replacer tracks

NoFrame == -1          \* Victim returned false: no frame was reported

VARIABLES evictable,   \* the frames Victim may choose from
          victim       \* what the last call of Victim reported

rvars == <<evictable, victim>>

Init == evictable = {} /\ victim = NoFrame

Pin(f) == evictable' = evictable \ {f} /\ UNCHANGED victim

Unpin(f) == evictable' = evictable \union {f} /\ UNCHANGED victim

Victim ==
    \/ evictable = {} /\ victim' = NoFrame /\ UNCHANGED evictable
    \/ \E f \in evictable : evictable' = evictable \ {f} /\ victim' = f

Next == Victim \/ \E f \in Frames : Pin(f) \/ Unpin(f)

Spec == Init /\ [][Next]_rvars
=============================================================================
