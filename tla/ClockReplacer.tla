---------------------------- MODULE ClockReplacer ----------------------------
(***************************************************************************)
(* buffer/clock_replacer.cpp.  Every method holds latch_ from its first to *)
(* its last line, so Pin and Unpin are single actions.  Victim is modelled *)
(* one iteration of its while(true) loop at a time, with `sweeping` saying *)
(* that it holds latch_ and keeps the other methods out.                   *)
(***************************************************************************)
EXTENDS Integers, FiniteSets

CONSTANT NumPages      \* num_pages, the size of the buffer pool

ASSUME NumPagesAssumption == NumPages \in Nat \ {0}

Frames == 0 .. NumPages - 1

NoFrame == -1

VARIABLES
    size_,        \* number of frames in the replacer
    clock_,       \* per frame, the exist bit and the reference bit
    clock_hand_,  \* position of the hand
    sweeping,     \* Victim is in its loop
    victim,       \* what the last call of Victim reported
    entry         \* auxiliary: clock_ and clock_hand_ when Victim entered its loop

vars == <<size_, clock_, clock_hand_, sweeping, victim, entry>>

Cell == [exists : BOOLEAN, ref : BOOLEAN]

EmptyCell == [exists |-> FALSE, ref |-> FALSE]

\* The frames that are in the replacer.
Exists == {f \in Frames : clock_[f].exists}

TypeOK ==
    /\ size_ \in 0 .. NumPages
    /\ clock_ \in [Frames -> Cell]
    /\ clock_hand_ \in Frames
    /\ sweeping \in BOOLEAN
    /\ victim \in Frames \union {NoFrame}
    /\ entry \in [clock : [Frames -> Cell], hand : Frames]

Init ==
    /\ size_ = 0
    /\ clock_ = [f \in Frames |-> EmptyCell]
    /\ clock_hand_ = 0
    /\ sweeping = FALSE
    /\ victim = NoFrame
    /\ entry = [clock |-> clock_, hand |-> 0]
-----------------------------------------------------------------------------
\* Mutants of the definitions below.
PinAlwaysCounts(f) == size_ - 1
AfterUnpinNoRef(f) == [exists |-> TRUE, ref |-> FALSE]
AfterHandNoWrap == IF clock_hand_ = NumPages - 1 THEN clock_hand_ ELSE clock_hand_ + 1
PassedKeepsRef == clock_
TakenKeepsExist == clock_

\* size_ after Pin: line 62 decrements only when the frame is present.
SizeAfterPin(f) == IF clock_[f].exists THEN size_ - 1 ELSE size_

\* size_ after Unpin.
SizeAfterUnpin(f) == IF clock_[f].exists THEN size_ ELSE size_ + 1

\* The cell Unpin leaves behind: present, with its reference bit set.
AfterUnpin(f) == [exists |-> TRUE, ref |-> TRUE]

Pin(f) ==
    /\ ~sweeping
    /\ size_' = SizeAfterPin(f)
    /\ clock_' = [clock_ EXCEPT ![f] = EmptyCell]
    /\ UNCHANGED <<clock_hand_, sweeping, victim, entry>>

Unpin(f) ==
    /\ ~sweeping
    /\ size_' = SizeAfterUnpin(f)
    /\ clock_' = [clock_ EXCEPT ![f] = AfterUnpin(f)]
    /\ UNCHANGED <<clock_hand_, sweeping, victim, entry>>

\* Victim returns false at once when the replacer is empty.
VictimEmpty ==
    /\ ~sweeping
    /\ size_ = 0
    /\ victim' = NoFrame
    /\ UNCHANGED <<size_, clock_, clock_hand_, sweeping, entry>>

VictimEnter ==
    /\ ~sweeping
    /\ size_ # 0
    /\ sweeping' = TRUE
    /\ entry' = [clock |-> clock_, hand |-> clock_hand_]
    /\ UNCHANGED <<size_, clock_, clock_hand_, victim>>

\* Lines 52-54: the hand moves on and wraps.
AfterHand == IF clock_hand_ + 1 = NumPages THEN 0 ELSE clock_hand_ + 1

\* clock_ once the hand has passed a frame that is not taken.
Passed == [clock_ EXCEPT ![clock_hand_].ref = FALSE]

\* clock_ once the frame under the hand has been taken.
Taken == [clock_ EXCEPT ![clock_hand_].exists = FALSE]

\* An iteration over an absent frame: only the hand moves.
SweepSkip ==
    /\ sweeping
    /\ ~clock_[clock_hand_].exists
    /\ clock_hand_' = AfterHand
    /\ UNCHANGED <<size_, clock_, sweeping, victim, entry>>

\* An iteration over a referenced frame: it gets its second chance.
SweepPass ==
    /\ sweeping
    /\ clock_[clock_hand_].exists
    /\ clock_[clock_hand_].ref
    /\ clock_' = Passed
    /\ clock_hand_' = AfterHand
    /\ UNCHANGED <<size_, sweeping, victim, entry>>

\* The last iteration: the frame is the victim and the hand stays on it.
SweepTake ==
    /\ sweeping
    /\ clock_[clock_hand_].exists
    /\ ~clock_[clock_hand_].ref
    /\ victim' = clock_hand_
    /\ clock_' = Taken
    /\ size_' = size_ - 1
    /\ sweeping' = FALSE
    /\ UNCHANGED <<clock_hand_, entry>>

Sweep == SweepSkip \/ SweepPass \/ SweepTake

Next ==
    \/ VictimEmpty
    \/ VictimEnter
    \/ Sweep
    \/ \E f \in Frames : Pin(f) \/ Unpin(f)

Spec == Init /\ [][Next]_vars

\* The thread inside Victim owns latch_ and is never descheduled for ever.
FairSpec == Spec /\ WF_vars(Sweep)
-----------------------------------------------------------------------------
(***************************************************************************)
(* Properties.                                                             *)
(***************************************************************************)

\* size_, which Victim and the buffer pool use to decide that nothing can be
\* evicted, is the number of frames whose exist bit is set.
SizeCountsFrames == size_ = Cardinality(Exists)

\* A reference bit is set only for a frame in the replacer, and Victim loops
\* only while there is a frame to find: the loop of line 39 has a goal.
SweepHasGoal ==
    /\ \A f \in Frames : clock_[f].ref => clock_[f].exists
    /\ sweeping => Exists # {}

\* Distance the hand travels from h to f.
Distance(h, f) == (f - h + NumPages) % NumPages

Nearest(h, S) == CHOOSE f \in S : \A g \in S : Distance(h, f) <= Distance(h, g)

\* The policy of clock_replacer.h, as a function of the clock before the call:
\* the first unreferenced frame from the hand, or the first frame if all are
\* referenced.
Policy(c, h) ==
    LET present == {f \in Frames : c[f].exists}
        fresh   == {f \in present : ~c[f].ref}
    IN  Nearest(h, IF fresh # {} THEN fresh ELSE present)

\* The bits the policy leaves: frames passed on the way lose their reference.
PolicyClock(c, h) ==
    LET v == Policy(c, h)
        full == \A f \in Frames : c[f].exists => c[f].ref
    IN  [f \in Frames |->
            [exists |-> c[f].exists /\ f # v,
             ref    |-> c[f].ref /\ ~full /\ Distance(h, f) > Distance(h, v)]]

\* When Victim leaves its loop, the frame it reports and every bit it leaves
\* are those of the documented policy, computed from the state it started in.
SweepFollowsPolicy ==
    [][sweeping /\ ~sweeping' =>
          /\ victim' = Policy(entry.clock, entry.hand)
          /\ clock_' = PolicyClock(entry.clock, entry.hand)]_vars

\* The while(true) of Victim always ends.
VictimReturns == sweeping ~> ~sweeping

\* ClockReplacer implements the Replacer interface.
Abstract == INSTANCE Replacer WITH evictable <- Exists

ImplementsReplacer == Abstract!Spec
=============================================================================
