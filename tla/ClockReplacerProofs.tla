------------------------- MODULE ClockReplacerProofs -------------------------
(***************************************************************************)
(* For every pool size: the type invariant of ClockReplacer, its counting  *)
(* invariant, and that it implements the Replacer interface.               *)
(***************************************************************************)
EXTENDS ClockReplacer, FiniteSetTheorems, TLAPS

\* TypeOK is not inductive alone: a decrement of size_ stays above zero only
\* because size_ counts frames.  SweepHasGoal rests on the count as well: Victim
\* enters its loop when size_ is not zero.
IInv == TypeOK /\ SizeCountsFrames /\ SweepHasGoal

\* The set of frames in the replacer is finite and no larger than the pool.
LEMMA ExistsFinite ==
    /\ IsFiniteSet(Exists)
    /\ Cardinality(Exists) \in 0 .. NumPages
    /\ Cardinality(Exists) = 0 <=> Exists = {}
<1>1. /\ IsFiniteSet(Frames)
      /\ Cardinality(Frames) = NumPages
  BY FS_Interval, NumPagesAssumption DEF Frames
<1>2. Exists \in SUBSET Frames
  BY DEF Exists
<1>3. IsFiniteSet(Exists) /\ Cardinality(Exists) <= NumPages
  BY <1>1, <1>2, FS_Subset
<1>4. Cardinality(Exists) \in Nat
  BY <1>3, FS_CardinalityType
<1>5. QED
  BY <1>3, <1>4, FS_EmptySet, NumPagesAssumption

\* Removing a frame from the replacer (Pin, or the end of Victim) removes it
\* from Exists and changes the count accordingly.
LEMMA RemoveFrame ==
    ASSUME NEW f \in Frames, clock_ \in [Frames -> Cell], clock_' \in [Frames -> Cell],
           ~clock_'[f].exists,
           \A g \in Frames \ {f} : clock_'[g].exists = clock_[g].exists
    PROVE  /\ Exists' = Exists \ {f}
           /\ Cardinality(Exists') = IF clock_[f].exists THEN Cardinality(Exists) - 1
                                                         ELSE Cardinality(Exists)
<1>1. Exists' = Exists \ {f}
  BY DEF Exists
<1>2. f \in Exists <=> clock_[f].exists
  BY DEF Exists
<1>3. QED
  BY <1>1, <1>2, ExistsFinite, FS_RemoveElement

\* Adding a frame (Unpin).
LEMMA AddFrame ==
    ASSUME NEW f \in Frames, clock_ \in [Frames -> Cell], clock_' \in [Frames -> Cell],
           clock_'[f].exists,
           \A g \in Frames \ {f} : clock_'[g].exists = clock_[g].exists
    PROVE  /\ Exists' = Exists \union {f}
           /\ Cardinality(Exists') = IF clock_[f].exists THEN Cardinality(Exists)
                                                         ELSE Cardinality(Exists) + 1
<1>1. Exists' = Exists \union {f}
  BY DEF Exists
<1>2. f \in Exists <=> clock_[f].exists
  BY DEF Exists
<1>3. QED
  BY <1>1, <1>2, ExistsFinite, FS_AddElement

\* Moving the hand keeps it on the clock.
LEMMA HandStaysOnClock ==
    ASSUME clock_hand_ \in Frames
    PROVE  AfterHand \in Frames
BY NumPagesAssumption DEF AfterHand, Frames

\* IInv is inductive.
LEMMA Inductive == IInv /\ [Next]_vars => IInv'
<1> SUFFICES ASSUME IInv, [Next]_vars
             PROVE  IInv'
  OBVIOUS
<1> USE DEF IInv, TypeOK, SizeCountsFrames, SweepHasGoal
<1>0. /\ Exists' \in SUBSET Frames
      /\ Cardinality(Exists') \in 0 .. NumPages
      /\ Cardinality(Exists') = 0 <=> Exists' = {}
  <2>1. /\ IsFiniteSet(Frames)
        /\ Cardinality(Frames) = NumPages
    BY FS_Interval, NumPagesAssumption DEF Frames
  <2>2. Exists' \in SUBSET Frames
    BY DEF Exists
  <2>3. IsFiniteSet(Exists') /\ Cardinality(Exists') <= NumPages
    BY <2>1, <2>2, FS_Subset
  <2>4. Cardinality(Exists') \in Nat
    BY <2>3, FS_CardinalityType
  <2>5. QED
    BY <2>2, <2>3, <2>4, FS_EmptySet, NumPagesAssumption
<1>1. ASSUME NEW f \in Frames, Pin(f)
      PROVE  IInv'
  <2>1. clock_' \in [Frames -> Cell] /\ ~clock_'[f].exists /\ ~clock_'[f].ref
    BY <1>1 DEF Pin, EmptyCell, Cell
  <2>2. \A g \in Frames \ {f} : clock_'[g] = clock_[g]
    BY <1>1 DEF Pin
  <2>3. size_' = Cardinality(Exists')
    BY <1>1, <2>1, <2>2, RemoveFrame, ExistsFinite DEF Pin, SizeAfterPin
  <2>4. \A g \in Frames : clock_'[g].ref => clock_'[g].exists
    BY <2>1, <2>2
  <2>5. QED
    BY <1>0, <1>1, <2>1, <2>3, <2>4 DEF Pin
<1>2. ASSUME NEW f \in Frames, Unpin(f)
      PROVE  IInv'
  <2>1. clock_' \in [Frames -> Cell] /\ clock_'[f].exists
    BY <1>2 DEF Unpin, AfterUnpin, Cell
  <2>2. \A g \in Frames \ {f} : clock_'[g] = clock_[g]
    BY <1>2 DEF Unpin
  <2>3. size_' = Cardinality(Exists')
    BY <1>2, <2>1, <2>2, AddFrame, ExistsFinite DEF Unpin, SizeAfterUnpin
  <2>4. \A g \in Frames : clock_'[g].ref => clock_'[g].exists
    BY <2>1, <2>2
  <2>5. QED
    BY <1>0, <1>2, <2>1, <2>3, <2>4 DEF Unpin
<1>3. CASE VictimEmpty
  BY <1>3 DEF VictimEmpty, Exists, NoFrame
<1>4. CASE VictimEnter
  <2>1. Exists' = Exists
    BY <1>4 DEF VictimEnter, Exists
  <2>2. Exists # {}
    BY <1>4, ExistsFinite DEF VictimEnter
  <2>3. QED
    BY <1>4, <2>1, <2>2 DEF VictimEnter
<1>5. CASE SweepSkip
  <2>1. Exists' = Exists
    BY <1>5 DEF SweepSkip, Exists
  <2>2. QED
    BY <1>5, <2>1, HandStaysOnClock DEF SweepSkip
<1>6. CASE SweepPass
  <2>1. clock_' \in [Frames -> Cell] /\ \A g \in Frames : clock_'[g].exists = clock_[g].exists
    BY <1>6 DEF SweepPass, Passed, Cell
  <2>2. Exists' = Exists
    BY <2>1 DEF Exists
  <2>3. \A g \in Frames : clock_'[g].ref => clock_'[g].exists
    BY <1>6, <2>1 DEF SweepPass, Passed, Cell
  <2>4. QED
    BY <1>6, <2>1, <2>2, <2>3, HandStaysOnClock DEF SweepPass
<1>7. CASE SweepTake
  <2> DEFINE f == clock_hand_
  <2>1. clock_' \in [Frames -> Cell] /\ ~clock_'[f].exists
    BY <1>7 DEF SweepTake, Taken, Cell
  <2>2. \A g \in Frames \ {f} : clock_'[g] = clock_[g]
    BY <1>7 DEF SweepTake, Taken, Cell
  <2>3. size_' = Cardinality(Exists')
    BY <1>7, <2>1, <2>2, RemoveFrame, ExistsFinite DEF SweepTake
  <2>4. \A g \in Frames : clock_'[g].ref => clock_'[g].exists
    BY <1>7, <2>2 DEF SweepTake, Taken, Cell
  <2>5. QED
    BY <1>0, <1>7, <2>1, <2>3, <2>4 DEF SweepTake
<1>8. CASE UNCHANGED vars
  BY <1>8 DEF vars, Exists
<1>9. QED
  BY <1>1, <1>2, <1>3, <1>4, <1>5, <1>6, <1>7, <1>8 DEF Next, Sweep

LEMMA InitIInv == Init => IInv
<1> SUFFICES ASSUME Init PROVE IInv
  OBVIOUS
<1>1. TypeOK
  <2>1. 0 \in Frames /\ 0 \in 0 .. NumPages
    BY NumPagesAssumption DEF Frames
  <2>2. clock_ \in [Frames -> Cell]
    BY DEF Init, EmptyCell, Cell
  <2>3. QED
    BY <2>1, <2>2 DEF Init, TypeOK
<1>2. Exists = {}
  BY DEF Init, Exists, EmptyCell
<1>3. QED
  BY <1>1, <1>2, FS_EmptySet DEF Init, IInv, SizeCountsFrames, SweepHasGoal, EmptyCell

THEOREM Invariance == Spec => []IInv
BY InitIInv, Inductive, PTL DEF Spec

\* In every state of the replacer, whatever the size of the pool, its variables
\* have their types: in particular clock_hand_ is inside clock_ (the assertion
\* of clock_replacer.cpp:40) and size_ never wraps below zero.
THEOREM TypeCorrect == Spec => []TypeOK
BY Invariance, PTL DEF IInv

\* size_ is always the number of frames present, so the buffer pool's test
\* replacer_->Size() == 0 says exactly that there is no frame to evict.
THEOREM SizeCorrect == Spec => []SizeCountsFrames
BY Invariance, PTL DEF IInv

\* Whenever Victim is in its loop (clock_replacer.cpp:39) there is a frame for it
\* to find, and only frames in the replacer have their reference bit set.
THEOREM SweepGoal == Spec => []SweepHasGoal
BY Invariance, PTL DEF IInv

\* Every behaviour of the clock is a behaviour of the abstract replacer: Victim
\* reports a frame that was evictable and removes just that one, or reports
\* none when there is none; the loop's other iterations are invisible.
THEOREM Refinement == Spec => ImplementsReplacer
<1>1. Init => Abstract!Init
  BY DEF Init, Abstract!Init, Exists, EmptyCell, NoFrame, Abstract!NoFrame
<1>2. IInv /\ [Next]_vars => [Abstract!Next]_(Abstract!rvars)
  <2> SUFFICES ASSUME IInv, [Next]_vars
               PROVE  [Abstract!Next]_(Abstract!rvars)
    OBVIOUS
  <2> USE DEF IInv, TypeOK
  <2>1. ASSUME NEW f \in Frames, Pin(f)
        PROVE  Abstract!Pin(f)
    <3>1. clock_' \in [Frames -> Cell] /\ ~clock_'[f].exists
      BY <2>1 DEF Pin, EmptyCell, Cell
    <3>2. \A g \in Frames \ {f} : clock_'[g] = clock_[g]
      BY <2>1 DEF Pin
    <3>3. QED
      BY <2>1, <3>1, <3>2, RemoveFrame DEF Pin, Abstract!Pin
  <2>2. ASSUME NEW f \in Frames, Unpin(f)
        PROVE  Abstract!Unpin(f)
    <3>1. clock_' \in [Frames -> Cell] /\ clock_'[f].exists
      BY <2>2 DEF Unpin, AfterUnpin, Cell
    <3>2. \A g \in Frames \ {f} : clock_'[g] = clock_[g]
      BY <2>2 DEF Unpin
    <3>3. QED
      BY <2>2, <3>1, <3>2, AddFrame DEF Unpin, Abstract!Unpin
  <2>3. CASE VictimEmpty
    <3>1. Exists = {} /\ Exists' = Exists
      BY <2>3, ExistsFinite DEF VictimEmpty, SizeCountsFrames, Exists
    <3>2. QED
      BY <2>3, <3>1 DEF VictimEmpty, Abstract!Next, Abstract!Victim, NoFrame, Abstract!NoFrame
  <2>4. CASE VictimEnter \/ SweepSkip \/ UNCHANGED vars
    BY <2>4 DEF VictimEnter, SweepSkip, vars, Exists, Abstract!rvars
  <2>5. CASE SweepPass
    <3>1. \A g \in Frames : clock_'[g].exists = clock_[g].exists
      BY <2>5 DEF SweepPass, Passed, Cell
    <3>2. QED
      BY <2>5, <3>1 DEF SweepPass, Exists, Abstract!rvars
  <2>6. CASE SweepTake
    <3> DEFINE f == clock_hand_
    <3>1. clock_' \in [Frames -> Cell] /\ ~clock_'[f].exists
      BY <2>6 DEF SweepTake, Taken, Cell
    <3>2. \A g \in Frames \ {f} : clock_'[g] = clock_[g]
      BY <2>6 DEF SweepTake, Taken, Cell
    <3>3. Exists' = Exists \ {f} /\ f \in Exists
      BY <2>6, <3>1, <3>2, RemoveFrame DEF SweepTake, Exists
    <3>4. QED
      BY <2>6, <3>3 DEF SweepTake, Abstract!Next, Abstract!Victim
  <2>7. QED
    BY <2>1, <2>2, <2>3, <2>4, <2>5, <2>6 DEF Next, Sweep, Abstract!Next
<1>3. QED
  BY <1>1, <1>2, Invariance, PTL DEF Spec, ImplementsReplacer, Abstract!Spec
=============================================================================
