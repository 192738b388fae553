--------------------------- MODULE RWLatchProofs ---------------------------
(***************************************************************************)
(* The latch excludes and loses no wake-up, for any finite set of threads. *)
(***************************************************************************)
EXTENDS RWLatch, FiniteSetTheorems, TLAPS

Inside == {"entered", "writing"}

\* writer_entered_ is set exactly while one thread is past the first loop of
\* WLock.
OneWriter ==
    /\ \A t, u \in Threads : pc[t] \in Inside /\ pc[u] \in Inside => t = u
    /\ writer_entered_ <=> \E t \in Threads : pc[t] \in Inside

\* A writer past the second loop has seen the last reader leave.
WritersAlone == \A t \in Threads : pc[t] = "writing" => reader_count_ = 0

\* Only threads in a wait sleep.
SleepersWait == \A t \in asleep : pc[t] \in {"rlock", "wlock", "entered"}

IInv == /\ TypeOK /\ OneWriter /\ WritersAlone
        /\ CountsReaders /\ SleepersWait /\ NoLostWakeUp

\* The readers are finitely many, and at most as many as threads.
LEMMA ReadersFinite ==
    ASSUME NEW S \in SUBSET Threads
    PROVE  IsFiniteSet(S) /\ Cardinality(S) \in Nat /\ Cardinality(S) < MAX_READERS
<1>1. IsFiniteSet(S) /\ Cardinality(S) <= Cardinality(Threads)
  BY LatchAssumption, FS_Subset
<1>2. Cardinality(S) \in Nat /\ Cardinality(Threads) \in Nat
  BY <1>1, LatchAssumption, FS_CardinalityType
<1> QED BY <1>1, <1>2, LatchAssumption

\* Init establishes the invariant.
LEMMA InitIInv == Init => IInv
<1> SUFFICES ASSUME Init PROVE IInv OBVIOUS
<1>1. Readers = {}
  BY DEF Init, Readers
<1>2. CountsReaders
  BY <1>1, FS_EmptySet DEF Init, CountsReaders
<1>3. TypeOK
  <2>1. writer_entered_ \in BOOLEAN /\ asleep \subseteq Threads
    BY DEF Init
  <2>2. reader_count_ \in 0 .. MAX_READERS
    BY LatchAssumption DEF Init
  <2>3. pc \in [Threads -> {"idle", "rlock", "wlock", "entered", "reading", "writing"}]
    BY DEF Init
  <2> QED BY <2>1, <2>2, <2>3 DEF TypeOK
<1> QED BY <1>2, <1>3 DEF Init, IInv, OneWriter, WritersAlone, SleepersWait, NoLostWakeUp, Inside

\* Every step preserves it.
LEMMA Inductive == IInv /\ [Next]_vars => IInv'
<1> SUFFICES ASSUME IInv, [Next]_vars PROVE IInv' OBVIOUS
<1> USE DEF IInv, Inside
<1>0. Readers \in SUBSET Threads /\ Readers' \in SUBSET Threads
  BY DEF Readers
<1>1. ASSUME NEW t \in Threads, Request(t) PROVE IInv'
  <2>1. PICK lock \in {"rlock", "wlock"} : pc' = [pc EXCEPT ![t] = lock]
    BY <1>1 DEF Request, Goto
  <2>2. pc[t] = "idle" /\ t \notin asleep /\ UNCHANGED <<writer_entered_, reader_count_, asleep>>
    BY <1>1 DEF Request, Runs
  <2>3. TypeOK'
    BY <2>1, <2>2 DEF TypeOK
  <2>4. Readers' = Readers
    BY <2>1, <2>2 DEF Readers, TypeOK
  <2>5. CountsReaders'
    BY <2>2, <2>4 DEF CountsReaders
  <2>6. OneWriter' /\ WritersAlone'
    BY <2>1, <2>2 DEF TypeOK, OneWriter, WritersAlone
  <2>7. SleepersWait' /\ NoLostWakeUp'
    BY <2>1, <2>2 DEF TypeOK, SleepersWait, NoLostWakeUp
  <2> QED BY <2>3, <2>5, <2>6, <2>7
<1>2. ASSUME NEW t \in Threads, RLock(t) PROVE IInv'
  <2>1. CASE MayRead
    <3>1. /\ reader_count_' = reader_count_ + 1 /\ pc' = [pc EXCEPT ![t] = "reading"]
          /\ asleep' = asleep /\ writer_entered_' = writer_entered_ /\ ~writer_entered_
          /\ pc[t] = "rlock" /\ t \notin asleep
      BY <1>2, <2>1 DEF RLock, Runs, Goto, MayRead
    <3>2. Readers' = Readers \union {t} /\ t \notin Readers
      BY <3>1 DEF Readers, TypeOK
    <3>3. Cardinality(Readers') = Cardinality(Readers) + 1
      BY <1>0, <3>2, ReadersFinite, FS_AddElement
    <3>4. CountsReaders'
      BY <3>1, <3>3 DEF CountsReaders
    <3>5. TypeOK'
      <4>1. reader_count_' \in 0 .. MAX_READERS
        BY <1>0, <3>4, ReadersFinite, LatchAssumption DEF CountsReaders
      <4> QED BY <3>1, <4>1 DEF TypeOK
    <3>6. OneWriter' /\ WritersAlone'
      BY <3>1 DEF TypeOK, OneWriter, WritersAlone
    <3>7. SleepersWait' /\ NoLostWakeUp'
      BY <3>1 DEF TypeOK, SleepersWait, NoLostWakeUp
    <3> QED BY <3>4, <3>5, <3>6, <3>7
  <2>2. CASE ~MayRead
    <3>1. /\ UNCHANGED <<reader_count_, pc, writer_entered_>>
          /\ asleep' = asleep \union {t} /\ pc[t] = "rlock"
      BY <1>2, <2>2 DEF RLock, Runs
    <3>2. writer_entered_
      BY <1>0, <2>2, ReadersFinite DEF MayRead, CountsReaders
    <3>3. TypeOK' /\ OneWriter' /\ WritersAlone'
      BY <3>1 DEF TypeOK, OneWriter, WritersAlone
    <3>4. Readers' = Readers
      BY <3>1 DEF Readers
    <3>5. CountsReaders'
      BY <3>1, <3>4 DEF CountsReaders
    <3>6. SleepersWait' /\ NoLostWakeUp'
      BY <3>1, <3>2 DEF TypeOK, SleepersWait, NoLostWakeUp
    <3> QED BY <3>3, <3>5, <3>6
  <2> QED BY <2>1, <2>2
<1>3. ASSUME NEW t \in Threads, WEnter(t) PROVE IInv'
  <2>1. Readers' = Readers
    BY <1>3 DEF WEnter, Runs, Goto, Readers, TypeOK
  <2>2. CountsReaders'
    BY <1>3, <2>1 DEF WEnter, CountsReaders
  <2>3. CASE ~writer_entered_
    <3>1. /\ writer_entered_' = TRUE /\ pc' = [pc EXCEPT ![t] = "entered"]
          /\ UNCHANGED <<asleep, reader_count_>> /\ pc[t] = "wlock" /\ t \notin asleep
      BY <1>3, <2>3 DEF WEnter, Runs, Goto
    <3>2. TypeOK'
      BY <3>1 DEF TypeOK
    <3>3. OneWriter' /\ WritersAlone'
      BY <2>3, <3>1 DEF TypeOK, OneWriter, WritersAlone
    <3>4. SleepersWait' /\ NoLostWakeUp'
      BY <3>1 DEF TypeOK, SleepersWait, NoLostWakeUp
    <3> QED BY <2>2, <3>2, <3>3, <3>4
  <2>4. CASE writer_entered_
    <3>1. /\ UNCHANGED <<reader_count_, pc, writer_entered_>>
          /\ asleep' = asleep \union {t} /\ pc[t] = "wlock"
      BY <1>3, <2>4 DEF WEnter, Runs
    <3>2. TypeOK' /\ OneWriter' /\ WritersAlone'
      BY <3>1 DEF TypeOK, OneWriter, WritersAlone
    <3>3. SleepersWait' /\ NoLostWakeUp'
      BY <3>1, <2>4 DEF TypeOK, SleepersWait, NoLostWakeUp
    <3> QED BY <2>2, <3>2, <3>3
  <2> QED BY <2>3, <2>4
<1>4. ASSUME NEW t \in Threads, WLock(t) PROVE IInv'
  <2>1. Readers' = Readers
    BY <1>4 DEF WLock, Runs, Goto, Readers, TypeOK
  <2>2. CountsReaders'
    BY <1>4, <2>1 DEF WLock, CountsReaders
  <2>3. CASE reader_count_ = 0
    <3>1. /\ pc' = [pc EXCEPT ![t] = "writing"] /\ pc[t] = "entered" /\ t \notin asleep
          /\ UNCHANGED <<asleep, writer_entered_, reader_count_>>
      BY <1>4, <2>3 DEF WLock, Runs, Goto
    <3>2. TypeOK' /\ OneWriter' /\ WritersAlone'
      BY <2>3, <3>1 DEF TypeOK, OneWriter, WritersAlone
    <3>3. SleepersWait' /\ NoLostWakeUp'
      BY <3>1 DEF TypeOK, SleepersWait, NoLostWakeUp
    <3> QED BY <2>2, <3>2, <3>3
  <2>4. CASE reader_count_ > 0
    <3>1. /\ UNCHANGED <<reader_count_, pc, writer_entered_>>
          /\ asleep' = asleep \union {t} /\ pc[t] = "entered"
      BY <1>4, <2>4 DEF WLock, Runs
    <3>2. TypeOK' /\ OneWriter' /\ WritersAlone'
      BY <3>1 DEF TypeOK, OneWriter, WritersAlone
    <3>3. SleepersWait' /\ NoLostWakeUp'
      BY <3>1, <2>4 DEF TypeOK, SleepersWait, NoLostWakeUp
    <3> QED BY <2>2, <3>2, <3>3
  <2> QED BY <1>4, <2>3, <2>4 DEF WLock
<1>5. ASSUME NEW t \in Threads, WUnlock(t) PROVE IInv'
  <2>1. /\ writer_entered_' = FALSE /\ reader_count_' = reader_count_
        /\ asleep' = asleep \ Unblocked /\ pc' = [pc EXCEPT ![t] = "idle"]
        /\ pc[t] = "writing" /\ t \notin asleep
    BY <1>5 DEF WUnlock, Runs, Goto
  <2>2. Readers' = Readers
    BY <2>1 DEF Readers, TypeOK
  <2>3. CountsReaders'
    BY <2>1, <2>2 DEF CountsReaders
  <2>4. TypeOK' /\ OneWriter' /\ WritersAlone'
    BY <2>1 DEF TypeOK, OneWriter, WritersAlone
  <2>5. SleepersWait' /\ NoLostWakeUp'
    BY <2>1 DEF TypeOK, SleepersWait, NoLostWakeUp, Unblocked
  <2> QED BY <2>3, <2>4, <2>5
<1>6. ASSUME NEW t \in Threads, RUnlock(t) PROVE IInv'
  <2>1. /\ reader_count_' = reader_count_ - 1 /\ writer_entered_' = writer_entered_
        /\ asleep' = asleep \ Drained /\ pc' = [pc EXCEPT ![t] = "idle"]
        /\ pc[t] = "reading" /\ t \notin asleep
    BY <1>6 DEF RUnlock, Runs, Goto, CountAfterRUnlock
  <2>2. Readers' = Readers \ {t} /\ t \in Readers
    BY <2>1 DEF Readers, TypeOK
  <2>3. Cardinality(Readers') = Cardinality(Readers) - 1
    BY <1>0, <2>2, ReadersFinite, FS_RemoveElement
  <2>4. CountsReaders'
    BY <2>1, <2>3 DEF CountsReaders
  <2>5. TypeOK'
    <3>1. reader_count_' \in 0 .. MAX_READERS
      BY <1>0, <2>4, ReadersFinite, LatchAssumption DEF CountsReaders
    <3> QED BY <2>1, <3>1 DEF TypeOK
  <2>6. OneWriter' /\ WritersAlone'
    BY <2>1, <2>5 DEF TypeOK, OneWriter, WritersAlone
  <2>7. SleepersWait' /\ NoLostWakeUp'
    BY <2>1, <2>5 DEF TypeOK, SleepersWait, NoLostWakeUp, Drained
  <2> QED BY <2>4, <2>5, <2>6, <2>7
<1>7. ASSUME NEW t \in Threads, Spurious(t) PROVE IInv'
  <2>1. asleep' = asleep \ {t} /\ UNCHANGED <<writer_entered_, reader_count_, pc>>
    BY <1>7 DEF Spurious
  <2>2. Readers' = Readers
    BY <2>1 DEF Readers
  <2>3. CountsReaders'
    BY <2>1, <2>2 DEF CountsReaders
  <2> QED BY <2>1, <2>3 DEF TypeOK, OneWriter, WritersAlone, SleepersWait, NoLostWakeUp
<1>8. ASSUME UNCHANGED vars PROVE IInv'
  <2>1. Readers' = Readers
    BY <1>8 DEF Readers, vars
  <2>2. CountsReaders'
    BY <1>8, <2>1 DEF CountsReaders, vars
  <2> QED BY <1>8, <2>2 DEF vars, TypeOK, OneWriter, WritersAlone, SleepersWait, NoLostWakeUp
<1> QED
  BY <1>1, <1>2, <1>3, <1>4, <1>5, <1>6, <1>7, <1>8 DEF Next, Step, Release

THEOREM Invariance == Spec => []IInv
BY InitIInv, Inductive, PTL DEF Spec

\* The latch excludes, however many threads use it.
THEOREM LatchExcludes == Spec => []Exclusion
<1>1. IInv => Exclusion
  <2> SUFFICES ASSUME IInv, NEW t \in Threads, NEW u \in Threads \ {t}, pc[t] = "writing"
               PROVE  pc[u] \notin {"reading", "writing"}
    BY DEF Exclusion
  <2>1. pc[u] # "writing"
    BY DEF IInv, OneWriter, Inside
  <2>2. Cardinality(Readers) = 0
    BY DEF IInv, WritersAlone, CountsReaders
  <2>3. Readers = {}
    BY <2>2, ReadersFinite, FS_EmptySet DEF Readers
  <2> QED BY <2>1, <2>3 DEF Readers
<1> QED BY <1>1, Invariance, PTL

\* The count of readers is exact, so it never wraps.
THEOREM LatchCounts == Spec => []CountsReaders
<1>1. IInv => CountsReaders
  BY DEF IInv
<1> QED BY <1>1, Invariance, PTL

\* Nobody sleeps on a condition that no longer holds.
THEOREM LatchWakes == Spec => []NoLostWakeUp
<1>1. IInv => NoLostWakeUp
  BY DEF IInv
<1> QED BY <1>1, Invariance, PTL
=============================================================================
