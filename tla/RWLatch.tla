------------------------------ MODULE RWLatch ------------------------------
(***************************************************************************)
(* common/rwlatch.h: the reader-writer latch of pages, of the hash table   *)
(* and of the transaction manager.                                         *)
(*                                                                         *)
(* What a method does under mutex_ is one step; a wait ends the step.  A   *)
(* thread in `asleep' waits on a condition variable: on reader_ when it is *)
(* in "rlock" or "wlock", on writer_ when it is "entered".  A thread that  *)
(* was woken stays where it is in the code and tests its condition again.  *)
(***************************************************************************)
EXTENDS Integers, FiniteSets

CONSTANTS Threads, MAX_READERS

\* No more threads than the latch can count: MAX_READERS is UINT_MAX.
ASSUME LatchAssumption ==
    /\ IsFiniteSet(Threads)
    /\ MAX_READERS \in Nat
    /\ Cardinality(Threads) < MAX_READERS

VARIABLES writer_entered_, reader_count_, pc, asleep
vars == <<writer_entered_, reader_count_, pc, asleep>>

TypeOK ==
    /\ writer_entered_ \in BOOLEAN
    /\ reader_count_ \in 0 .. MAX_READERS
    /\ pc \in [Threads -> {"idle", "rlock", "wlock", "entered", "reading", "writing"}]
    /\ asleep \subseteq Threads

Init ==
    /\ writer_entered_ = FALSE
    /\ reader_count_ = 0
    /\ pc = [t \in Threads |-> "idle"]
    /\ asleep = {}

Goto(t, where) == pc' = [pc EXCEPT ![t] = where]
Runs(t, where) == pc[t] = where /\ t \notin asleep
-----------------------------------------------------------------------------
\* Mutants of the definitions below.
ReadersIgnoreWriters == reader_count_ # MAX_READERS
NotifyWaitingWriters == {t \in Threads : pc[t] = "wlock"}
NotifyAtOne == {t \in Threads : pc[t] = "entered" /\ reader_count_ = 2}

MayRead == ~writer_entered_ /\ reader_count_ # MAX_READERS

\* A thread calls RLock or WLock.
Request(t) ==
    /\ Runs(t, "idle")
    /\ \E lock \in {"rlock", "wlock"} : Goto(t, lock)
    /\ UNCHANGED <<writer_entered_, reader_count_, asleep>>

RLock(t) ==
    /\ Runs(t, "rlock")
    /\ \/ /\ MayRead
          /\ reader_count_' = reader_count_ + 1
          /\ Goto(t, "reading")
          /\ UNCHANGED asleep
       \/ /\ ~MayRead
          /\ asleep' = asleep \union {t}
          /\ UNCHANGED <<reader_count_, pc>>
    /\ UNCHANGED writer_entered_

\* The first loop of WLock.  mutex_ is kept from here into the second loop;
\* letting others in between only moves their steps, none of which undoes it.
WEnter(t) ==
    /\ Runs(t, "wlock")
    /\ \/ /\ ~writer_entered_
          /\ writer_entered_' = TRUE
          /\ Goto(t, "entered")
          /\ UNCHANGED asleep
       \/ /\ writer_entered_
          /\ asleep' = asleep \union {t}
          /\ UNCHANGED <<writer_entered_, pc>>
    /\ UNCHANGED reader_count_

\* The second loop of WLock.
WLock(t) ==
    /\ Runs(t, "entered")
    /\ \/ /\ reader_count_ = 0
          /\ Goto(t, "writing")
          /\ UNCHANGED asleep
       \/ /\ reader_count_ > 0
          /\ asleep' = asleep \union {t}
          /\ UNCHANGED pc
    /\ UNCHANGED <<writer_entered_, reader_count_>>

\* Those WUnlock wakes: everyone waiting on reader_.
Unblocked == {t \in Threads : pc[t] \in {"rlock", "wlock"}}

WUnlock(t) ==
    /\ Runs(t, "writing")
    /\ writer_entered_' = FALSE
    /\ asleep' = asleep \ Unblocked
    /\ Goto(t, "idle")
    /\ UNCHANGED reader_count_

\* Those RUnlock wakes on writer_, where at most one thread waits.
Drained == {t \in Threads : pc[t] = "entered" /\ reader_count_ = 1}

CountAfterRUnlock == reader_count_ - 1

\* Line 82 wakes a reader that found the latch full, which LatchAssumption
\* excludes.
RUnlock(t) ==
    /\ Runs(t, "reading")
    /\ reader_count_' = CountAfterRUnlock
    /\ asleep' = asleep \ Drained
    /\ Goto(t, "idle")
    /\ UNCHANGED writer_entered_

\* A wait may also end by itself.
Spurious(t) ==
    /\ t \in asleep
    /\ asleep' = asleep \ {t}
    /\ UNCHANGED <<writer_entered_, reader_count_, pc>>

Step(t) == RLock(t) \/ WEnter(t) \/ WLock(t)
Release(t) == WUnlock(t) \/ RUnlock(t)

Next == \E t \in Threads : Request(t) \/ Step(t) \/ Release(t) \/ Spurious(t)

Spec == Init /\ [][Next]_vars

\* A thread that can run does, and nobody keeps the latch for ever.
FairSpec == Spec /\ \A t \in Threads : WF_vars(Step(t)) /\ WF_vars(Release(t))
-----------------------------------------------------------------------------
Readers == {t \in Threads : pc[t] = "reading"}

\* The latch excludes: a writer holds it alone.
Exclusion ==
    \A t \in Threads : pc[t] = "writing" => \A u \in Threads \ {t} : pc[u] \notin {"reading", "writing"}

\* reader_count_ is the number of readers, so the decrement of RUnlock never
\* wraps below zero.
CountsReaders == reader_count_ = Cardinality(Readers)

\* No wake-up is lost: a thread sleeps on reader_ only while a writer is in,
\* and on writer_ only while readers are.
NoLostWakeUp ==
    \A t \in asleep : /\ pc[t] \in {"rlock", "wlock"} => writer_entered_
                      /\ pc[t] = "entered" => reader_count_ > 0

\* A writer that has entered keeps new readers out, so it gets the latch.
EnteredWriterWrites == \A t \in Threads : pc[t] = "entered" ~> pc[t] = "writing"
=============================================================================
