----------------------------- MODULE LogManager -----------------------------
(***************************************************************************)
(* recovery/log_manager.cpp: threads that append records, commit (append   *)
(* and wait for the next group flush) or force a flush, the flush thread,  *)
(* and the thread that starts and stops it.                                *)
(*                                                                         *)
(* What a method does under latch_ is one step, except that the flush      *)
(* thread holds latch_ from the write of the log to the publication of     *)
(* persistent_lsn_, which is read without it.  A thread waiting on         *)
(* append_cv_ is in one of the "...Wait" states; notify_all marks it woken *)
(* and it tests its condition again once it has latch_.  A log record is   *)
(* its LSN; the offset counts record sizes.                                *)
(***************************************************************************)
EXTENDS Integers, Sequences, FiniteSets

CONSTANTS Workers,        \* threads using the log
          LOG_BUFFER_SIZE,
          Sizes,          \* sizes of log records
          MaxRecords,     \* bound on records appended
          MaxForces,      \* bound on Flush(true) calls by workers
          MaxStops        \* bound on StopFlushThread calls

ASSUME LogAssumption ==
    /\ LOG_BUFFER_SIZE \in Nat \ {0}
    /\ Sizes \subseteq 1 .. LOG_BUFFER_SIZE
    /\ MaxRecords \in Nat /\ MaxForces \in Nat /\ MaxStops \in Nat

INVALID_LSN == -1

VARIABLES
    enable_logging, needs_flush,
    log_buffer_, log_buffer_write_offset,   \* records not yet written
    log_file,                               \* records written
    next_lsn_, lastLsn_, persistent_lsn_,
    flusher,      \* where the flush thread is
    owner,        \* whether the flush thread keeps latch_
    stopper,      \* where the thread calling StopFlushThread is
    pc, size, lsn,\* per worker: where it is, the size it appends, the LSN it waits for
    woken,        \* workers notified on append_cv_ and not yet running
    forces, stops

bufferVars == <<log_buffer_, log_buffer_write_offset, next_lsn_, lastLsn_>>
flushVars  == <<log_file, persistent_lsn_, flusher, owner>>
stopVars   == <<enable_logging, stopper, stops>>
workerVars == <<pc, size, lsn>>
vars == <<bufferVars, flushVars, stopVars, workerVars, needs_flush, woken, forces>>

Waiting == {"appendWait", "commitAppendWait", "commitWait", "forceWait"}

\* A log manager whose flush thread has just been started.
Init ==
    /\ enable_logging = TRUE /\ needs_flush = FALSE /\ owner = FALSE
    /\ log_buffer_ = <<>> /\ log_file = <<>> /\ log_buffer_write_offset = 0
    /\ next_lsn_ = 0 /\ lastLsn_ = INVALID_LSN /\ persistent_lsn_ = INVALID_LSN
    /\ flusher = "loop" /\ stopper = "running"
    /\ pc = [w \in Workers |-> "idle"]
    /\ size = [w \in Workers |-> CHOOSE s \in Sizes : TRUE]
    /\ lsn = [w \in Workers |-> INVALID_LSN]
    /\ woken = {} /\ forces = 0 /\ stops = 0
-----------------------------------------------------------------------------
\* Mutants of the definitions below.
PublishedNext == next_lsn_
NotifyNone == woken

\* Line 86 and the condition of line 92.
Fits(s) == log_buffer_write_offset + s <= LOG_BUFFER_SIZE

\* Lines 99-130.
Append1(w, s) ==
    /\ log_buffer_' = Append(log_buffer_, next_lsn_)
    /\ log_buffer_write_offset' = log_buffer_write_offset + s
    /\ lastLsn_' = next_lsn_
    /\ next_lsn_' = next_lsn_ + 1
    /\ lsn' = [lsn EXCEPT ![w] = next_lsn_]

\* The bound on records, counting those of threads waiting for room.
RecordsLeft ==
    next_lsn_ + Cardinality({w \in Workers : pc[w] \in {"appendWait", "commitAppendWait"}}) < MaxRecords

\* AppendLogRecord: the record fits, or the flush thread is asked to make room.
\* `next` is where the worker goes once it has its LSN.
AppendLogRecord(w, s, next, wait) ==
    /\ pc[w] = "idle" /\ ~owner /\ enable_logging /\ RecordsLeft
    /\ \/ /\ Fits(s)
          /\ Append1(w, s)
          /\ pc' = [pc EXCEPT ![w] = next]
          /\ UNCHANGED needs_flush
       \/ /\ ~Fits(s)
          /\ needs_flush' = TRUE
          /\ pc' = [pc EXCEPT ![w] = wait]
          /\ UNCHANGED <<bufferVars, lsn>>
    /\ size' = [size EXCEPT ![w] = s]
    /\ UNCHANGED <<flushVars, stopVars, woken, forces>>

\* A notified appender tests its condition again: it appends or waits on.
AppendWoken(w, next, wait) ==
    /\ pc[w] = wait /\ w \in woken /\ ~owner
    /\ woken' = woken \ {w}
    /\ \/ /\ Fits(size[w])
          /\ Append1(w, size[w])
          /\ pc' = [pc EXCEPT ![w] = next]
       \/ /\ ~Fits(size[w])
          /\ UNCHANGED <<bufferVars, lsn, pc>>
    /\ UNCHANGED <<flushVars, stopVars, size, needs_flush, forces>>

\* Line 144: the wait of Flush(false), which tests no condition.
AfterFlush == "commitWait"

\* Flush(false), as Commit and Abort call it after appending their record.
FlushWait(w) ==
    /\ pc[w] = "commit" /\ ~owner
    /\ pc' = [pc EXCEPT ![w] = AfterFlush]
    /\ UNCHANGED <<bufferVars, flushVars, stopVars, size, lsn, needs_flush, woken, forces>>

CommitWoken(w) ==
    /\ pc[w] = "commitWait" /\ w \in woken /\ ~owner
    /\ woken' = woken \ {w}
    /\ pc' = [pc EXCEPT ![w] = "idle"]
    /\ UNCHANGED <<bufferVars, flushVars, stopVars, size, lsn, needs_flush, forces>>

\* Flush(true), as Evict and BeginCheckpoint call it; lsn notes the last record
\* it covers.
FlushForce(w) ==
    /\ pc[w] = "idle" /\ ~owner /\ enable_logging
    /\ forces < MaxForces
    /\ forces' = forces + 1
    /\ needs_flush' = TRUE
    /\ lsn' = [lsn EXCEPT ![w] = lastLsn_]
    /\ pc' = [pc EXCEPT ![w] = "forceWait"]
    /\ UNCHANGED <<bufferVars, flushVars, stopVars, size, woken>>

ForceWoken(w) ==
    /\ pc[w] = "forceWait" /\ w \in woken /\ ~owner
    /\ woken' = woken \ {w}
    /\ pc' = [pc EXCEPT ![w] = IF needs_flush THEN "forceWait" ELSE "idle"]
    /\ UNCHANGED <<bufferVars, flushVars, stopVars, size, lsn, needs_flush, forces>>
-----------------------------------------------------------------------------
(***************************************************************************)
(* The flush thread.                                                       *)
(***************************************************************************)

\* Line 36: the loop condition is read without latch_.
FlusherLoop ==
    /\ flusher = "loop"
    /\ flusher' = IF enable_logging THEN "waiting" ELSE "exited"
    /\ UNCHANGED <<bufferVars, log_file, persistent_lsn_, owner, stopVars, workerVars,
                   needs_flush, woken, forces>>

Written == log_file \o log_buffer_
Published == lastLsn_
Notified == {w \in Workers : pc[w] \in Waiting}

\* Lines 41-54: needs_flush is set or log_timeout has passed.  The buffers are
\* swapped and the full one is written.
FlusherWrite ==
    /\ flusher = "waiting"
    /\ log_file' = Written
    /\ log_buffer_' = <<>>
    /\ log_buffer_write_offset' = 0
    /\ owner' = TRUE
    /\ flusher' = "publish"
    /\ UNCHANGED <<next_lsn_, lastLsn_, persistent_lsn_, stopVars, workerVars, needs_flush, woken, forces>>

\* Lines 55-58.  When nothing was written lastLsn_ is already persistent.
FlusherPublish ==
    /\ flusher = "publish"
    /\ persistent_lsn_' = Published
    /\ needs_flush' = FALSE
    /\ woken' = Notified
    /\ owner' = FALSE
    /\ flusher' = "loop"
    /\ UNCHANGED <<bufferVars, log_file, stopVars, workerVars, forces>>
-----------------------------------------------------------------------------
(***************************************************************************)
(* StopFlushThread, called when no worker is in a call, and RunFlushThread. *)
(***************************************************************************)
StopFlag ==
    /\ stopper = "running"
    /\ stops < MaxStops
    /\ \A w \in Workers : pc[w] = "idle"
    /\ enable_logging' = FALSE
    /\ stopper' = "flag"
    /\ stops' = stops + 1
    /\ UNCHANGED <<bufferVars, flushVars, workerVars, needs_flush, woken, forces>>

\* Flush(true) with logging already off: it does not wait.
StopFlush ==
    /\ stopper = "flag" /\ ~owner
    /\ needs_flush' = TRUE
    /\ stopper' = "join"
    /\ UNCHANGED <<bufferVars, flushVars, enable_logging, stops, workerVars, woken, forces>>

\* Lines 71-73: the join, and the assertion that nothing is left.
StopJoin ==
    /\ stopper = "join"
    /\ flusher = "exited"
    /\ stopper' = IF log_buffer_write_offset = 0 THEN "stopped" ELSE "aborted"
    /\ UNCHANGED <<bufferVars, flushVars, enable_logging, stops, workerVars, needs_flush, woken, forces>>

RunFlushThread ==
    /\ stopper = "stopped"
    /\ enable_logging' = TRUE
    /\ flusher' = "loop"
    /\ stopper' = "running"
    /\ UNCHANGED <<bufferVars, log_file, persistent_lsn_, owner, stops, workerVars, needs_flush, woken, forces>>

Flusher == FlusherLoop \/ FlusherWrite \/ FlusherPublish

Woken(w) ==
    \/ AppendWoken(w, "idle", "appendWait")
    \/ AppendWoken(w, "commit", "commitAppendWait")
    \/ CommitWoken(w)
    \/ ForceWoken(w)

Next ==
    \/ Flusher
    \/ StopFlag \/ StopFlush \/ StopJoin \/ RunFlushThread
    \/ \E w \in Workers :
          \/ \E s \in Sizes : \/ AppendLogRecord(w, s, "idle", "appendWait")
                              \/ AppendLogRecord(w, s, "commit", "commitAppendWait")
          \/ FlushForce(w) \/ FlushWait(w)
          \/ Woken(w)

Spec == Init /\ [][Next]_vars

\* The flush thread runs and its timeouts expire; a thread that asks for latch_
\* again and again, or is blocked on it, gets it.
FairSpec ==
    /\ Spec
    /\ WF_vars(Flusher)
    /\ \A w \in Workers : SF_vars(Woken(w)) /\ SF_vars(FlushWait(w))
-----------------------------------------------------------------------------
(***************************************************************************)
(* Properties.                                                             *)
(***************************************************************************)

\* The log is written in LSN order with no gap and no repetition: the file and
\* the buffer together are all records appended so far, whatever the
\* interleaving of appenders, swaps, stops and restarts of the flush thread; the
\* buffer never holds more than its size; and "the log records before and
\* including the persistent lsn have been written to disk" (log_manager.h:61),
\* which evictions rely on without holding latch_.
LogIsComplete ==
    /\ log_file \o log_buffer_ = [i \in 1 .. next_lsn_ |-> i - 1]
    /\ log_buffer_write_offset <= LOG_BUFFER_SIZE
    /\ persistent_lsn_ < Len(log_file)


\* Nobody waits for ever: every append finds room, every commit and every
\* forced flush returns.
WaitersReturn == \A w \in Workers : pc[w] # "idle" ~> pc[w] = "idle"
=============================================================================
