----------------------------- MODULE BufferPool -----------------------------
(***************************************************************************)
(* buffer/buffer_pool_manager.cpp under concurrent clients.                *)
(*                                                                         *)
(* What a method does under global_latch_ is one step; what Evict,         *)
(* FlushPage and DeletePage do after releasing it, holding only the page   *)
(* latch, are further steps other threads can run between.  pages_ is a    *)
(* field per variable.  The replacer is the abstract set of Replacer,      *)
(* which ClockReplacer implements.  A page's contents are the number of    *)
(* the update that produced them (0: zeroed).  Logging is off: what Evict  *)
(* does with the log is part of LogRecovery.                               *)
(***************************************************************************)
EXTENDS DiskManager, Sequences, FiniteSets

CONSTANTS Threads,        \* client threads
          PoolSize,       \* pool_size_
          MaxVersion,     \* bound on client updates
          MaxLive,        \* bound on the pages clients use at a time
          MaxRestarts,    \* bound on restarts of the process
          Ops,            \* the calls clients make, a subset of AllOps
          NewAfterRestart \* whether clients create pages after a restart

AllOps == {"fetch", "new", "unpin", "write", "flush", "delete", "flushall"}

NumPages == Cardinality(PageIds)

ASSUME BufferPoolAssumption ==
    /\ IsFiniteSet(PageIds)
    /\ NumPages < IntPages
    /\ PageIds = 0 .. NumPages - 1
    /\ PoolSize \in Nat \ {0}
    /\ MaxVersion \in Nat
    /\ MaxLive \in Nat
    /\ MaxRestarts \in Nat
    /\ Ops \subseteq AllOps
    /\ NewAfterRestart \in BOOLEAN

Frames == 0 .. PoolSize - 1
NoFrame == -1
INVALID_PAGE_ID == -1
Versions == 0 .. MaxVersion

VARIABLES
    page_table_, free_list_, replacer_,            \* protected by global_latch_
    page_id_, pin_count_, is_dirty_, data_,        \* the fields of pages_[frame]
    db_io_, next_page_id_,                         \* the disk manager
    version,                                       \* the next update's contents
    call,                                          \* where each thread is
    aborted,                                       \* an assertion has failed
    restarts,
    held,      \* auxiliary: the frame a thread got for a page and has not unpinned
    wrote,     \* auxiliary: pages a thread has modified and not yet unpinned
    live,      \* auxiliary: pages created and not deleted
    latest,    \* auxiliary: the last contents clients gave each page
    flushed    \* auxiliary: the contents the last flush of a page promised

tableVars  == <<page_table_, free_list_, replacer_>>
frameVars  == <<page_id_, pin_count_, is_dirty_, data_>>
ioVars     == <<db_io_, next_page_id_, version>>
clientVars == <<held, wrote, live, latest, flushed>>
vars == <<tableVars, frameVars, ioVars, clientVars, call, aborted, restarts>>

\* The calls of Evict hold global_latch_ in "evictLatch" and the page latch in
\* the three states after it; likewise for the others.
Idle == [pc |-> "idle", page |-> INVALID_PAGE_ID, frame |-> 0, new |-> FALSE, free |-> FALSE]

\* The pool the constructor builds, and clients that hold nothing.
Fresh(table, list, repl, ids, pins, dirty, data, nextId, calls, holds, wrotes) ==
    /\ table = [p \in PageIds |-> NoFrame]
    /\ list = [i \in 1 .. PoolSize |-> i - 1]
    /\ repl = {}
    /\ ids = [f \in Frames |-> INVALID_PAGE_ID]
    /\ pins = [f \in Frames |-> 0]
    /\ dirty = [f \in Frames |-> FALSE]
    /\ data = [f \in Frames |-> 0]
    /\ nextId = 0
    /\ calls = [t \in Threads |-> Idle]
    /\ holds = [t \in Threads |-> [p \in PageIds |-> NoFrame]]
    /\ wrotes = [t \in Threads |-> {}]

Init ==
    /\ Fresh(page_table_, free_list_, replacer_, page_id_, pin_count_, is_dirty_, data_,
             next_page_id_, call, held, wrote)
    /\ db_io_ = EmptyFile
    /\ version = 1
    /\ aborted = "no"
    /\ restarts = 0
    /\ live = {}
    /\ latest = [p \in PageIds |-> 0]
    /\ flushed = [p \in PageIds |-> 0]
-----------------------------------------------------------------------------
(***************************************************************************)
(* Latches.                                                                *)
(***************************************************************************)
Exclusive == {t \in Threads : call[t].pc \in {"evictLatch", "deleteLatch", "flushAll", "flushAllClear"}}
Shared == {t \in Threads : call[t].pc = "flushLatch"}

CanLock == Exclusive = {} /\ Shared = {}
CanShare == Exclusive = {}

Latching == {"evictWrite", "evictFill", "evictFinish", "flushCheck", "flushWrite", "deleteReset"}
Latched(f) == \E t \in Threads : call[t].pc \in Latching /\ call[t].frame = f

\* Where thread t is, in a process that still runs.
At(t, pc) == aborted = "no" /\ call[t].pc = pc
Goto(t, pc) == call' = [call EXCEPT ![t].pc = pc]
Return(t) == call' = [call EXCEPT ![t] = Idle]
Enter(t, pc, p, f, new, free) ==
    call' = [call EXCEPT ![t] = [pc |-> pc, page |-> p, frame |-> f, new |-> new, free |-> free]]

\* A failed assertion ends the process: no further step is taken.
Asserting(where, cond) == aborted' = IF cond THEN aborted ELSE where

-----------------------------------------------------------------------------
HitKeepsEvictable(f) == replacer_
UnpinOverwritesDirty(f, dirty) == dirty
NoReadIn(c) == 0
DeleteKeepsEvictable(f) == replacer_
FlushSkipsPinned(f) == page_id_[f] # INVALID_PAGE_ID /\ is_dirty_[f] /\ pin_count_[f] = 0
NotReset(f) == data_[f]

(***************************************************************************)
(* Helpers.                                                                *)
(***************************************************************************)

\* unordered_map::emplace leaves an existing entry alone.
Emplace(table, p, f) == IF table[p] = NoFrame THEN [table EXCEPT ![p] = f] ELSE table

Erase(table, p) == IF p = INVALID_PAGE_ID THEN table ELSE [table EXCEPT ![p] = NoFrame]

PinsAfterHit(f) == pin_count_[f] + 1
PinsAfterUnpin(f) == pin_count_[f] - 1

\* Line 47: only the first pin takes the frame out of the replacer.
ReplacerAfterHit(f) == IF pin_count_[f] = 0 THEN replacer_ \ {f} ELSE replacer_

\* Line 73: the last unpin puts the frame back.
ReplacerAfterUnpin(f) == IF pin_count_[f] = 1 THEN replacer_ \union {f} ELSE replacer_

ReplacerAfterDelete(f) == replacer_ \ {f}

DirtyAfterUnpin(f, dirty) == is_dirty_[f] \/ dirty

\* The flush loops write a frame only if it holds a page and is marked dirty.
NeedsFlush(f) == page_id_[f] # INVALID_PAGE_ID /\ is_dirty_[f]

\* Line 232, past the assertions of Evict.
WriteBack(f) == IF NeedsFlush(f) THEN WritePage(db_io_, page_id_[f], data_[f]) ELSE db_io_

\* Lines 203-205 and 236-240: a frame from the free list is not reset again.
Filled(c) == CASE ~c.new           -> ReadPage(db_io_, c.page, data_[c.frame])
               [] c.new /\ c.free  -> data_[c.frame]
               [] c.new /\ ~c.free -> 0

DirtyAfterEvict(c) == c.new

\* Lines 199-201 and 217-218.
EvictAsserts(c) ==
    /\ pin_count_[c.frame] = 0
    /\ c.free => ~is_dirty_[c.frame] /\ page_id_[c.frame] = INVALID_PAGE_ID
    /\ ~c.free => page_id_[c.frame] # INVALID_PAGE_ID

Exhausted == free_list_ = <<>> /\ replacer_ = {}

IsAllPinned == \A f \in Frames : page_id_[f] = INVALID_PAGE_ID \/ pin_count_[f] # 0

\* The contents DeletePage leaves in the frame.
ResetData(f) == 0

\* Whether the call can take the page latch of its frame.
LatchFree(c) == ~Latched(c.frame)

\* What a flush promises of a page: its contents, unless a client has changed
\* it and not yet said so by unpinning it.  Recorded where a restart can follow.
Promised(p) ==
    IF MaxRestarts > 0 /\ p \in live /\ \A t \in Threads : p \notin wrote[t]
    THEN latest[p]
    ELSE flushed[p]
-----------------------------------------------------------------------------
(***************************************************************************)
(* FetchPage, NewPage and Evict.                                           *)
(***************************************************************************)
FetchHit(t, p) ==
    LET f == page_table_[p]
    IN  /\ f # NoFrame
        /\ replacer_' = ReplacerAfterHit(f)
        /\ pin_count_' = [pin_count_ EXCEPT ![f] = PinsAfterHit(f)]
        /\ held' = [held EXCEPT ![t][p] = f]
        /\ UNCHANGED <<page_table_, free_list_, page_id_, is_dirty_, data_, ioVars,
                       wrote, live, latest, flushed, call, aborted, restarts>>

\* Lines 52-55 and 106-111: the caller gets nullptr.
NoFrameLeft ==
    /\ Exhausted
    /\ Asserting("pool exhausted", IsAllPinned)
    /\ UNCHANGED <<tableVars, frameVars, ioVars, clientVars, call, restarts>>

\* The part of Evict under global_latch_, which t keeps until it has the page
\* latch of the frame it picked.
EvictFree(t, p, new) ==
    /\ free_list_ # <<>>
    /\ free_list_' = Tail(free_list_)
    /\ page_table_' = Emplace(page_table_, p, Head(free_list_))
    /\ Enter(t, "evictLatch", p, Head(free_list_), new, TRUE)
    /\ UNCHANGED replacer_

EvictVictim(t, p, new) ==
    /\ free_list_ = <<>>
    /\ \E f \in replacer_ :
          /\ replacer_' = replacer_ \ {f}
          /\ page_table_' = Emplace(Erase(page_table_, page_id_[f]), p, f)
          /\ Enter(t, "evictLatch", p, f, new, FALSE)
    /\ UNCHANGED free_list_

FetchMiss(t, p) ==
    /\ page_table_[p] = NoFrame
    /\ EvictFree(t, p, FALSE) \/ EvictVictim(t, p, FALSE)
    /\ UNCHANGED <<frameVars, ioVars, clientVars, aborted, restarts>>

FetchPage(t, p) ==
    /\ "fetch" \in Ops
    /\ At(t, "idle")
    /\ p \in live
    /\ held[t][p] = NoFrame
    /\ CanLock
    /\ FetchHit(t, p) \/ FetchMiss(t, p) \/ (page_table_[p] = NoFrame /\ NoFrameLeft)

NewPage(t) ==
    /\ "new" \in Ops
    /\ At(t, "idle")
    /\ next_page_id_ \in PageIds
    /\ restarts = 0 \/ NewAfterRestart
    /\ Cardinality(live) + Cardinality({u \in Threads : call[u].new}) < MaxLive
    /\ CanLock
    /\ \/ /\ EvictFree(t, next_page_id_, TRUE) \/ EvictVictim(t, next_page_id_, TRUE)
          /\ next_page_id_' = next_page_id_ + 1
          /\ UNCHANGED <<frameVars, db_io_, version, clientVars, aborted, restarts>>
       \/ NoFrameLeft

\* The page latch is taken and global_latch_ released.
EvictLatch(t) ==
    /\ At(t, "evictLatch")
    /\ LatchFree(call[t])
    /\ Goto(t, "evictWrite")
    /\ UNCHANGED <<tableVars, frameVars, ioVars, clientVars, aborted, restarts>>

EvictWrite(t) ==
    /\ At(t, "evictWrite")
    /\ Asserting("evict", EvictAsserts(call[t]))
    /\ db_io_' = WriteBack(call[t].frame)
    /\ Goto(t, "evictFill")
    /\ UNCHANGED <<tableVars, frameVars, next_page_id_, version, clientVars, restarts>>

EvictFill(t) ==
    LET c == call[t]
    IN  /\ At(t, "evictFill")
        /\ data_' = [data_ EXCEPT ![c.frame] = Filled(c)]
        /\ db_io_' = IF c.new THEN db_io_ ELSE AfterRead(db_io_, c.page)
        /\ Goto(t, "evictFinish")
        /\ UNCHANGED <<tableVars, page_id_, pin_count_, is_dirty_, next_page_id_, version, clientVars, aborted, restarts>>

\* Lines 243-249, and the return to the client.
EvictFinish(t) ==
    LET c == call[t]
    IN  /\ At(t, "evictFinish")
        /\ page_id_' = [page_id_ EXCEPT ![c.frame] = c.page]
        /\ pin_count_' = [pin_count_ EXCEPT ![c.frame] = 1]
        /\ is_dirty_' = [is_dirty_ EXCEPT ![c.frame] = DirtyAfterEvict(c)]
        /\ held' = [held EXCEPT ![t][c.page] = c.frame]
        /\ live' = live \union {c.page}
        /\ latest' = IF c.new THEN [latest EXCEPT ![c.page] = 0] ELSE latest
        /\ flushed' = IF c.new THEN [flushed EXCEPT ![c.page] = 0] ELSE flushed
        /\ Return(t)
        /\ UNCHANGED <<tableVars, data_, ioVars, wrote, aborted, restarts>>
-----------------------------------------------------------------------------
(***************************************************************************)
(* UnpinPage, and the client's own use of a page it holds.                 *)
(***************************************************************************)

\* A client that has modified the page says so.
UnpinPage(t, p, dirty) ==
    LET f == page_table_[p]
    IN  /\ "unpin" \in Ops
        /\ At(t, "idle")
        /\ held[t][p] # NoFrame
        /\ p \in wrote[t] => dirty
        /\ CanLock
        /\ held' = [held EXCEPT ![t][p] = NoFrame]
        /\ wrote' = [wrote EXCEPT ![t] = @ \ {p}]
        /\ Asserting("unpin", f # NoFrame)
        /\ IF f = NoFrame \/ pin_count_[f] = 0
           THEN UNCHANGED <<replacer_, pin_count_, is_dirty_>>
           ELSE /\ pin_count_' = [pin_count_ EXCEPT ![f] = PinsAfterUnpin(f)]
                /\ replacer_' = ReplacerAfterUnpin(f)
                /\ is_dirty_' = [is_dirty_ EXCEPT ![f] = DirtyAfterUnpin(f, dirty)]
        /\ UNCHANGED <<page_table_, free_list_, page_id_, data_>>
        /\ UNCHANGED <<ioVars, live, latest, flushed, call, restarts>>

\* An update under the page latch.
Write(t, p) ==
    LET f == held[t][p]
    IN  /\ "write" \in Ops
        /\ At(t, "idle")
        /\ f # NoFrame
        /\ ~Latched(f)
        /\ version <= MaxVersion
        /\ data_' = [data_ EXCEPT ![f] = version]
        /\ version' = version + 1
        /\ latest' = [latest EXCEPT ![p] = version]
        /\ wrote' = [wrote EXCEPT ![t] = @ \union {p}]
        /\ UNCHANGED <<tableVars, page_id_, pin_count_, is_dirty_, db_io_, next_page_id_, held, live, flushed, call, aborted, restarts>>
-----------------------------------------------------------------------------
(***************************************************************************)
(* FlushPage, DeletePage and FlushAllPages.                                *)
(***************************************************************************)

\* A page that is not mapped is answered false at once, changing nothing.
FlushPage(t, p) ==
    /\ "flush" \in Ops
    /\ At(t, "idle")
    /\ p \in live
    /\ page_table_[p] # NoFrame
    /\ CanShare
    /\ Enter(t, "flushLatch", p, page_table_[p], FALSE, FALSE)
    /\ UNCHANGED <<tableVars, frameVars, ioVars, clientVars, aborted, restarts>>

FlushLatch(t) ==
    /\ At(t, "flushLatch")
    /\ LatchFree(call[t])
    /\ Goto(t, "flushCheck")
    /\ UNCHANGED <<tableVars, frameVars, ioVars, clientVars, aborted, restarts>>

FlushCheck(t) ==
    LET f == call[t].frame
    IN  /\ At(t, "flushCheck")
        /\ \/ /\ NeedsFlush(f)
              /\ is_dirty_' = [is_dirty_ EXCEPT ![f] = FALSE]
              /\ Goto(t, "flushWrite")
              /\ UNCHANGED flushed
           \/ /\ ~NeedsFlush(f)
              /\ flushed' = [flushed EXCEPT ![call[t].page] = Promised(call[t].page)]
              /\ Return(t)
              /\ UNCHANGED is_dirty_
        /\ UNCHANGED <<tableVars, page_id_, pin_count_, data_, ioVars, held, wrote, live, latest,
                       aborted, restarts>>

FlushWrite(t) ==
    LET f == call[t].frame
    IN  /\ At(t, "flushWrite")
        /\ db_io_' = WritePage(db_io_, page_id_[f], data_[f])
        /\ flushed' = [flushed EXCEPT ![call[t].page] = Promised(call[t].page)]
        /\ Return(t)
        /\ UNCHANGED <<tableVars, frameVars, next_page_id_, version,
                       held, wrote, live, latest, aborted, restarts>>

\* DeallocatePage does nothing, so deleting a page that is not mapped only
\* ends the client's use of it.
DeletePage(t, p) ==
    /\ "delete" \in Ops
    /\ At(t, "idle")
    /\ p \in live
    /\ CanLock
    /\ \/ /\ page_table_[p] = NoFrame
          /\ live' = live \ {p}
          /\ UNCHANGED call
       \/ /\ page_table_[p] # NoFrame
          /\ Enter(t, "deleteLatch", p, page_table_[p], FALSE, FALSE)
          /\ UNCHANGED live
    /\ UNCHANGED <<tableVars, frameVars, ioVars, held, wrote, latest, flushed, aborted, restarts>>

DeleteLatch(t) ==
    LET c == call[t]
    IN  /\ At(t, "deleteLatch")
        /\ LatchFree(c)
        /\ \/ /\ pin_count_[c.frame] # 0
              /\ Return(t)
              /\ UNCHANGED <<tableVars, live>>
           \/ /\ pin_count_[c.frame] = 0
              /\ replacer_' = ReplacerAfterDelete(c.frame)
              /\ page_table_' = Erase(page_table_, c.page)
              /\ free_list_' = Append(free_list_, c.frame)
              /\ live' = live \ {c.page}
              /\ Goto(t, "deleteReset")
        /\ UNCHANGED <<frameVars, ioVars, held, wrote, latest, flushed, aborted, restarts>>

DeleteReset(t) ==
    LET f == call[t].frame
    IN  /\ At(t, "deleteReset")
        /\ data_' = [data_ EXCEPT ![f] = ResetData(f)]
        /\ page_id_' = [page_id_ EXCEPT ![f] = INVALID_PAGE_ID]
        /\ is_dirty_' = [is_dirty_ EXCEPT ![f] = FALSE]
        /\ Return(t)
        /\ UNCHANGED <<tableVars, pin_count_, ioVars, clientVars, aborted, restarts>>

\* FlushAllPages holds global_latch_ throughout and takes no page latch.
FlushAllPages(t) ==
    /\ "flushall" \in Ops
    /\ At(t, "idle")
    /\ CanLock
    /\ Enter(t, "flushAll", INVALID_PAGE_ID, 0, FALSE, FALSE)
    /\ UNCHANGED <<tableVars, frameVars, ioVars, clientVars, aborted, restarts>>

FlushAllFrame(t) ==
    LET f == call[t].frame
    IN  /\ At(t, "flushAll")
        /\ f < PoolSize
        /\ \/ /\ NeedsFlush(f)
              /\ db_io_' = WritePage(db_io_, page_id_[f], data_[f])
              /\ Goto(t, "flushAllClear")
           \/ /\ ~NeedsFlush(f)
              /\ call' = [call EXCEPT ![t].frame = f + 1]
              /\ UNCHANGED db_io_
        /\ UNCHANGED <<tableVars, frameVars, next_page_id_, version, clientVars,
                       aborted, restarts>>

FlushAllClear(t) ==
    LET f == call[t].frame
    IN  /\ At(t, "flushAllClear")
        /\ is_dirty_' = [is_dirty_ EXCEPT ![f] = FALSE]
        /\ call' = [call EXCEPT ![t].frame = f + 1, ![t].pc = "flushAll"]
        /\ UNCHANGED <<tableVars, page_id_, pin_count_, data_, ioVars, clientVars, aborted, restarts>>

FlushAllDone(t) ==
    /\ At(t, "flushAll")
    /\ call[t].frame = PoolSize
    /\ flushed' = [p \in PageIds |-> Promised(p)]
    /\ Return(t)
    /\ UNCHANGED <<tableVars, frameVars, ioVars, held, wrote, live, latest, aborted, restarts>>
-----------------------------------------------------------------------------
\* The process ends at any point, without flushing (lines 32-37), and a new one
\* opens the file: next_page_id_ starts again at 0.
Restart ==
    /\ aborted = "no"
    /\ restarts < MaxRestarts
    /\ restarts' = restarts + 1
    /\ Fresh(page_table_', free_list_', replacer_', page_id_', pin_count_', is_dirty_', data_',
             next_page_id_', call', held', wrote')
    /\ db_io_' = Reopened(db_io_)
    /\ live' = {p \in PageIds : p < db_io_.size}
    /\ latest' = db_io_.file
    /\ UNCHANGED <<version, flushed, aborted>>

Step(t) ==
    \/ EvictLatch(t) \/ EvictWrite(t) \/ EvictFill(t) \/ EvictFinish(t)
    \/ FlushLatch(t) \/ FlushCheck(t) \/ FlushWrite(t)
    \/ DeleteLatch(t) \/ DeleteReset(t)
    \/ FlushAllFrame(t) \/ FlushAllClear(t) \/ FlushAllDone(t)

Call(t) ==
    \/ NewPage(t) \/ FlushAllPages(t)
    \/ \E p \in PageIds :
          \/ FetchPage(t, p) \/ Write(t, p) \/ FlushPage(t, p) \/ DeletePage(t, p)
          \/ \E dirty \in BOOLEAN : UnpinPage(t, p, dirty)

Next ==
    \/ \E t \in Threads : Step(t) \/ Call(t)
    \/ Restart

Spec == Init /\ [][Next]_vars

\* A thread inside a call is eventually scheduled.
FairSpec == Spec /\ \A t \in Threads : WF_vars(Step(t))
-----------------------------------------------------------------------------
(***************************************************************************)
(* Properties.                                                             *)
(***************************************************************************)
Mapped(f) == \E p \in PageIds : page_table_[p] = f
OnFreeList(f) == \E i \in 1 .. Len(free_list_) : free_list_[i] = f

\* The frame some Evict has picked and whose metadata it has not yet set.
Evicting(f) ==
    \E t \in Threads : /\ call[t].pc \in {"evictLatch", "evictWrite", "evictFill", "evictFinish"}
                       /\ call[t].frame = f

\* Every frame is in exactly one place: free, or mapped by one page; a frame in
\* the replacer is mapped and unpinned, and every such frame is there, so a page
\* can be evicted exactly when nobody has it pinned.
FramesPartitioned ==
    /\ \A i, j \in 1 .. Len(free_list_) : free_list_[i] = free_list_[j] => i = j
    /\ \A f \in Frames : OnFreeList(f) <=> ~Mapped(f)
    /\ \A p, q \in PageIds : page_table_[p] = page_table_[q] /\ page_table_[p] # NoFrame => p = q
    /\ \A f \in Frames : f \in replacer_ <=> Mapped(f) /\ pin_count_[f] = 0 /\ ~Evicting(f)


\* Whoever holds a page and can take its latch sees that page, with the last
\* contents any client gave it.
HeldPagesCorrect ==
    \A t \in Threads, p \in PageIds :
        LET f == held[t][p]
        IN  f # NoFrame /\ ~Latched(f) =>
                page_table_[p] = f /\ page_id_[f] = p /\ data_[f] = latest[p]

\* The contents of every page that clients use are on disk, or in a frame that
\* is still to be written: nothing is lost by an eviction.
OnDisk(p) == ~db_io_.fail /\ p < db_io_.size /\ db_io_.file[p] = latest[p]

ToBeWritten(p, f) ==
    /\ page_id_[f] = p
    /\ data_[f] = latest[p]
    /\ \/ is_dirty_[f]
       \/ \E t \in Threads : p \in wrote[t] \/ (call[t].pc = "flushWrite" /\ call[t].frame = f)

NothingLost == \A p \in live : OnDisk(p) \/ \E f \in Frames : ToBeWritten(p, f)

\* What FlushPage or FlushAllPages wrote stays in the file through later
\* evictions and restarts, until the page is written again.
FlushedSurvives == \A p \in live : flushed[p] <= db_io_.file[p]

\* The assertions of Evict, FetchPage, NewPage and UnpinPage.
AssertsHold == aborted = "no"

\* Every call that holds global_latch_ exclusively or a page latch returns: no
\* two threads wait for each other.  A FlushPage waiting for its page latch is
\* left out, as the latch lets later writers overtake it.
CallsReturn == \A t \in Threads : []<>(call[t].pc \in {"idle", "flushLatch"})
=============================================================================
