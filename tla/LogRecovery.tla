---------------------------- MODULE LogRecovery ----------------------------
(***************************************************************************)
(* Write-ahead logging end to end: concurrency/transaction_manager.cpp     *)
(* with the logging of table_page.cpp, the write-back of                   *)
(* buffer_pool_manager.cpp, recovery/checkpoint_manager.cpp, a crash, and  *)
(* the Redo and Undo of recovery/log_recovery.cpp.                         *)
(*                                                                         *)
(* The log is a sequence of records; the record of LSN n is log[n + 1].    *)
(* `mem' is what the buffer pool shows of a page and `disk' the file.  An  *)
(* operation holds the latches of its pages from its first change to its   *)
(* last record and is one step; the flush thread, which may run between    *)
(* two records of it, may leave the last one out.  During recovery, which  *)
(* a crash may interrupt, the pool has a frame for every page.             *)
(***************************************************************************)
EXTENDS TablePage, FiniteSets, SequencesExt

CONSTANTS Inserts,     \* per transaction: the tuples it inserts
          MaxTxns,     \* transactions after the one that creates the table
          MaxOps,      \* inserts, updates and deletes of all transactions
          MaxPages,
          Hazards      \* what may happen of: "fetch_evict", "early_reuse",
                       \* "torn_rework", "lost_link", "recovery_evict" (see where
                       \* they are used)

INVALID_LSN == -1
Txns == 1 .. MaxTxns
PageIds == 1 .. MaxPages
NoTuple == <<>>

VARIABLES
    log, flushed,        \* the log, and how many of its records are in the file
    mem, disk,           \* per page: [page, lsn]
    state_, write_set_, prev_lsn_,  \* per transaction
    checkpoint,          \* how far BeginCheckpoint has come
    phase,               \* "run", "redo", "undo" or "done"
    offset_, active_txn_, undo,  \* LogRecovery: records read, its table, the LSN to undo
    aborted, ops,
    effect,              \* per transaction: rows its operations added, by tuple
    acked                \* the transactions whose Commit has returned

txnVars == <<state_, write_set_, prev_lsn_>>
recoveryVars == <<offset_, active_txn_, undo>>
vars == <<log, flushed, mem, disk, txnVars, checkpoint, phase, recoveryVars, aborted,
          ops, effect, acked>>

GetPersistentLSN == flushed - 1
NoEffect == [x \in Tuples |-> 0]
ZeroPage == [page |-> [NewTablePage(0) EXCEPT !.next = 0, !.free = 0], lsn |-> 0]
NoRecord == [type |-> "BEGIN", txn |-> 0, prev |-> INVALID_LSN, page |-> 0, slot |-> 0,
             old |-> NoTuple, new |-> NoTuple]

\* The table has been created by transaction 0, which has committed.
Init ==
    /\ log = <<NoRecord,
               [NoRecord EXCEPT !.type = "NEWPAGE", !.prev = 0, !.page = 1, !.slot = INVALID_PAGE_ID],
               [NoRecord EXCEPT !.type = "COMMIT", !.prev = 1]>>
    /\ flushed = 3
    /\ disk = [p \in PageIds |-> ZeroPage]
    /\ mem = [disk EXCEPT ![1] = [page |-> NewTablePage(INVALID_PAGE_ID), lsn |-> 1]]
    /\ state_ = [t \in Txns |-> "NEW"]
    /\ write_set_ = [t \in Txns |-> <<>>]
    /\ prev_lsn_ = [t \in Txns |-> INVALID_LSN]
    /\ checkpoint = "off" /\ phase = "run"
    /\ offset_ = 0 /\ active_txn_ = <<>> /\ undo = INVALID_LSN
    /\ aborted = FALSE /\ ops = 0
    /\ effect = [t \in Txns |-> NoEffect]
    /\ acked = {}

Active == {t \in Txns : state_[t] \notin {"NEW", "ENDED"}}
Ending == {t \in Txns : state_[t] \in {"COMMITTED", "ABORTED"}}

\* The pages of the table, in the order of a scan.
Chain(store) ==
    {1} \union {p \in PageIds : p = store[1].page.next}

RowsIn(store) == UNION {{<<p, s>> : s \in InUse(store[p].page)} : p \in Chain(store)}
Count(store, x) == Cardinality({r \in RowsIn(store) : Bytes(store[r[1]].page, r[2]) = x})
-----------------------------------------------------------------------------
IgnoresTransactions == TRUE

Record(t, type, p, s, old, new) ==
    [type |-> type, txn |-> t, prev |-> INVALID_LSN, page |-> p, slot |-> s, old |-> old, new |-> new]

\* AppendLogRecord: records of one transaction, each with the LSN of the one before.
PrevLSNs(t, n) == [i \in 1 .. n |-> IF i = 1 THEN prev_lsn_[t] ELSE Len(log) + i - 2]
Chained(t, records) ==
    [i \in DOMAIN records |-> [records[i] EXCEPT !.prev = PrevLSNs(t, Len(records))[i]]]
SetPrevLSN(t, records) == prev_lsn_' = [prev_lsn_ EXCEPT ![t] = Len(log) + Len(records) - 1]
AppendLogRecords(t, records) == log' = log \o Chained(t, records) /\ SetPrevLSN(t, records)

\* A page as changed by the last record of the step.
Changed(pg, records) == [page |-> pg, lsn |-> Len(log) + Len(records) - 1]

Growing(t) ==
    /\ phase = "run" /\ ~aborted
    /\ state_[t] = "GROWING"
    /\ "early_reuse" \notin Hazards => Ending = {}

Adds(t, x, y) ==
    effect' = [effect EXCEPT ![t] = [z \in Tuples |-> @[z] + (IF z = x THEN 1 ELSE 0) - (IF z = y THEN 1 ELSE 0)]]

Wrote(t, p, s, wtype, tuple) ==
    /\ write_set_' = [write_set_ EXCEPT ![t] = Append(@, [page |-> p, slot |-> s, wtype |-> wtype, tuple |-> tuple])]
    /\ ops' = ops + 1

Begin(t) ==
    /\ phase = "run" /\ ~aborted /\ checkpoint = "off"
    /\ state_[t] = "NEW" /\ \A u \in 1 .. t - 1 : state_[u] # "NEW"
    /\ state_' = [state_ EXCEPT ![t] = "GROWING"]
    /\ AppendLogRecords(t, <<Record(t, "BEGIN", 0, 0, NoTuple, NoTuple)>>)
    /\ UNCHANGED <<flushed, mem, disk, write_set_, checkpoint, phase, recoveryVars, aborted, ops, effect, acked>>

\* The first page of the chain with room, or a new page behind the last.
InsertRow(t, tuple) ==
    /\ Growing(t) /\ ops < MaxOps
    /\ \/ \E p \in Chain(mem) :
             /\ HasRoom(mem[p].page, tuple)
             /\ \A q \in Chain(mem) : q < p => ~HasRoom(mem[q].page, tuple)
             /\ LET s == FreeSlot(mem[p].page)
                    records == <<Record(t, "INSERT", p, s, NoTuple, tuple)>>
                IN  /\ AppendLogRecords(t, records)
                    /\ mem' = [mem EXCEPT ![p] = Changed(InsertTuple(@.page, tuple), records)]
                    /\ Wrote(t, p, s, "INSERT", NoTuple)
       \/ \E p \in PageIds \ Chain(mem) :
             /\ \A q \in Chain(mem) : ~HasRoom(mem[q].page, tuple)
             /\ LET last == p - 1
                    records == <<Record(t, "NEWPAGE", p, last, NoTuple, NoTuple),
                                 Record(t, "INSERT", p, 1, NoTuple, tuple)>>
                IN  /\ last \in Chain(mem)
                    /\ AppendLogRecords(t, records)
                    /\ mem' = [mem EXCEPT ![p] = Changed(InsertTuple(NewTablePage(last), tuple), records),
                                          ![last].page.next = p]
                    /\ Wrote(t, p, 1, "INSERT", NoTuple)
    /\ Adds(t, tuple, NoTuple)
    /\ UNCHANGED <<flushed, disk, state_, checkpoint, phase, recoveryVars, aborted, acked>>

\* Rows no other transaction has written: the lock manager grants every lock,
\* keeping apart is left to the clients.
Writable(t) ==
    {r \in RowsIn(mem) :
        /\ IsLive(mem[r[1]].page, r[2])
        /\ \A u \in Active \ {t} : \A i \in DOMAIN write_set_[u] :
              <<write_set_[u][i].page, write_set_[u][i].slot>> # r}

\* An update to the same tuple is left out: it changes nothing but the log.
UpdateRow(t, r, tuple) ==
    LET p == r[1]
        old == Bytes(mem[p].page, r[2])
        records == <<Record(t, "UPDATE", p, r[2], old, tuple)>>
    IN  /\ Growing(t) /\ ops < MaxOps
        /\ tuple # old /\ CanUpdate(mem[p].page, r[2], tuple)
        /\ AppendLogRecords(t, records)
        /\ mem' = [mem EXCEPT ![p] = Changed(UpdateTuple(@.page, r[2], tuple), records)]
        /\ Wrote(t, p, r[2], "UPDATE", old)
        /\ Adds(t, tuple, old)
        /\ UNCHANGED <<flushed, disk, state_, checkpoint, phase, recoveryVars, aborted, acked>>

DeleteRow(t, r) ==
    LET p == r[1]
        records == <<Record(t, "MARKDELETE", p, r[2], NoTuple, NoTuple)>>
    IN  /\ Growing(t) /\ ops < MaxOps
        /\ AppendLogRecords(t, records)
        /\ mem' = [mem EXCEPT ![p] = Changed(MarkDelete(@.page, r[2]), records)]
        /\ Wrote(t, p, r[2], "DELETE", NoTuple)
        /\ Adds(t, NoTuple, Bytes(mem[p].page, r[2]))
        /\ UNCHANGED <<flushed, disk, state_, checkpoint, phase, recoveryVars, aborted, acked>>
-----------------------------------------------------------------------------
(***************************************************************************)
(* Commit and Abort.                                                       *)
(***************************************************************************)
End(t, state) ==
    /\ Growing(t)
    /\ state_' = [state_ EXCEPT ![t] = state]
    /\ UNCHANGED <<log, flushed, mem, disk, write_set_, prev_lsn_, checkpoint, phase, recoveryVars, aborted, ops,
                   effect, acked>>
Commit(t) == End(t, "COMMITTED")
Abort(t) == End(t, "ABORTED")

\* One change of a page on behalf of a transaction that ends.
ChangesPage(t, w, type, old, new, pg) ==
    LET records == <<Record(t, type, w.page, w.slot, old, new)>>
    IN  /\ AppendLogRecords(t, records)
        /\ mem' = [mem EXCEPT ![w.page] = Changed(pg, records)]
        /\ UNCHANGED aborted

Applies(t, w) ==
    LET pg == mem[w.page].page
    IN  IF MayApplyDelete(pg, w.slot)
        THEN ChangesPage(t, w, "APPLYDELETE", Bytes(pg, w.slot), NoTuple, ApplyDelete(pg, w.slot))
        ELSE aborted' = TRUE /\ UNCHANGED <<log, prev_lsn_, mem>>

\* One turn of the loop over the write set, from its end: Commit applies the
\* deletes, Abort takes everything back.
EndsOne(t) ==
    LET w == Last(write_set_[t])
        pg == mem[w.page].page
        row == Bytes(pg, w.slot)
    IN  /\ phase = "run" /\ ~aborted
        /\ t \in Ending /\ write_set_[t] # <<>>
        /\ \/ /\ state_[t] = "COMMITTED" /\ w.wtype # "DELETE"
              /\ UNCHANGED <<log, prev_lsn_, mem, aborted>>
           \/ /\ \/ state_[t] = "COMMITTED" /\ w.wtype = "DELETE"
                 \/ state_[t] = "ABORTED" /\ w.wtype = "INSERT"
              /\ Applies(t, w)
           \/ /\ state_[t] = "ABORTED" /\ w.wtype = "DELETE"
              /\ ChangesPage(t, w, "ROLLBACKDELETE", NoTuple, NoTuple, RollbackDelete(pg, w.slot))
           \/ /\ state_[t] = "ABORTED" /\ w.wtype = "UPDATE"
              /\ IF CanUpdate(pg, w.slot, w.tuple)
                 THEN ChangesPage(t, w, "UPDATE", row, w.tuple, UpdateTuple(pg, w.slot, w.tuple))
                 ELSE UNCHANGED <<log, prev_lsn_, mem, aborted>>
        /\ write_set_' = [write_set_ EXCEPT ![t] = Front(@)]
        /\ UNCHANGED <<flushed, disk, state_, checkpoint, phase, recoveryVars, ops, effect, acked>>

\* The COMMIT or ABORT record; the caller then waits for a flush.
LogsEnd(t) ==
    /\ phase = "run" /\ ~aborted
    /\ t \in Ending /\ write_set_[t] = <<>>
    /\ AppendLogRecords(t, <<Record(t, IF state_[t] = "COMMITTED" THEN "COMMIT" ELSE "ABORT", 0, 0, NoTuple, NoTuple)>>)
    /\ state_' = [state_ EXCEPT ![t] = IF @ = "COMMITTED" THEN "COMMITTING" ELSE "ABORTING"]
    /\ UNCHANGED <<flushed, mem, disk, write_set_, checkpoint, phase, recoveryVars, aborted, ops, effect, acked>>

IsFlushed(t) == prev_lsn_[t] <= GetPersistentLSN

Returns(t) ==
    /\ phase = "run" /\ ~aborted
    /\ state_[t] \in {"COMMITTING", "ABORTING"}
    /\ IsFlushed(t)
    /\ acked' = IF state_[t] = "COMMITTING" THEN acked \union {t} ELSE acked
    /\ state_' = [state_ EXCEPT ![t] = "ENDED"]
    /\ UNCHANGED <<log, flushed, mem, disk, write_set_, prev_lsn_, checkpoint, phase, recoveryVars, aborted, ops,
                   effect>>
-----------------------------------------------------------------------------
(***************************************************************************)
(* The flush thread, the write-back of pages and checkpoints.              *)
(***************************************************************************)
\* Everything, or everything but the last record, which may be the second of
\* an operation.
FlushLog(n) ==
    /\ phase = "run" /\ ~aborted
    /\ n > flushed
    /\ flushed' = n
    /\ UNCHANGED <<log, mem, disk, txnVars, checkpoint, phase, recoveryVars, aborted, ops,
                   effect, acked>>

\* The log is forced when the page is evicted for a new page.
ForceLog(p) == flushed' = IF GetPersistentLSN < mem[p].lsn THEN Len(log) ELSE flushed

\* Evict writes back a dirty page.  With "fetch_evict" also a page whose
\* records are not in the log file is evicted by a FetchPage, and with
\* "lost_link" a page is written before the page that links to it.  With
\* "recovery_evict" a page is evicted during recovery, when logging is off and
\* nothing is forced; Redo has not set its LSN.
Evict(p, new_page) ==
    /\ phase = "run" \/ "recovery_evict" \in Hazards
    /\ ~aborted
    /\ mem[p] # disk[p]
    /\ "lost_link" \notin Hazards => \A q \in PageIds : mem[q].page.next = p => disk[q].page.next = p
    /\ IF phase = "run" /\ new_page THEN ForceLog(p)
       ELSE /\ "fetch_evict" \notin Hazards => mem[p].lsn <= GetPersistentLSN
            /\ UNCHANGED flushed
    /\ disk' = [disk EXCEPT ![p] = mem[p]]
    /\ UNCHANGED <<log, mem, txnVars, checkpoint, phase, recoveryVars, aborted, ops, effect, acked>>

TransactionsBlocked == Active = {}

\* BlockAllTransactions: global_txn_latch_ is held shared from Begin to the end
\* of a transaction.  A checkpoint that still waits for it only keeps Begin from
\* being called, as clients may by themselves.
BeginCheckpoint ==
    /\ phase = "run" /\ ~aborted /\ checkpoint = "off" /\ TransactionsBlocked
    /\ checkpoint' = "entered"
    /\ UNCHANGED <<log, flushed, mem, disk, txnVars, phase, recoveryVars, aborted, ops, effect, acked>>

CheckpointLog ==
    /\ phase = "run" /\ ~aborted /\ checkpoint = "entered"
    /\ checkpoint' = "log" /\ flushed' = Len(log)
    /\ UNCHANGED <<log, mem, disk, txnVars, phase, recoveryVars, aborted, ops, effect, acked>>

CheckpointPages ==
    /\ phase = "run" /\ ~aborted /\ checkpoint = "log"
    /\ checkpoint' = "pages" /\ disk' = mem
    /\ UNCHANGED <<log, flushed, mem, txnVars, phase, recoveryVars, aborted, ops, effect, acked>>

EndCheckpoint ==
    /\ phase = "run" /\ ~aborted /\ checkpoint = "pages"
    /\ checkpoint' = "off"
    /\ UNCHANGED <<log, flushed, mem, disk, txnVars, phase, recoveryVars, aborted, ops, effect, acked>>
-----------------------------------------------------------------------------
(***************************************************************************)
(* Crash, Redo and Undo.                                                   *)
(***************************************************************************)
EndedIn(records) == {records[i].txn : i \in {j \in DOMAIN records : records[j].type \in {"COMMIT", "ABORT"}}}
CommittedIn(records) == {records[i].txn : i \in {j \in DOMAIN records : records[j].type = "COMMIT"}}

\* A log that stops between the APPLYDELETE of a row and the end of the
\* transaction, which had inserted or updated the row before.
TornRework(records) ==
    \E i, j \in DOMAIN records :
        /\ i < j /\ records[i].txn = records[j].txn /\ records[i].txn \notin EndedIn(records)
        /\ records[i].type \in {"INSERT", "UPDATE"} /\ records[j].type = "APPLYDELETE"
        /\ <<records[i].page, records[i].slot>> = <<records[j].page, records[j].slot>>

\* A crash, also of a recovery that is under way or has just ended; the next
\* one begins with an empty pool and a new LogRecovery.
Crash ==
    LET records == SubSeq(log, 1, flushed)
    IN  /\ ~aborted
        /\ phase = "run" /\ "torn_rework" \notin Hazards => ~TornRework(records)
        /\ phase' = "redo"
        /\ log' = records /\ mem' = disk
        /\ state_' = [t \in Txns |-> "NEW"] /\ write_set_' = [t \in Txns |-> <<>>]
        /\ prev_lsn_' = [t \in Txns |-> INVALID_LSN]
        /\ checkpoint' = "off" /\ ops' = 0 /\ acked' = {}
        /\ effect' = [t \in Txns |-> IF t \in CommittedIn(records) THEN effect[t] ELSE NoEffect]
        /\ offset_' = 0 /\ active_txn_' = <<>> /\ undo' = INVALID_LSN
        /\ UNCHANGED <<flushed, disk, aborted>>

NeedsRedo(p, lsn) == mem[p].lsn < lsn

\* The page after the operation of the record has been repeated.
Redone(r) ==
    LET pg == mem[r.page].page
    IN  CASE r.type = "NEWPAGE" -> NewTablePage(r.slot)
          [] r.type = "INSERT" -> IF HasRoom(pg, r.new) THEN InsertTuple(pg, r.new) ELSE pg
          [] r.type = "UPDATE" -> IF CanUpdate(pg, r.slot, r.new) THEN UpdateTuple(pg, r.slot, r.new) ELSE pg
          [] r.type = "MARKDELETE" -> MarkDelete(pg, r.slot)
          [] r.type = "APPLYDELETE" -> ApplyDelete(pg, r.slot)
          [] r.type = "ROLLBACKDELETE" -> RollbackDelete(pg, r.slot)

\* The assertions the repeated operation runs into.
RedoAsserts(r) ==
    LET pg == mem[r.page].page
    IN  /\ r.type = "APPLYDELETE" => MayApplyDelete(pg, r.slot)
        /\ r.type = "ROLLBACKDELETE" => r.slot \in DOMAIN pg.slots

IsPageRecord(r) == r.type \notin {"BEGIN", "COMMIT", "ABORT"}

\* A new page is linked to from the page before it.
Linked(store, r) ==
    IF r.type = "NEWPAGE" /\ r.slot # INVALID_PAGE_ID THEN [store EXCEPT ![r.slot].page.next = r.page] ELSE store

Without(f, t) == [u \in DOMAIN f \ {t} |-> f[u]]

\* Redo: one record.  The LSN of the page stays as it is.
Redo ==
    LET r == log[offset_ + 1]
        redo == IsPageRecord(r) /\ NeedsRedo(r.page, offset_)
    IN  /\ phase = "redo" /\ ~aborted /\ offset_ < Len(log)
        /\ active_txn_' = IF r.type \in {"COMMIT", "ABORT"} THEN Without(active_txn_, r.txn)
                          ELSE (r.txn :> offset_) @@ active_txn_
        /\ aborted' = (redo /\ ~RedoAsserts(r))
        /\ mem' = IF redo /\ RedoAsserts(r) THEN Linked([mem EXCEPT ![r.page].page = Redone(r)], r) ELSE mem
        /\ offset_' = offset_ + 1
        /\ UNCHANGED <<log, flushed, disk, txnVars, checkpoint, phase, undo, ops, effect, acked>>

BeginUndo ==
    /\ phase = "redo" /\ ~aborted /\ offset_ = Len(log)
    /\ phase' = "undo"
    /\ UNCHANGED <<log, flushed, mem, disk, txnVars, checkpoint, recoveryVars, aborted, ops, effect, acked>>

\* The loop over active_txn_, in the order of an unordered_map.
UndoTxn(t) ==
    /\ phase = "undo" /\ ~aborted /\ undo = INVALID_LSN
    /\ t \in DOMAIN active_txn_
    /\ undo' = active_txn_[t]
    /\ active_txn_' = Without(active_txn_, t)
    /\ UNCHANGED <<log, flushed, mem, disk, txnVars, checkpoint, phase, offset_, aborted, ops, effect, acked>>

Undone(r) ==
    LET pg == mem[r.page].page
    IN  CASE r.type = "INSERT" -> ApplyDelete(pg, r.slot)
          [] r.type = "UPDATE" -> UpdateTuple(pg, r.slot, r.old)
          [] r.type = "MARKDELETE" -> RollbackDelete(pg, r.slot)
          [] r.type = "APPLYDELETE" -> IF HasRoom(pg, r.old) THEN InsertTuple(pg, r.old) ELSE pg
          [] r.type = "ROLLBACKDELETE" -> MarkDelete(pg, r.slot)
          [] OTHER -> pg

UndoAsserts(r) ==
    LET pg == mem[r.page].page
    IN  /\ r.type \notin {"COMMIT", "ABORT"}
        /\ r.type = "INSERT" => MayApplyDelete(pg, r.slot)
        /\ r.type = "UPDATE" => CanUpdate(pg, r.slot, r.old) /\ Bytes(pg, r.slot) = r.new
        /\ r.type = "MARKDELETE" => r.slot \in DOMAIN pg.slots

Undo ==
    LET r == log[undo + 1]
    IN  /\ phase = "undo" /\ ~aborted /\ undo # INVALID_LSN
        /\ aborted' = ~UndoAsserts(r)
        /\ mem' = IF IsPageRecord(r) /\ UndoAsserts(r) THEN [mem EXCEPT ![r.page].page = Undone(r)] ELSE mem
        /\ undo' = r.prev
        /\ UNCHANGED <<log, flushed, disk, txnVars, checkpoint, phase, offset_, active_txn_, ops, effect, acked>>

EndUndo ==
    /\ phase = "undo" /\ ~aborted /\ undo = INVALID_LSN /\ active_txn_ = <<>>
    /\ phase' = "done"
    /\ UNCHANGED <<log, flushed, mem, disk, txnVars, checkpoint, recoveryVars, aborted, ops, effect, acked>>

Next ==
    \/ \E t \in {u \in Txns : phase = "run"} :
          \/ Begin(t) \/ Commit(t) \/ Abort(t) \/ EndsOne(t) \/ LogsEnd(t) \/ Returns(t)
          \/ \E tuple \in Inserts[t] : InsertRow(t, tuple)
          \/ \E tuple \in Tuples, r \in Writable(t) : UpdateRow(t, r, tuple)
          \/ \E r \in Writable(t) : DeleteRow(t, r)
    \/ \E n \in {Len(log) - 1, Len(log)} : FlushLog(n)
    \/ \E p \in PageIds, new_page \in BOOLEAN : Evict(p, new_page)
    \/ BeginCheckpoint \/ CheckpointLog \/ CheckpointPages \/ EndCheckpoint
    \/ Crash
    \/ Redo \/ BeginUndo \/ (\E t \in 0 .. MaxTxns : UndoTxn(t)) \/ Undo \/ EndUndo

Spec == Init /\ [][Next]_vars
-----------------------------------------------------------------------------
(***************************************************************************)
(* Properties.                                                             *)
(***************************************************************************)
Expected(x) == MapThenSumSet(LAMBDA t : effect[t][x], CommittedIn(log) \ {0})

\* "it needs to flush logs up to pageLSN" (buffer_pool_manager.cpp:223): no page
\* is on disk with a change whose record is not in the log file.
WriteAhead == \A p \in PageIds : disk[p].lsn <= GetPersistentLSN


\* "creating a consistent checkpoint" (checkpoint_manager.cpp:19): between
\* BeginCheckpoint and EndCheckpoint the file holds exactly what has been committed.
CheckpointConsistent ==
    checkpoint = "pages" => \A x \in Tuples : Count(disk, x) = Expected(x)
=============================================================================
