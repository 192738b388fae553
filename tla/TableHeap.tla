----------------------------- MODULE TableHeap -----------------------------
(***************************************************************************)
(* storage/table/table_heap.cpp, table_iterator.cpp and, for the write set *)
(* of a transaction, concurrency/transaction_manager.cpp, without logging. *)
(*                                                                         *)
(* A page is changed under its latch, so the work of one call on one page  *)
(* is one step; what happens between two pages, between the two halves of  *)
(* WLatch and inside the iterator, which reads a tuple while it holds the  *)
(* latch of its page, is separate steps.  The buffer pool always finds a   *)
(* frame for an existing page; page ids are handed out from 1.             *)
(***************************************************************************)
EXTENDS TablePage, FiniteSets, SequencesExt

CONSTANTS Threads,
          MaxPages,      \* pages the buffer pool can provide
          MaxOps,        \* operations of all transactions
          MaxTxns,       \* transactions that end
          MayShrink,     \* whether updates may make a tuple smaller
          MayConflict    \* whether a transaction may write tuples that others,
                         \* or itself, have written and not yet committed

ASSUME HeapAssumption ==
    /\ PAGE_SIZE \in Nat /\ SIZE_TABLE_PAGE_HEADER \in Nat /\ SIZE_TUPLE \in Nat
    /\ \A tuple \in Tuples : Len(tuple) > 0

VARIABLES
    pages,       \* the pages of the heap, by page id
    latch,       \* per page: writer_entered_ and reader_count_ of its latch
    state_, write_set_,  \* per thread: its transaction
    ops, txns,   \* operations started, transactions ended or ending
    call,        \* per thread: the operation it is in
    aborted,     \* an assertion has failed
    before,      \* per thread: the rows its transaction wrote, as they were
    must, seen   \* per thread: rows its scan has to see, and has seen

txnVars == <<state_, write_set_, ops, txns, before>>
scanVars == <<must, seen>>
vars == <<pages, latch, txnVars, call, aborted, scanVars>>

PageIds == 1 .. MaxPages
NoTuple == <<>>
Idle == [op |-> "idle", page |-> 1, slot |-> 0, tuple |-> NoTuple, entered |-> FALSE]
Free == [writer_entered_ |-> FALSE, reader_count_ |-> 0]
NoRow == [tuple |-> NoTuple, deleted |-> FALSE]

Rids == UNION {{<<p, s>> : s \in DOMAIN pages[p].slots} : p \in DOMAIN pages}
RowIn(heap, p, s) == IF p \in DOMAIN heap /\ s \in InUse(heap[p]) THEN Rows(heap[p])[s] ELSE NoRow
Row(p, s) == RowIn(pages, p, s)
RidsInUse == {rid \in Rids : Row(rid[1], rid[2]) # NoRow}

Init ==
    /\ pages = <<NewTablePage(INVALID_PAGE_ID)>>
    /\ latch = [p \in PageIds |-> Free]
    /\ state_ = [t \in Threads |-> "GROWING"]
    /\ write_set_ = [t \in Threads |-> <<>>]
    /\ ops = 0 /\ txns = 0
    /\ call = [t \in Threads |-> Idle]
    /\ aborted = FALSE
    /\ before = [t \in Threads |-> {}]
    /\ must = [t \in Threads |-> {}] /\ seen = [t \in Threads |-> <<>>]
-----------------------------------------------------------------------------
(***************************************************************************)
(* Latches and the bookkeeping of an operation.                            *)
(***************************************************************************)
Page(t) == pages[call[t].page]
At(t, op) == call[t].op = op /\ ~aborted

CanRead(p) == ~latch[p].writer_entered_

WriteOps == {"insert", "markDelete", "update", "applyDelete", "rollbackInsert", "rollbackDelete",
             "rollbackUpdate"}

\* The first half of WLatch.
WEnter(t) ==
    /\ ~aborted
    /\ call[t].op \in WriteOps
    /\ ~call[t].entered
    /\ ~latch[call[t].page].writer_entered_
    /\ latch' = [latch EXCEPT ![call[t].page].writer_entered_ = TRUE]
    /\ call' = [call EXCEPT ![t].entered = TRUE]
    /\ UNCHANGED <<pages, txnVars, aborted, scanVars>>

\* The second half of WLatch; `next' is the call once the page is unlatched.
Writes(t, op, next) ==
    /\ At(t, op)
    /\ call[t].entered
    /\ latch[call[t].page].reader_count_ = 0
    /\ latch' = [latch EXCEPT ![call[t].page].writer_entered_ = FALSE]
    /\ call' = [call EXCEPT ![t] = next]

SetPage(pg, t) == pages' = [pages EXCEPT ![call[t].page] = pg]

\* Notes how a row was before the transaction first wrote it.
Remember(t, p, s) ==
    before' = [before EXCEPT ![t] =
                   IF \E b \in @ : b.page = p /\ b.slot = s THEN @
                   ELSE @ \union {[page |-> p, slot |-> s, row |-> Row(p, s)]}]

Record(t, p, s, wtype, tuple) ==
    write_set_' = [write_set_ EXCEPT ![t] = Append(@, [page |-> p, slot |-> s, wtype |-> wtype, tuple |-> tuple])]

\* A client starts an operation of its transaction.
Start(t, c) ==
    /\ At(t, "idle")
    /\ state_[t] = "GROWING"
    /\ ops < MaxOps
    /\ ops' = ops + 1
    /\ call' = [call EXCEPT ![t] = c]
    /\ UNCHANGED <<pages, latch, write_set_, txns, before, aborted>>

\* The rows a client may write: with MayConflict any row that exists or did, and
\* otherwise, as two-phase locking would have it, rows no other transaction has
\* written, and no row twice deleted.
Writable(t) ==
    {rid \in Rids :
        \/ MayConflict
        \/ /\ IsLive(pages[rid[1]], rid[2])
           /\ \A u \in Threads \ {t} :
                 /\ \A i \in DOMAIN write_set_[u] :
                       <<write_set_[u][i].page, write_set_[u][i].slot>> # rid
                 /\ call[u].op \in WriteOps => <<call[u].page, call[u].slot>> # rid}
-----------------------------------------------------------------------------
RollsBackInOrder(t) == write_set_[t][1]
NeverPops(t) == UNCHANGED write_set_
SkipsASlot(pg, s) == NextSlot(pg, s + 1)

BeginInsert(t, tuple) ==
    /\ Start(t, [Idle EXCEPT !.op = "insert", !.tuple = tuple])
    /\ Len(tuple) + SIZE_TABLE_PAGE_HEADER + SIZE_TUPLE <= PAGE_SIZE
    /\ UNCHANGED <<state_, scanVars>>

\* Line 40: a tuple larger than a page.
InsertTooLarge(t, tuple) ==
    /\ Start(t, Idle)
    /\ Len(tuple) + SIZE_TABLE_PAGE_HEADER + SIZE_TUPLE > PAGE_SIZE
    /\ state_' = [state_ EXCEPT ![t] = "ABORTED"]
    /\ UNCHANGED scanVars

InsertHere(t) ==
    /\ Writes(t, "insert", Idle)
    /\ HasRoom(Page(t), call[t].tuple)
    /\ SetPage(InsertTuple(Page(t), call[t].tuple), t)
    /\ Remember(t, call[t].page, FreeSlot(Page(t)))
    /\ Record(t, call[t].page, FreeSlot(Page(t)), "INSERT", NoTuple)
    /\ UNCHANGED <<state_, ops, txns, aborted, scanVars>>

InsertNextPage(t) ==
    /\ Writes(t, "insert", [call[t] EXCEPT !.page = Page(t).next, !.entered = FALSE])
    /\ ~HasRoom(Page(t), call[t].tuple)
    /\ Page(t).next # INVALID_PAGE_ID
    /\ UNCHANGED <<pages, txnVars, aborted, scanVars>>

LinkTo(pg, id) == [pg EXCEPT !.next = id]

\* The new page is latched before it is linked and until the tuple is in it.
InsertNewPage(t) ==
    LET id == Len(pages) + 1
        pg == NewTablePage(call[t].page)
    IN  /\ Writes(t, "insert", Idle)
        /\ ~HasRoom(Page(t), call[t].tuple)
        /\ Page(t).next = INVALID_PAGE_ID
        /\ id \in PageIds
        /\ pages' = Append([pages EXCEPT ![call[t].page] = LinkTo(@, id)], InsertTuple(pg, call[t].tuple))
        /\ Remember(t, id, 1)
        /\ Record(t, id, 1, "INSERT", NoTuple)
        /\ UNCHANGED <<state_, ops, txns, aborted, scanVars>>

\* Line 66: the buffer pool has no page left.
InsertNoPage(t) ==
    /\ Writes(t, "insert", Idle)
    /\ ~HasRoom(Page(t), call[t].tuple)
    /\ Page(t).next = INVALID_PAGE_ID
    /\ Len(pages) = MaxPages
    /\ state_' = [state_ EXCEPT ![t] = "ABORTED"]
    /\ UNCHANGED <<pages, write_set_, ops, txns, before, aborted, scanVars>>
-----------------------------------------------------------------------------
(***************************************************************************)
(* MarkDelete and UpdateTuple.                                             *)
(***************************************************************************)
BeginWrite(t, rid, op, tuple) ==
    /\ Start(t, [Idle EXCEPT !.op = op, !.page = rid[1], !.slot = rid[2], !.tuple = tuple])
    /\ rid \in Writable(t)
    /\ UNCHANGED <<state_, scanVars>>

BeginMarkDelete(t) == \E rid \in Rids : BeginWrite(t, rid, "markDelete", NoTuple)

BeginUpdate(t, tuple) ==
    \E rid \in Rids :
        /\ BeginWrite(t, rid, "update", tuple)
        /\ MayShrink \/ Len(tuple) >= Len(Row(rid[1], rid[2]).tuple)

\* The result of the page's MarkDelete is ignored.
HeapMarkDelete(t) ==
    /\ Writes(t, "markDelete", Idle)
    /\ SetPage(MarkDelete(Page(t), call[t].slot), t)
    /\ Remember(t, call[t].page, call[t].slot)
    /\ Record(t, call[t].page, call[t].slot, "DELETE", NoTuple)
    /\ UNCHANGED <<state_, ops, txns, aborted, scanVars>>

HeapUpdate(t) ==
    /\ Writes(t, "update", Idle)
    /\ CanUpdate(Page(t), call[t].slot, call[t].tuple)
    /\ SetPage(UpdateTuple(Page(t), call[t].slot, call[t].tuple), t)
    /\ Remember(t, call[t].page, call[t].slot)
    /\ Record(t, call[t].page, call[t].slot, "UPDATE", Bytes(Page(t), call[t].slot))
    /\ UNCHANGED <<state_, ops, txns, aborted, scanVars>>

HeapUpdateFails(t) ==
    /\ Writes(t, "update", Idle)
    /\ ~CanUpdate(Page(t), call[t].slot, call[t].tuple)
    /\ UNCHANGED <<pages, txnVars, aborted, scanVars>>
-----------------------------------------------------------------------------
(***************************************************************************)
(* Commit and Abort: the write set from its end.                           *)
(***************************************************************************)
Ending == [Idle EXCEPT !.op = "ending"]

Commit(t) ==
    /\ At(t, "idle") /\ state_[t] = "GROWING" /\ txns < MaxTxns
    /\ state_' = [state_ EXCEPT ![t] = "COMMITTED"]
    /\ txns' = txns + 1
    /\ call' = [call EXCEPT ![t] = Ending]
    /\ UNCHANGED <<pages, latch, write_set_, ops, before, aborted, scanVars>>

\* A client aborts when it likes, and when its transaction was told to.
Abort(t) ==
    /\ At(t, "idle") /\ state_[t] \in {"GROWING", "ABORTED"} /\ txns < MaxTxns
    /\ state_' = [state_ EXCEPT ![t] = "ABORTED"]
    /\ txns' = txns + 1
    /\ call' = [call EXCEPT ![t] = Ending]
    /\ UNCHANGED <<pages, latch, write_set_, ops, before, aborted, scanVars>>

Back(t) == Last(write_set_[t])

\* What Commit and Abort do for a write record; "none" is nothing.
Undo(state, wtype) ==
    CASE state = "COMMITTED" -> IF wtype = "DELETE" THEN "applyDelete" ELSE "none"
      [] wtype = "INSERT" -> "rollbackInsert"
      [] wtype = "DELETE" -> "rollbackDelete"
      [] wtype = "UPDATE" -> "rollbackUpdate"

Pop(t) == write_set_' = [write_set_ EXCEPT ![t] = Front(@)]

EndItem(t) ==
    /\ At(t, "ending")
    /\ write_set_[t] # <<>>
    /\ LET op == Undo(state_[t], Back(t).wtype)
       IN  IF op = "none"
           THEN Pop(t) /\ UNCHANGED call
           ELSE /\ call' = [call EXCEPT ![t] = [Idle EXCEPT !.op = op, !.page = Back(t).page,
                                                    !.slot = Back(t).slot, !.tuple = Back(t).tuple]]
                /\ UNCHANGED write_set_
    /\ UNCHANGED <<pages, latch, state_, ops, txns, before, aborted, scanVars>>

\* ApplyDelete of the heap, with the assertions of the page; a scan need no
\* longer see the row.
HeapApplyDelete(t, op) ==
    /\ Writes(t, op, Ending)
    /\ aborted' = ~MayApplyDelete(Page(t), call[t].slot)
    /\ pages' = IF aborted' THEN pages ELSE [pages EXCEPT ![call[t].page] = ApplyDelete(@, call[t].slot)]
    /\ must' = [u \in Threads |-> must[u] \ {<<call[t].page, call[t].slot>>}]
    /\ Pop(t)
    /\ UNCHANGED <<state_, ops, txns, before, seen>>

HeapRollbackDelete(t) ==
    /\ Writes(t, "rollbackDelete", Ending)
    /\ SetPage(RollbackDelete(Page(t), call[t].slot), t)
    /\ Pop(t)
    /\ UNCHANGED <<state_, ops, txns, before, aborted, scanVars>>

\* The result of UpdateTuple is ignored; an aborted transaction records nothing.
HeapRollbackUpdate(t) ==
    /\ Writes(t, "rollbackUpdate", Ending)
    /\ SetPage(IF CanUpdate(Page(t), call[t].slot, call[t].tuple)
               THEN UpdateTuple(Page(t), call[t].slot, call[t].tuple) ELSE Page(t), t)
    /\ Pop(t)
    /\ UNCHANGED <<state_, ops, txns, before, aborted, scanVars>>

\* The thread's next transaction begins.
EndTxn(t) ==
    /\ At(t, "ending")
    /\ write_set_[t] = <<>>
    /\ call' = [call EXCEPT ![t] = Idle]
    /\ state_' = [state_ EXCEPT ![t] = "GROWING"]
    /\ before' = [before EXCEPT ![t] = {}]
    /\ UNCHANGED <<pages, latch, write_set_, ops, txns, aborted, scanVars>>
-----------------------------------------------------------------------------
(***************************************************************************)
(* A scan with TableIterator, from Begin to End.                           *)
(***************************************************************************)
ScanTo(t, op, p, s) ==
    call' = [call EXCEPT ![t].op = op, ![t].page = p, ![t].slot = s]
Visits(t, p, s) == seen' = [seen EXCEPT ![t] = Append(@, <<p, s>>)]

BeginScan(t) ==
    /\ Start(t, [Idle EXCEPT !.op = "scanBegin"])
    /\ seen' = [seen EXCEPT ![t] = <<>>]
    /\ must' = [must EXCEPT ![t] = {}]
    /\ UNCHANGED state_

\* Begin: the first tuple of the first page, or EOF.
ScanBegin(t) ==
    LET s == NextSlot(pages[1], 0)
    IN  /\ At(t, "scanBegin")
        /\ CanRead(1)
        /\ must' = [must EXCEPT ![t] = RidsInUse]
        /\ IF s = 0 THEN /\ call' = [call EXCEPT ![t] = Idle] /\ UNCHANGED seen
                    ELSE /\ ScanTo(t, "scanFirst", 1, s) /\ Visits(t, 1, s)
        /\ UNCHANGED <<pages, latch, txnVars, aborted>>

\* The constructor reads the first tuple.
ScanFirst(t) ==
    /\ At(t, "scanFirst")
    /\ CanRead(call[t].page)
    /\ ScanTo(t, "scanNext", call[t].page, call[t].slot)
    /\ UNCHANGED <<pages, latch, txnVars, aborted, scanVars>>

SlotAfter(pg, s) == NextSlot(pg, s)

\* operator++ on a page: it stays latched when it has a next tuple; slot 0
\* means that the page was just reached from the one before.
ScanNext(t) ==
    LET p == call[t].page
        s == SlotAfter(Page(t), call[t].slot)
    IN  /\ At(t, "scanNext")
        /\ CanRead(p)
        /\ \/ /\ s # 0
              /\ ScanTo(t, "scanRead", p, s)
              /\ latch' = [latch EXCEPT ![p].reader_count_ = @ + 1]
              /\ Visits(t, p, s)
           \/ /\ s = 0 /\ Page(t).next # INVALID_PAGE_ID
              /\ ScanTo(t, "scanNext", Page(t).next, 0)
              /\ UNCHANGED <<latch, seen>>
           \/ /\ s = 0 /\ Page(t).next = INVALID_PAGE_ID
              /\ call' = [call EXCEPT ![t] = Idle]
              /\ UNCHANGED <<latch, seen>>
        /\ UNCHANGED <<pages, txnVars, aborted, must>>

\* GetTuple latches the page a second time, then both latches are released.
ScanRead(t) ==
    /\ At(t, "scanRead")
    /\ CanRead(call[t].page)
    /\ latch' = [latch EXCEPT ![call[t].page].reader_count_ = @ - 1]
    /\ ScanTo(t, "scanNext", call[t].page, call[t].slot)
    /\ UNCHANGED <<pages, txnVars, aborted, scanVars>>
-----------------------------------------------------------------------------
Step(t) ==
    \/ WEnter(t)
    \/ InsertHere(t) \/ InsertNextPage(t) \/ InsertNewPage(t) \/ InsertNoPage(t)
    \/ HeapMarkDelete(t) \/ HeapUpdate(t) \/ HeapUpdateFails(t)
    \/ EndItem(t) \/ EndTxn(t)
    \/ HeapApplyDelete(t, "applyDelete") \/ HeapApplyDelete(t, "rollbackInsert")
    \/ HeapRollbackDelete(t) \/ HeapRollbackUpdate(t)
    \/ ScanBegin(t) \/ ScanFirst(t) \/ ScanNext(t) \/ ScanRead(t)

Client(t) ==
    \/ \E tuple \in Tuples : BeginInsert(t, tuple) \/ InsertTooLarge(t, tuple) \/ BeginUpdate(t, tuple)
    \/ BeginMarkDelete(t) \/ BeginScan(t)
    \/ Commit(t) \/ Abort(t)

Next == \E t \in Threads : Step(t) \/ Client(t)

Spec == Init /\ [][Next]_vars
-----------------------------------------------------------------------------
(***************************************************************************)
(* Properties.                                                             *)
(***************************************************************************)

\* After any sequence of inserts, updates that grow and shrink tuples, deletes
\* and rollbacks, the tuples of every page tile it without overlap.
PagesWellFormed == \A p \in DOMAIN pages : WellFormed(pages[p])


\* A step changes at most one row: moving the others about the page keeps what
\* they hold.
OneRowChanges ==
    [][\A p \in DOMAIN pages : pages'[p] # pages[p] =>
          Cardinality({s \in 1 .. PAGE_SIZE : RowIn(pages', p, s) # Row(p, s)}) <= 1]_vars

\* Abort undoes: when the first write of a transaction to a row is rolled back
\* the row is as the transaction found it.
AbortRestores ==
    [][\A t \in Threads :
          LET w == Last(write_set_[t])
          IN  /\ state_[t] = "ABORTED" /\ Len(write_set_'[t]) < Len(write_set_[t])
              /\ ~aborted'
              /\ \A i \in DOMAIN write_set_'[t] :
                    <<write_set_'[t][i].page, write_set_'[t][i].slot>> # <<w.page, w.slot>>
              => [page |-> w.page, slot |-> w.slot, row |-> RowIn(pages', w.page, w.slot)] \in before[t]]_vars

\* The assertions of TablePage::ApplyDelete hold.
AssertsHold == ~aborted

\* A scan that found a tuple on the first page sees, in order and once each,
\* every row that is in use from its beginning to its end, whatever other
\* transactions insert, move and delete meanwhile.
ScanComplete ==
    [][\A t \in Threads :
          call[t].op = "scanNext" /\ call'[t].op = "idle"
              => /\ must[t] \subseteq ToSet(seen[t])
                 /\ \A i, j \in DOMAIN seen[t] :
                       i < j => \/ seen[t][i][1] < seen[t][j][1]
                                \/ seen[t][i][1] = seen[t][j][1] /\ seen[t][i][2] < seen[t][j][2]]_vars
=============================================================================
