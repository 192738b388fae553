----------------------------- MODULE TablePage -----------------------------
(***************************************************************************)
(* storage/page/table_page.cpp: the slotted page, as operators on a page.  *)
(*                                                                         *)
(* A tuple is the sequence of its bytes.  A page is a record: the links,   *)
(* FreeSpacePointer, the slot array (offset, size and the delete flag that *)
(* the code keeps in the top bit of the size) and the bytes.  Slots are    *)
(* numbered from 1.  Logging and locking are in the modules that use this. *)
(***************************************************************************)
EXTENDS Integers, Sequences

CONSTANTS PAGE_SIZE, SIZE_TABLE_PAGE_HEADER, SIZE_TUPLE,
          Tuples           \* the tuples clients insert, non-empty sequences

INVALID_PAGE_ID == -1

Offsets == SIZE_TABLE_PAGE_HEADER .. PAGE_SIZE - 1
Slot == [offset : 0 .. PAGE_SIZE, size : 0 .. PAGE_SIZE, deleted : BOOLEAN]

\* The bytes before FreeSpacePointer are whatever they are; 0 stands for them.
NewTablePage(prev) ==
    [prev |-> prev, next |-> INVALID_PAGE_ID, free |-> PAGE_SIZE, slots |-> <<>>,
     data |-> [x \in Offsets |-> 0]]

\* memmove and memcpy
Move(data, to, from, n) ==
    [x \in DOMAIN data |-> IF x \in to .. to + n - 1 THEN data[x - to + from] ELSE data[x]]
Copy(data, to, tuple) ==
    [x \in DOMAIN data |-> IF x \in to .. to + Len(tuple) - 1 THEN tuple[x - to + 1] ELSE data[x]]
Bytes(pg, s) == [k \in 1 .. pg.slots[s].size |-> pg.data[pg.slots[s].offset + k - 1]]

GetTupleCount(pg) == Len(pg.slots)
GetFreeSpaceRemaining(pg) == pg.free - SIZE_TABLE_PAGE_HEADER - SIZE_TUPLE * GetTupleCount(pg)
IsDeleted(slot) == slot.deleted \/ slot.size = 0
IsLive(pg, s) == s \in DOMAIN pg.slots /\ ~IsDeleted(pg.slots[s])
-----------------------------------------------------------------------------
\* Mutants of the definitions below.
RoomForTuple(pg, tuple) == GetFreeSpaceRemaining(pg) >= Len(tuple)
MovesOneTooMany(slot, from, by) ==
    IF slot.size > 0 /\ slot.offset <= from THEN [slot EXCEPT !.offset = @ + by] ELSE slot

HasRoom(pg, tuple) == GetFreeSpaceRemaining(pg) >= Len(tuple) + SIZE_TUPLE

\* The first empty slot, or a new one.
FreeSlot(pg) ==
    CHOOSE s \in 1 .. GetTupleCount(pg) + 1 :
        /\ s \in DOMAIN pg.slots => pg.slots[s].size = 0
        /\ \A r \in 1 .. s - 1 : pg.slots[r].size # 0

InsertTuple(pg, tuple) ==
    LET s == FreeSlot(pg)
        free == pg.free - Len(tuple)
        slot == [offset |-> free, size |-> Len(tuple), deleted |-> FALSE]
    IN  [pg EXCEPT !.free = free, !.data = Copy(@, free, tuple),
                   !.slots = IF s \in DOMAIN @ THEN [@ EXCEPT ![s] = slot] ELSE Append(@, slot)]

MarkDelete(pg, s) == IF IsLive(pg, s) THEN [pg EXCEPT !.slots[s].deleted = TRUE] ELSE pg

RollbackDelete(pg, s) == [pg EXCEPT !.slots[s].deleted = FALSE]

\* The offset of a slot once everything before `from' has moved up by `by'.
Shifted(slot, from, by) ==
    IF slot.size > 0 /\ slot.offset < from THEN [slot EXCEPT !.offset = @ + by] ELSE slot

CanUpdate(pg, s, tuple) ==
    /\ IsLive(pg, s)
    /\ GetFreeSpaceRemaining(pg) + pg.slots[s].size >= Len(tuple)

\* The tuples before the updated one move up, or down, by the difference in size.
UpdateTuple(pg, s, tuple) ==
    LET old == pg.slots[s]
        by == old.size - Len(tuple)
        resized == [pg.slots EXCEPT ![s].size = Len(tuple)]
    IN  [pg EXCEPT !.free = @ + by,
                   !.data = Copy(Move(@, pg.free + by, pg.free, old.offset - pg.free),
                                 old.offset + by, tuple),
                   !.slots = [r \in DOMAIN @ |-> Shifted(resized[r], old.offset + old.size, by)]]

\* The assertions of ApplyDelete.
MayApplyDelete(pg, s) == s \in DOMAIN pg.slots /\ pg.slots[s].offset >= pg.free

\* Commits a delete or rolls back an insert: the tuples before it move up.
ApplyDelete(pg, s) ==
    LET old == pg.slots[s]
        emptied == [pg.slots EXCEPT ![s] = [offset |-> 0, size |-> 0, deleted |-> FALSE]]
    IN  [pg EXCEPT !.free = @ + old.size,
                   !.data = Move(@, pg.free + old.size, pg.free, old.offset - pg.free),
                   !.slots = [r \in DOMAIN @ |-> Shifted(emptied[r], old.offset, old.size)]]

\* GetFirstTupleRid and GetNextTupleRid: the first slot after s in use, or 0;
\* a slot marked as deleted is in use.
NextSlot(pg, s) ==
    LET later == {r \in DOMAIN pg.slots : r > s /\ pg.slots[r].size > 0}
    IN  IF later = {} THEN 0 ELSE CHOOSE r \in later : \A q \in later : r <= q
-----------------------------------------------------------------------------
(***************************************************************************)
(* What a page is.                                                         *)
(***************************************************************************)
InUse(pg) == {s \in DOMAIN pg.slots : pg.slots[s].size > 0}
Extent(slot) == slot.offset .. slot.offset + slot.size - 1

\* The slot array ends before the tuples begin, and the tuples cover the space
\* from FreeSpacePointer to the end of the page exactly once.
WellFormed(pg) ==
    /\ SIZE_TABLE_PAGE_HEADER + SIZE_TUPLE * Len(pg.slots) <= pg.free
    /\ pg.free .. PAGE_SIZE - 1 = UNION {Extent(pg.slots[s]) : s \in InUse(pg)}
    /\ \A r, s \in InUse(pg) : r # s => Extent(pg.slots[r]) \intersect Extent(pg.slots[s]) = {}

\* What the slots of a page hold, wherever it is on the page.
Rows(pg) == [s \in InUse(pg) |-> [tuple |-> Bytes(pg, s), deleted |-> pg.slots[s].deleted]]
=============================================================================
