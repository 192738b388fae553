------------------------ MODULE LinearProbeHashTable ------------------------
(***************************************************************************)
(* container/hash/linear_probe_hash_table.cpp on hash_table_block_page.cpp *)
(* and hash_table_header_page.cpp.                                         *)
(*                                                                         *)
(* Slots are numbered through all block pages; a page holds                *)
(* BLOCK_ARRAY_SIZE of them and the last page may use fewer.  A call holds *)
(* table_latch_ shared and latches one page at a time, so its work on one  *)
(* page is one step; Resize has the table to itself.  The pages stay in    *)
(* the buffer pool.                                                        *)
(***************************************************************************)
EXTENDS Integers, Sequences, SequencesExt

CONSTANTS Threads, Keys, Values,
          GetHash,            \* the hash of every key
          BLOCK_ARRAY_SIZE,
          NumBuckets,         \* buckets of the new table
          MaxOps,             \* bound on calls
          MaxResizes,         \* bound on calls of Resize
          MayRepeat           \* whether a pair may be inserted again while it is
                              \* in the table and tombstones are

ASSUME HashAssumption ==
    /\ GetHash \in [Keys -> Nat]
    /\ BLOCK_ARRAY_SIZE \in Nat \ {0} /\ NumBuckets \in Nat \ {0}

Pairs == Keys \X Values
MaxBuckets == NumBuckets * 2 ^ MaxResizes
PagesFor(buckets) == (buckets - 1) \div BLOCK_ARRAY_SIZE + 1
AllSlots == 0 .. PagesFor(MaxBuckets) * BLOCK_ARRAY_SIZE - 1

VARIABLES
    slot,         \* occupied_, readable_ and array_ of every slot
    size_cache,
    header,       \* the header page: size and number of block pages
    call,         \* per thread: the call it is in
    resizing,     \* writer_entered_ of table_latch_
    pending,      \* the pairs Resize has yet to insert again
    aborted, ops, resizes,
    must, may     \* per thread: pairs in the table at every, at some moment of its call

ghostVars == <<must, may>>
vars == <<slot, size_cache, header, call, resizing, pending, aborted, ops, resizes, ghostVars>>

NewSlot == [occupied |-> FALSE, readable |-> FALSE, pair |-> CHOOSE p \in Pairs : TRUE]
Idle == [op |-> "idle", pair |-> NewSlot.pair, start |-> 0, at |-> 0, result |-> {}]

Init ==
    /\ slot = [i \in AllSlots |-> NewSlot]
    /\ size_cache = NumBuckets
    /\ header = [size |-> NumBuckets, blocks |-> PagesFor(NumBuckets)]
    /\ call = [t \in Threads |-> Idle]
    /\ resizing = FALSE /\ pending = <<>> /\ aborted = FALSE
    /\ ops = 0 /\ resizes = 0
    /\ must = [t \in Threads |-> {}] /\ may = [t \in Threads |-> {}]

Holds(table, pair) == {i \in AllSlots : table[i].readable /\ table[i].pair = pair}
Contents(table) == {pair \in Pairs : Holds(table, pair) # {}}

ValuesOf(table, key) == {pair \in Contents(table) : pair[1] = key}

\* Keeps must and may of the calls in progress up to date with the step.
Observe(t, starts) ==
    LET now(u) == ValuesOf(slot', call'[u].pair[1])
        Seen(old, u) == IF call'[u].op = "idle" THEN {} ELSE IF u = t /\ starts THEN now(u) ELSE old
    IN  /\ must' = [u \in Threads |-> Seen(must[u] \intersect now(u), u)]
        /\ may' = [u \in Threads |-> Seen(may[u] \union now(u), u)]
-----------------------------------------------------------------------------
(***************************************************************************)
(* Probing.                                                                *)
(***************************************************************************)
\* Mutants of the definitions below.
IgnoresStart(i, start) == Min({(i \div BLOCK_ARRAY_SIZE + 1) * BLOCK_ARRAY_SIZE, size_cache}) - 1
ClearsOccupied(s) == NewSlot
StopsAtTombstone(i) == slot[i].readable

Position(buckets, key) == GetHash[key] % buckets

\* The last slot to probe from slot i before the page, or the table, ends or
\* the probe is back at its start.
LastOnPage(i, start) ==
    LET end == Min({(i \div BLOCK_ARRAY_SIZE + 1) * BLOCK_ARRAY_SIZE, size_cache}) - 1
    IN  IF start > i /\ start <= end THEN start - 1 ELSE end

Matches(table, i, pair) == table[i].readable /\ table[i].pair = pair
Blocked(table, i) == table[i].readable

\* The slots of the page on which the probe of thread t ends.
Stops(t, P(_)) == {i \in call[t].at .. LastOnPage(call[t].at, call[t].start) : P(i)}

AfterSlot(j) == (j + 1) % size_cache

Return(t) == call' = [call EXCEPT ![t] = Idle]
Advance(t, result) ==
    LET next == AfterSlot(LastOnPage(call[t].at, call[t].start))
    IN  IF next = call[t].start THEN Return(t)
        ELSE call' = [call EXCEPT ![t].at = next, ![t].result = result]

MayEnter == ~resizing

\* A call takes table_latch_ and finds its first slot.
Start(t, op, pair) ==
    /\ ~aborted /\ MayEnter
    /\ call[t].op = "idle" /\ ops < MaxOps
    /\ ops' = ops + 1
    /\ LET i == Position(size_cache, pair[1])
       IN  call' = [call EXCEPT ![t] = [op |-> op, pair |-> pair, start |-> i, at |-> i, result |-> {}]]
    /\ UNCHANGED <<slot, size_cache, header, resizing, pending, aborted, resizes>>
    /\ Observe(t, TRUE)

Inserting == {call[t].pair : t \in {u \in Threads : call[u].op = "insert"}}
Removing == \E t \in Threads : call[t].op = "remove"
Tombstones == \E i \in AllSlots : slot[i].occupied /\ ~slot[i].readable

BeginInsert(t, pair) ==
    /\ Start(t, "insert", pair)
    /\ \/ MayRepeat
       \/ pair \notin Contents(slot) \union Inserting
       \/ ~Tombstones /\ ~Removing
BeginRemove(t, pair) ==
    /\ Start(t, "remove", pair)
    /\ MayRepeat \/ Inserting \intersect Contents(slot) = {}
BeginGetValue(t, key) == Start(t, "get", <<key, CHOOSE v \in Values : TRUE>>)
-----------------------------------------------------------------------------
\* Insert_Helper on one page: the first slot that is not readable is taken,
\* unless the pair is met before.
InsertPage(t) ==
    LET Ends(i) == ~Blocked(slot, i) \/ Matches(slot, i, call[t].pair)
        found == Stops(t, Ends)
    IN  /\ ~aborted /\ call[t].op = "insert"
        /\ \/ /\ found = {}
              /\ Advance(t, {})
              /\ UNCHANGED slot
           \/ /\ found # {}
              /\ LET i == Min(found)
                 IN  slot' = IF Matches(slot, i, call[t].pair) THEN slot
                             ELSE [slot EXCEPT ![i] = [occupied |-> TRUE, readable |-> TRUE, pair |-> call[t].pair]]
              /\ Return(t)
        /\ UNCHANGED <<size_cache, header, resizing, pending, aborted, ops, resizes>>
        /\ Observe(t, FALSE)

Tombstone(s) == [s EXCEPT !.readable = FALSE]

\* A probe for a pair goes on over tombstones.
GoesOn(i) == slot[i].occupied

RemovePage(t) ==
    LET Ends(i) == ~GoesOn(i) \/ Matches(slot, i, call[t].pair)
        found == Stops(t, Ends)
    IN  /\ ~aborted /\ call[t].op = "remove"
        /\ \/ /\ found = {}
              /\ Advance(t, {})
              /\ UNCHANGED slot
           \/ /\ found # {}
              /\ LET i == Min(found)
                 IN  slot' = IF Matches(slot, i, call[t].pair) THEN [slot EXCEPT ![i] = Tombstone(@)] ELSE slot
              /\ Return(t)
        /\ UNCHANGED <<size_cache, header, resizing, pending, aborted, ops, resizes>>
        /\ Observe(t, FALSE)

\* GetValue collects the values of the key up to the first slot never occupied;
\* the result stays in the call until Answer.
GetPage(t) ==
    LET Ends(i) == ~GoesOn(i)
        from == call[t].at
        last == LastOnPage(from, call[t].start)
        found == Stops(t, Ends)
        upTo == IF found = {} THEN last ELSE Min(found) - 1
        hits == {slot[i].pair : i \in {j \in from .. upTo : slot[j].readable /\ slot[j].pair[1] = call[t].pair[1]}}
        result == call[t].result \union hits
    IN  /\ ~aborted /\ call[t].op = "get"
        /\ call' = [call EXCEPT ![t].result = result,
                                ![t].at = IF found = {} THEN AfterSlot(last) ELSE @,
                                ![t].op = IF found # {} \/ AfterSlot(last) = call[t].start THEN "answer" ELSE @]
        /\ UNCHANGED <<slot, size_cache, header, resizing, pending, aborted, ops, resizes>>
        /\ Observe(t, FALSE)

Answer(t) ==
    /\ ~aborted /\ call[t].op = "answer"
    /\ Return(t)
    /\ UNCHANGED <<slot, size_cache, header, resizing, pending, aborted, ops, resizes>>
    /\ Observe(t, FALSE)
-----------------------------------------------------------------------------
(***************************************************************************)
(* Resize.                                                                 *)
(***************************************************************************)
ResizeEnter(t) ==
    /\ ~aborted /\ ~resizing
    /\ call[t].op = "idle" /\ resizes < MaxResizes
    /\ resizes' = resizes + 1
    /\ resizing' = TRUE
    /\ call' = [call EXCEPT ![t].op = "resize"]
    /\ UNCHANGED <<slot, size_cache, header, pending, aborted, ops, ghostVars>>

\* Alone in the table: the pairs are taken out in slot order and the table
\* becomes twice as large.  The occupied bits stay.
ResizeEmpty(t) ==
    LET buckets == size_cache * 2
        used == SelectSeq([i \in 1 .. size_cache |-> slot[i - 1]], LAMBDA s : s.readable)
    IN  /\ ~aborted /\ call[t].op = "resize"
        /\ \A u \in Threads \ {t} : call[u].op = "idle"
        /\ pending' = [i \in 1 .. Len(used) |-> used[i].pair]
        /\ slot' = [i \in AllSlots |-> IF slot[i].readable THEN Tombstone(slot[i]) ELSE slot[i]]
        /\ size_cache' = buckets
        /\ header' = [size |-> buckets, blocks |-> header.blocks + PagesFor(buckets) - PagesFor(size_cache)]
        /\ call' = [call EXCEPT ![t].op = "rehash"]
        /\ UNCHANGED <<resizing, aborted, ops, resizes, ghostVars>>

\* One Insert_Helper of the rehash, with the two assert calls on its outcome.
ResizeInsert(t) ==
    LET pair == Head(pending)
        Probe(k) == (Position(size_cache, pair[1]) + k) % size_cache
        found == {k \in 0 .. size_cache - 1 : \/ ~Blocked(slot, Probe(k))
                                              \/ Matches(slot, Probe(k), pair)}
        i == Probe(Min(found))
    IN  /\ ~aborted /\ call[t].op = "rehash" /\ pending # <<>>
        /\ IF found = {} \/ Matches(slot, i, pair)
           THEN aborted' = TRUE /\ UNCHANGED slot
           ELSE /\ slot' = [slot EXCEPT ![i] = [occupied |-> TRUE, readable |-> TRUE, pair |-> pair]]
                /\ UNCHANGED aborted
        /\ pending' = Tail(pending)
        /\ UNCHANGED <<size_cache, header, call, resizing, ops, resizes, ghostVars>>

ResizeLeave(t) ==
    /\ ~aborted /\ call[t].op = "rehash" /\ pending = <<>>
    /\ resizing' = FALSE
    /\ Return(t)
    /\ UNCHANGED <<slot, size_cache, header, pending, aborted, ops, resizes, ghostVars>>

Step(t) == InsertPage(t) \/ RemovePage(t) \/ GetPage(t) \/ Answer(t)
           \/ ResizeEmpty(t) \/ ResizeInsert(t) \/ ResizeLeave(t)

Next ==
    \E t \in Threads :
        \/ Step(t)
        \/ \E pair \in Pairs : BeginInsert(t, pair) \/ BeginRemove(t, pair)
        \/ \E key \in Keys : BeginGetValue(t, key)
        \/ ResizeEnter(t)

Spec == Init /\ [][Next]_vars

\* Every thread keeps running.
FairSpec == Spec /\ \A t \in Threads : WF_vars(Step(t))
-----------------------------------------------------------------------------
(***************************************************************************)
(* Properties.                                                             *)
(***************************************************************************)

\* Every pair is on the probe path of its key: no slot between the key's first
\* slot and the pair was never occupied, through removals and resizes.
PairsReachable ==
    \A i \in 0 .. size_cache - 1 :
        slot[i].readable =>
            LET from == Position(size_cache, slot[i].pair[1])
            IN  \A k \in 0 .. (i - from) % size_cache : slot[(from + k) % size_cache].occupied


\* GetValue returns every value its key has from the beginning to the end of
\* the call, and none that it had at no moment of it, while other threads
\* insert, remove and reuse the slots it probes.
GetValueCorrect ==
    [][\A t \in Threads :
          call[t].op = "answer" /\ call'[t].op = "idle" =>
              /\ must[t] \subseteq call[t].result
              /\ call[t].result \subseteq may[t]]_vars

\* Remove gives up only on a pair that was not in the table all the time, and
\* Insert returns with its pair in the table unless the table is full.
UpdatesTakeEffect ==
    [][\A t \in Threads :
          /\ call[t].op = "remove" /\ call'[t].op = "idle" /\ slot' = slot => call[t].pair \notin must[t]
          /\ call[t].op = "insert" /\ call'[t].op = "idle" /\ slot' = slot =>
                \/ call[t].pair \in may[t]
                \/ \A i \in 0 .. size_cache - 1 : slot[i].occupied]_vars

\* Every call returns: probes end although the table changes under them, and
\* Resize gets the table.
CallsReturn == \A t \in Threads : []<>(call[t].op = "idle" \/ aborted)
=============================================================================
