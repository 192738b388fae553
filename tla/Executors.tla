----------------------------- MODULE Executors -----------------------------
(***************************************************************************)
(* Query execution (execution/): a sequential scan, or a hash join of two   *)
(* scans, feeds the client or an insert, directly or through an             *)
(* aggregation.  Executors pull: Next of the root calls Next of the child.  *)
(* One step here is one tuple pulled from the source or one group emitted,  *)
(* so that another transaction's inserts fall between any two of them.      *)
(*                                                                          *)
(* Tables only grow, in the order of the scan: updates and deletes are in   *)
(* TableHeap.  A row is its group-by and join column k, never NULL, and an  *)
(* INTEGER v of module Types.                                               *)
(***************************************************************************)
EXTENDS Types, SequencesExt, TLC

CONSTANTS
    RowSet,       \* [left, right -> the rows that the table may hold]
    HashOf,       \* HashValues of a join key
    Queries,      \* the plans, see below
    Limit,        \* the constant of the scan's predicate, v < Limit
    MaxLeft, MaxRight,   \* the rows of the joined tables at the start
    MaxAppends,   \* the rows other transactions insert meanwhile
    PAGE_SIZE,    \* of a page of temporary tuples
    TUPLE_BYTES,  \* the size of a tuple of the left child
    InsertFails   \* whether TableHeap::InsertTuple may fail

(***************************************************************************)
(* A plan: source "scan" or "join"; where, whether the left scan has a      *)
(* predicate; agg "none", "all" or "group"; having, whether groups must     *)
(* count two rows; insert, whether the rows go to table "target".           *)
(***************************************************************************)
Plans == [source : {"scan", "join"}, where : BOOLEAN, agg : {"none", "all", "group"},
          having : BOOLEAN, insert : BOOLEAN]

ASSUME QueriesAssumption == Queries \subseteq Plans

SIZE_TABLE_PAGE_HEADER == 12
TUPLE_SIZE == 4
jht_num_buckets_ == 2

VARIABLES
    rows,         \* [table -> sequence of rows]
    query,        \* the plan that is executed
    null_truth,   \* what GetAs<bool> makes of a NULL BOOLEAN
    scan,         \* [left, right -> table iterator of the SeqScanExecutor]
    tmp_pages,    \* the pages of temporary tuples, the last one in use
    jht_,         \* the join hash table: pairs of a hash and a temporary tuple
    jht_size,     \* its number of buckets
    jht_built_,
    aht_,         \* the aggregation hash table: a function of the group-by key
    aggregate,    \* aggregate_value and looped of an aggregation without group by
    remaining,    \* the groups aht_iterator_ has still to visit
    inserted,     \* rid (is it valid) and result of InsertExecutor::Next
    fed,          \* history: where the tuples returned by the source came from
    out,          \* history: the tuples given to the client or to the insert
    pc,           \* "run", "iterate", "done", "threw" (an exception), "aborted"
    appends       \* rows inserted by others

vars == <<rows, query, null_truth, scan, tmp_pages, jht_, jht_size, jht_built_,
          aht_, aggregate, remaining, inserted, fed, out, pc, appends>>

joinVars == <<tmp_pages, jht_, jht_size, jht_built_>>
aggVars == <<aht_, aggregate, remaining>>

-----------------------------------------------------------------------------
(* Predicates. *)

\* GetBooleanValue(CmpBool).GetAs<bool>(): a NULL BOOLEAN is the byte 0x80,
\* which is no bool; compilers test it in different ways.
GetAsBool(cmp) == IF cmp = "CmpNull" THEN null_truth ELSE cmp = "CmpTrue"

WhereValue == [row \in RowSet["left"] |-> Compare("LessThan", row.v, IntValue("INTEGER", Limit))]

Qualifies(s, row) == s = "left" /\ query.where => GetAsBool(WhereValue[row])

\* Mutant of the definition below.
AnyMatch(l, r) == TRUE

\* ComparisonExpression::EvaluateJoin of l.k = r.k.
JoinPredicate(l, r) == l.k = r.k

-----------------------------------------------------------------------------
(* SeqScanExecutor. *)

\* The constructor takes TableHeap::Begin, which is End for an empty table.
BeginScan(table) == [pos |-> 1, end |-> table = <<>>]

\* Next: the iterator goes past the returned row, or past the last one, where it
\* becomes End and stays there whatever is inserted later.
ScanResult(s) ==
    LET n == Len(rows[s])
        hits == {i \in scan[s].pos .. n : Qualifies(s, rows[s][i])}
    IN  IF scan[s].end THEN [row |-> 0, it |-> scan[s]]
        ELSE IF hits = {} THEN [row |-> 0, it |-> [pos |-> n + 1, end |-> TRUE]]
        ELSE [row |-> Min(hits), it |-> [pos |-> Min(hits) + 1, end |-> Min(hits) = n]]

-----------------------------------------------------------------------------
(* TmpTuplePage and the build side of HashJoinExecutor. *)

EmptyPage == [free |-> PAGE_SIZE, tuples |-> <<>>]

\* Mutant of the definition below.
HasRoomForData(page) == page.free - SIZE_TABLE_PAGE_HEADER >= TUPLE_BYTES

\* The check of TmpTuplePage::Insert.
HasRoom(page) == page.free - SIZE_TABLE_PAGE_HEADER >= TUPLE_BYTES + TUPLE_SIZE

\* The rest of it: data, then size, below the free space pointer.
TmpInsert(page, row) ==
    LET at == page.free - TUPLE_BYTES - TUPLE_SIZE
    IN  [free |-> at, tuples |-> (at :> row) @@ page.tuples]

\* The pages after the insertion of a left tuple, on a new page if need be.
PagesWith(row) ==
    LET n == Len(tmp_pages)
    IN  IF HasRoom(tmp_pages[n]) THEN [tmp_pages EXCEPT ![n] = TmpInsert(@, row)]
        ELSE Append(tmp_pages, TmpInsert(EmptyPage, row))

\* jht_.Resize(jht_.GetSize()) after hash_table_full_error.
SizeForInsert == IF Cardinality(jht_) = jht_size THEN 2 * jht_size ELSE jht_size

\* One left tuple: into a temporary page, and its place into the hash table.
BuildTuple ==
    LET next == ScanResult("left")
        pages == PagesWith(next.row)
        tmp == <<Len(pages), pages[Len(pages)].free>>
        pair == <<HashOf[rows["left"][next.row].k], tmp>>
    IN  /\ next.row # 0
        /\ scan' = [scan EXCEPT !["left"] = next.it]
        /\ tmp_pages' = pages
        /\ jht_size' = SizeForInsert
        /\ IF pair \in jht_ \/ Cardinality(jht_) >= jht_size'
           THEN pc' = "aborted" /\ UNCHANGED jht_
           ELSE jht_' = jht_ \cup {pair} /\ UNCHANGED pc
        /\ UNCHANGED jht_built_


BuildEnd ==
    LET next == ScanResult("left")
    IN  /\ next.row = 0
        /\ scan' = [scan EXCEPT !["left"] = next.it]
        /\ jht_built_' = TRUE
        /\ UNCHANGED <<tmp_pages, jht_, jht_size, pc>>

Build ==
    /\ pc = "run" /\ query.source = "join" /\ ~jht_built_
    /\ BuildTuple \/ BuildEnd
    /\ UNCHANGED <<rows, query, null_truth, aggVars, inserted, fed, out, appends>>

-----------------------------------------------------------------------------
(* InsertExecutor, and the client. *)


\* result &= InsertTuple(...), which sets rid only when it succeeds.
AfterInsert(ok) == [rid |-> inserted.rid \/ ok, result |-> inserted.result /\ ok]

\* A tuple leaves the plan below the root: to the client, or into the target
\* table, where the assertion on rid fails unless some insertion has succeeded.
Deliver(tuple, next_pc) ==
    /\ out' = Append(out, tuple)
    /\ \/ /\ ~query.insert
          /\ pc' = next_pc
          /\ UNCHANGED <<rows, inserted>>
       \/ /\ query.insert
          /\ \E ok \in IF InsertFails THEN BOOLEAN ELSE {TRUE} :
                /\ rows' = IF ok THEN [rows EXCEPT !["target"] = Append(@, tuple)] ELSE rows
                /\ inserted' = AfterInsert(ok)
                /\ pc' = IF inserted'.rid THEN next_pc ELSE "aborted"

-----------------------------------------------------------------------------
(* AggregationExecutor. *)

GenerateInitialAggregateValue ==
    [count |-> IntValue("INTEGER", 0), sum |-> IntValue("INTEGER", 0),
     min |-> IntValue("INTEGER", MaxOf("INTEGER")),
     max |-> IntValue("INTEGER", MinOf("INTEGER"))]

\* Value::Add, Min and Max on INTEGER, as functions of the two values.
INTEGERs == {IntValue("INTEGER", n) : n \in NullOf("INTEGER") .. MaxOf("INTEGER")}
One == IntValue("INTEGER", 1)
AddOf == [x, y \in INTEGERs |-> Operate("Add", x, y)]
MinOfTwo == [x, y \in INTEGERs |-> MinValue(x, y)]
MaxOfTwo == [x, y \in INTEGERs |-> MaxValue(x, y)]

CombineAggregateValues(result, input) ==
    [count |-> AddOf[result.count, One],
     sum |-> AddOf[result.sum, input],
     min |-> MinOfTwo[result.min, input],
     max |-> MaxOfTwo[result.max, input]]

\* InsertCombine's table: the group's aggregate, a new one if there is none.
Group(key) == IF key \in DOMAIN aht_ THEN aht_[key] ELSE GenerateInitialAggregateValue

NoAggregate == [value |-> GenerateInitialAggregateValue, looped |-> FALSE]

\* One tuple of the child: passed on, combined, or combined into its group.
\* An exception of Value::Add leaves every Next on the way.
Consume(row) ==
    \/ /\ query.agg = "none"
       /\ Deliver(row, "run")
       /\ UNCHANGED aggVars
    \/ LET key == row.k
           value == CombineAggregateValues(IF query.agg = "all" THEN aggregate.value
                                           ELSE Group(key), row.v)
       IN  /\ query.agg # "none"
           /\ IF Throws(value.sum)
              THEN pc' = "threw" /\ UNCHANGED <<aggregate, aht_>>
              ELSE /\ UNCHANGED pc
                   /\ IF query.agg = "all"
                      THEN /\ aggregate' = [value |-> value, looped |-> TRUE]
                           /\ UNCHANGED aht_
                      ELSE /\ aht_' = (key :> value) @@ aht_
                           /\ UNCHANGED aggregate
           /\ UNCHANGED <<remaining, rows, inserted, out>>

\* The child is exhausted.  An aggregation without group by returns its one
\* tuple, is called again, finds nothing more and returns false.
Exhausted ==
    \/ /\ query.agg = "none" \/ (query.agg = "all" /\ ~aggregate.looped)
       /\ pc' = "done"
       /\ UNCHANGED <<aggVars, rows, inserted, out>>
    \/ /\ query.agg = "all" /\ aggregate.looped
       /\ Deliver([agg |-> aggregate.value], "run")
       /\ aggregate' = NoAggregate
       /\ UNCHANGED <<aht_, remaining>>
    \/ /\ query.agg = "group"
       /\ remaining' = DOMAIN aht_
       /\ pc' = "iterate"
       /\ UNCHANGED <<aht_, aggregate, rows, inserted, out>>

\* EvaluateAggregate of COUNT > 1.
Having(value) == query.having => value.count.raw > 1

\* The iteration over the unordered map, in whatever order it has.
Iterate ==
    /\ pc = "iterate"
    /\ \/ /\ remaining = {}
          /\ pc' = "done"
          /\ UNCHANGED <<remaining, rows, inserted, out>>
       \/ \E key \in remaining :
             /\ remaining' = remaining \ {key}
             /\ \/ Having(aht_[key]) /\ Deliver([k |-> key, agg |-> aht_[key]], "iterate")
                \/ ~Having(aht_[key]) /\ UNCHANGED <<pc, rows, inserted, out>>
    /\ UNCHANGED <<query, null_truth, scan, joinVars, aht_, aggregate, fed, appends>>

-----------------------------------------------------------------------------
(* The source. *)

\* Next of a scan that is the source.
PullScan ==
    LET next == ScanResult("left")
    IN  /\ pc = "run" /\ query.source = "scan"
        /\ scan' = [scan EXCEPT !["left"] = next.it]
        /\ \/ next.row = 0 /\ Exhausted /\ UNCHANGED fed
           \/ /\ next.row # 0
              /\ fed' = Append(fed, <<next.row, 0>>)
              /\ Consume(rows["left"][next.row])
        /\ UNCHANGED <<query, null_truth, joinVars, appends>>

\* The left tuples that GetValue finds for a right tuple, read back from their pages.
Matches(r) ==
    {tmp_pages[pair[2][1]].tuples[pair[2][2]] :
        pair \in {p \in jht_ : p[1] = HashOf[r.k]}}

\* The probe side of HashJoinExecutor::Next, one right tuple.  No match aborts;
\* of the matches that satisfy the predicate the first one found is joined.
Probe ==
    LET next == ScanResult("right")
        r == rows["right"][next.row]
        joined == {i \in Matches(r) : JoinPredicate(rows["left"][i], r)}
    IN  /\ pc = "run" /\ query.source = "join" /\ jht_built_
        /\ scan' = [scan EXCEPT !["right"] = next.it]
        /\ \/ next.row = 0 /\ Exhausted /\ UNCHANGED fed
           \/ /\ next.row # 0 /\ joined = {}
              /\ pc' = IF Matches(r) = {} THEN "aborted" ELSE pc
              /\ UNCHANGED <<fed, aggVars, rows, inserted, out>>
           \/ /\ next.row # 0
              /\ \E i \in joined :
                    /\ fed' = Append(fed, <<i, next.row>>)
                    /\ Consume([k |-> r.k, v |-> rows["left"][i].v])
        /\ UNCHANGED <<query, null_truth, joinVars, appends>>

Running == pc \in {"run", "iterate"}

\* Another transaction inserts a row into a scanned table.
AppendRow ==
    /\ Running /\ appends < MaxAppends
    /\ \E t \in IF query.source = "join" THEN {"left", "right"} ELSE {"left"} :
       \E row \in RowSet[t] :
          rows' = [rows EXCEPT ![t] = Append(@, row)]
    /\ appends' = appends + 1
    /\ UNCHANGED <<query, null_truth, scan, joinVars, aggVars, inserted, fed, out, pc>>

Finished == ~Running /\ UNCHANGED vars

Init ==
    /\ query \in Queries
    /\ null_truth \in IF query.where THEN BOOLEAN ELSE {FALSE}
    /\ \E left \in BoundedSeq(RowSet["left"], MaxLeft) :
       \E right \in IF query.source = "join" THEN BoundedSeq(RowSet["right"], MaxRight) ELSE {<<>>} :
          rows = [left |-> left, right |-> right, target |-> <<>>]
    /\ scan = [left |-> BeginScan(rows["left"]), right |-> BeginScan(rows["right"])]
    /\ tmp_pages = <<EmptyPage>>
    /\ jht_ = {} /\ jht_size = jht_num_buckets_ /\ jht_built_ = FALSE
    /\ aht_ = <<>> /\ aggregate = NoAggregate /\ remaining = {}
    /\ inserted = [rid |-> FALSE, result |-> TRUE]
    /\ fed = <<>> /\ out = <<>> /\ pc = "run" /\ appends = 0

Step == Build \/ PullScan \/ Probe \/ Iterate

Next == Step \/ AppendRow \/ Finished

\* The thread that executes the query keeps running.
FairSpec == Init /\ [][Next]_vars /\ WF_vars(Step)

-----------------------------------------------------------------------------
(* Properties. *)

\* The rows a scan has passed that its predicate accepts for certain, and
\* those it does not reject for certain: a NULL is neither.
MustReturn(s) == {i \in 1 .. scan[s].pos - 1 :
                    s = "left" /\ query.where => WhereValue[rows[s][i]] = "CmpTrue"}
MayReturn(s) == {i \in 1 .. scan[s].pos - 1 :
                    s = "left" /\ query.where => WhereValue[rows[s][i]] # "CmpFalse"}

\* The source returns what SQL asks of it, each row once, in the order of the
\* table that drives it, while others insert into the tables
\* (SeqScanExecutor::Next, HashJoinExecutor::Next).  A scan returns every row
\* it passes whose predicate is true and none whose predicate is false.  A join
\* returns only pairs with equal keys, although keys share hashes, and one pair
\* for every right row that has a partner; which partner, and that there is no
\* second pair for it, is the code's restriction.
SourceCorrect ==
    LET joins == query.source = "join"
        driving == IF joins THEN 2 ELSE 1
    IN  /\ \A m, n \in DOMAIN fed : m < n => fed[m][driving] < fed[n][driving]
        /\ \A n \in DOMAIN fed : fed[n][1] \in MayReturn("left")
        /\ ~joins => \A i \in MustReturn("left") : \E n \in DOMAIN fed : fed[n][1] = i
        /\ joins =>
             /\ \A n \in DOMAIN fed : rows["left"][fed[n][1]].k = rows["right"][fed[n][2]].k
             /\ jht_built_ =>
                  \A j \in MustReturn("right") :
                     (\E i \in MustReturn("left") : rows["left"][i].k = rows["right"][j].k)
                       => \E n \in DOMAIN fed : fed[n][2] = j

\* The temporary tuples of a join can all be read back (TmpTuplePage::Insert,
\* the build loop): on every page they lie between the header and the end
\* without overlapping, also on the page begun when one is full; every one of
\* them is in the hash table, once, under the hash of its own key, and the table
\* has been resized in time to hold them.
TmpTuplesReadBack ==
    /\ \A p \in DOMAIN tmp_pages : LET tuples == tmp_pages[p].tuples IN
         \A a \in DOMAIN tuples :
           /\ a >= SIZE_TABLE_PAGE_HEADER
           /\ a + TUPLE_SIZE + TUPLE_BYTES <= PAGE_SIZE
           /\ \A b \in DOMAIN tuples \ {a} :
                b >= a + TUPLE_SIZE + TUPLE_BYTES \/ a >= b + TUPLE_SIZE + TUPLE_BYTES
           /\ HashOf[rows["left"][tuples[a]].k] = (CHOOSE e \in jht_ : e[2] = <<p, a>>)[1]
    /\ Cardinality(jht_) = Cardinality({e[2] : e \in jht_})
    /\ Cardinality(jht_) <= jht_size

\* The row that the n-th tuple of the source stands for.
FedRow(n) == IF query.source = "join"
             THEN [k |-> rows["right"][fed[n][2]].k, v |-> rows["left"][fed[n][1]].v]
             ELSE rows["left"][fed[n][1]]

\* The aggregates of a set of those tuples: COUNT counts them all, the others
\* are NULL as soon as one value is.
Aggregates(S) ==
    LET v == [n \in S |-> FedRow(n).v.raw]
        Or(x) == IF \E n \in S : FedRow(n).v.null THEN NullValue("INTEGER")
                 ELSE IntValue("INTEGER", x)
    IN  [count |-> IntValue("INTEGER", Cardinality(S)),
         sum |-> Or(SumFunctionOnSet(v, S)),
         min |-> Or(Min({v[n] : n \in S})),
         max |-> Or(Max({v[n] : n \in S}))]


=============================================================================
