------------------------------- MODULE Tuples -------------------------------
(***************************************************************************)
(* The byte layout of a tuple (storage/table/tuple.cpp, catalog/schema.cpp, *)
(* catalog/column.h): fixed-length columns at the offsets of the schema,    *)
(* then for every VARCHAR its length and its bytes, found through an offset *)
(* kept in the column.                                                      *)
(*                                                                          *)
(* A byte of memory is the item it was last written with and its place in   *)
(* it: reading gives the item back only when all its bytes are still there, *)
(* so a write that runs into another one shows.                             *)
(***************************************************************************)
EXTENDS Types, SequencesExt

SIZEOF_UINT32 == 4

\* Column::TypeSize, the bytes a column takes in the fixed part.
TypeSize(t) == CASE t = "TINYINT" -> 1 [] t = "SMALLINT" -> 2 [] t = "INTEGER" -> 4
                 [] t = "BIGINT" -> 8 [] t = "VARCHAR" -> 12

IsInlined(t) == t # "VARCHAR"

\* The Schema constructor: the offset of column i, and the length of the fixed part.
GetOffset(schema, i) ==
    SumFunctionOnSet([j \in 1 .. i - 1 |-> TypeSize(schema[j])], 1 .. i - 1)
SchemaLength(schema) == GetOffset(schema, Len(schema) + 1)

\* Value::GetLength of a VARCHAR: its text and the terminating zero.  A NULL
\* has BUSTUB_VALUE_NULL, the largest uint32_t, which adds like -1.
GetLength(val) == IF val.null THEN -1 ELSE Len(val.text) + 1

\* Mutant of the definition below.
LengthAlone(val) == GetLength(val)

\* The bytes a VARCHAR takes behind the fixed part: its length and its text.
VarlenBytes(val) == GetLength(val) + SIZEOF_UINT32

\* The running `offset' of the Tuple constructor when it comes to column i.
VarlenOffset(schema, values, i) ==
    SchemaLength(schema)
      + SumFunctionOnSet([j \in 1 .. i - 1 |-> IF IsInlined(schema[j]) THEN 0
                                               ELSE VarlenBytes(values[j])],
                         1 .. i - 1)

\* tuple_size, the sum the constructor allocates.
TupleSize(schema, values) == VarlenOffset(schema, values, Len(schema) + 1)

-----------------------------------------------------------------------------
(* Writing. *)

Write(at, n, item) == [at |-> at, n |-> n, item |-> item]

\* SerializeTo of a value: its bytes, or the length alone for a NULL VARCHAR.
SerializeValue(val, at) ==
    IF val.type # "VARCHAR" THEN <<Write(at, TypeSize(val.type), [num |-> val.raw])>>
    ELSE IF val.null THEN <<Write(at, SIZEOF_UINT32, [len |-> -1])>>
    ELSE <<Write(at, SIZEOF_UINT32, [len |-> GetLength(val)]),
           Write(at + SIZEOF_UINT32, GetLength(val), [text |-> val.text])>>

\* What the constructor writes for column i: in place, or the offset and the value there.
ColumnWrites(schema, values, i) ==
    IF IsInlined(schema[i]) THEN SerializeValue(values[i], GetOffset(schema, i))
    ELSE LET at == VarlenOffset(schema, values, i)
         IN  <<Write(GetOffset(schema, i), SIZEOF_UINT32, [off |-> at])>>
               \o SerializeValue(values[i], at)

Blank == [blank |-> 0]

\* Memory of `size' zero bytes after the writes, the later ones on top.
Memory(size, writes) ==
    [b \in 0 .. size - 1 |->
        LET over == {k \in DOMAIN writes : b \in writes[k].at .. writes[k].at + writes[k].n - 1}
        IN  IF over = {} THEN <<Blank, 0>>
            ELSE <<writes[Max(over)].item, b - writes[Max(over)].at>>]

\* The Tuple constructor.  `overrun' says that it wrote past what it allocated.
MakeTuple(schema, values) ==
    LET columns == [i \in DOMAIN schema |-> ColumnWrites(schema, values, i)]
        writes == FlattenSeq(columns)
        size == TupleSize(schema, values)
    IN  [size |-> size,
         data |-> Memory(size, writes),
         overrun |-> \E k \in DOMAIN writes : writes[k].at + writes[k].n > size]

-----------------------------------------------------------------------------
(* Reading. *)

\* The item whose n bytes lie at `at', Blank when they are not one whole item.
Load(data, at, n) ==
    IF /\ at .. at + n - 1 \subseteq DOMAIN data
       /\ \A k \in 0 .. n - 1 : data[at + k] = <<data[at][1], k>>
    THEN data[at][1] ELSE Blank

\* Tuple::GetValue with GetDataPtr: an unreadable column comes back as Blank.
GetValue(tuple, schema, i) ==
    LET at == GetOffset(schema, i)
        off == Load(tuple.data, at, SIZEOF_UINT32)
        len == Load(tuple.data, off.off, SIZEOF_UINT32)
        text == Load(tuple.data, off.off + SIZEOF_UINT32, len.len)
        num == Load(tuple.data, at, TypeSize(schema[i]))
    IN  IF IsInlined(schema[i])
        THEN IF "num" \in DOMAIN num THEN IntValue(schema[i], num.num) ELSE Blank
        ELSE IF ~("off" \in DOMAIN off) THEN Blank
        ELSE IF ~("len" \in DOMAIN len) THEN Blank
        ELSE IF len.len = -1 THEN NullVarchar
        ELSE IF "text" \in DOMAIN text THEN Varchar(text.text) ELSE Blank

\* Tuple::SerializeTo a record at `at' of a page, and DeserializeFrom it.
SerializeTo(tuple, at) ==
    [b \in at .. at + SIZEOF_UINT32 + tuple.size - 1 |->
        IF b < at + SIZEOF_UINT32 THEN <<[len |-> tuple.size], b - at>>
        ELSE tuple.data[b - at - SIZEOF_UINT32]]

DeserializeFrom(page, at) ==
    LET size == Load(page, at, SIZEOF_UINT32).len
    IN  [size |-> size,
         data |-> [b \in 0 .. size - 1 |-> page[at + SIZEOF_UINT32 + b]],
         overrun |-> FALSE]
=============================================================================
