----------------------------- MODULE Evaluation -----------------------------
(***************************************************************************)
(* Calls on values and tuples: an expression operates on two values, casts  *)
(* or compares them, or builds a tuple that is stored and read back.  The   *)
(* functions keep no state, so a call is one step that records its operands *)
(* and its result, and the next one forgets them.                           *)
(***************************************************************************)
EXTENDS Tuples

CONSTANTS
    Texts,          \* the VARCHAR values that are no numerals
    ColumnTypes,    \* the column types of the tuples that are built
    MaxColumns,     \* the number of their columns
    NullVarchars    \* whether a tuple may hold a NULL VARCHAR

VARIABLE call       \* the last call: operation, operands, result

vars == <<call>>

Idle == [op |-> "none"]

Ints == UNION {{IntValue(t, n) : n \in NullOf(t) .. MaxOf(t)} : t \in IntTypes}
Numerals == {Varchar(to_string(n)) : n \in NullOf("BIGINT") - 2 .. MaxOf("BIGINT") + 2}
Strings == {Varchar(s) : s \in Texts}
Values == Ints \cup Numerals \cup Strings \cup {NullVarchar}

\* A few values of every type for the columns of a tuple.
ColumnValues(t) ==
    IF t = "VARCHAR" THEN Strings \cup (IF NullVarchars THEN {NullVarchar} ELSE {})
    ELSE {IntValue(t, n) : n \in {NullOf(t), 1}}

Init == call = Idle

\* Value::Add ... Modulo of an integer with an integer or a numeral.
EvalArithmetic ==
    /\ call = Idle
    /\ \E op \in Ops, left \in Ints, right \in Ints \cup {NullVarchar, Varchar(to_string(1))} :
           call' = [op |-> op, left |-> left, right |-> right,
                    result |-> Operate(op, left, right)]

\* Value::CastAs.
EvalCast ==
    /\ call = Idle
    /\ \E val \in Values, t \in TypeIds :
           call' = [op |-> "CastAs", left |-> val, to |-> t, result |-> CastAs(val, t)]

\* The six comparisons of two values, and Min and Max where they are defined.
EvalCompare ==
    /\ call = Idle
    /\ \E left, right \in Values :
           /\ left.type = "VARCHAR" => right \in Strings \cup {NullVarchar} \cup Ints
           /\ right \in Numerals => left.type \in {"TINYINT", "INTEGER"}
           /\ left.type # "VARCHAR" => right \notin Strings
           /\ call' = [op |-> "Compare", left |-> left, right |-> right,
                       result |-> [cmp \in Cmps |-> Compare(cmp, left, right)],
                       extrema |-> IF left.type = "VARCHAR" THEN <<>>
                                   ELSE <<MinValue(left, right), MaxValue(left, right)>>]

\* A tuple is built, serialised into a page, read back, and its columns fetched.
StoreTuple ==
    /\ call = Idle
    /\ \E n \in 1 .. MaxColumns : \E schema \in [1 .. n -> ColumnTypes] :
       \E values \in {v \in [1 .. n -> UNION {ColumnValues(t) : t \in ColumnTypes}] :
                         \A i \in 1 .. n : v[i] \in ColumnValues(schema[i])} :
           LET tuple == MakeTuple(schema, values)
               copy == DeserializeFrom(SerializeTo(tuple, 12), 12)
           IN  call' = [op |-> "Tuple", values |-> values, overrun |-> tuple.overrun,
                        result |-> [i \in 1 .. n |-> GetValue(copy, schema, i)]]

Return ==
    /\ call # Idle
    /\ call' = Idle

Next == EvalArithmetic \/ EvalCast \/ EvalCompare \/ StoreTuple \/ Return

Spec == Init /\ [][Next]_vars

-----------------------------------------------------------------------------
(* Properties. *)

\* The quotient of C++: the part of x that y measures, towards zero.
Quotients(x, y) == {q \in -128 .. 128 : LET m == x - y * q IN
                        /\ m * m < y * y
                        /\ m = 0 \/ (m < 0) = (x < 0)}

\* The number an operation denotes.
Exact(op, x, y) == CASE op = "Add" -> x + y
                     [] op = "Subtract" -> x - y
                     [] op = "Multiply" -> x * y
                     [] op = "Divide" -> (CHOOSE q \in Quotients(x, y) : TRUE)
                     [] op = "Modulo" -> x - y * (CHOOSE q \in Quotients(x, y) : TRUE)

\* Integer arithmetic of any two of the four types is exact or refused
\* (IntegerParentType::AddValue ... ModuloValue behind Value::Add ... Modulo).
\* A result has the wider type and is the true number; OUT_OF_RANGE is thrown
\* exactly when the wider type's bit patterns do not hold that number, however
\* the checks on wrapped sums, products and signs come by it; a NULL operand
\* gives the wider type's NULL.  The lowest pattern of a type is its NULL: a
\* number one below the minimum is not refused but comes back as NULL.
ArithmeticExact ==
    call.op \in Ops /\ call.right.type # "VARCHAR" =>
      LET t == IF Width[call.left.type] < Width[call.right.type]
               THEN call.right.type ELSE call.left.type
          n == Exact(call.op, call.left.raw, call.right.raw)
      IN  IF call.left.null \/ call.right.null
          THEN call.result.null /\ call.result.type = t
          ELSE IF call.op \in {"Divide", "Modulo"} /\ call.right.raw = 0
          THEN call.result = Throw("DIVIDE_BY_ZERO")
          ELSE IF n \in NullOf(t) .. MaxOf(t)
          THEN call.result = [type |-> t, raw |-> n, null |-> n = NullOf(t)]
          ELSE call.result = Throw("OUT_OF_RANGE")

\* A cast keeps the number or refuses it (CastAs of the integer types and of
\* VarlenType).  An integer, or a numeral read as INTEGER or BIGINT, becomes
\* the same number of the target type if the type can hold it and is refused
\* otherwise; TINYINT and SMALLINT read from text are exact where the number
\* fits.  A cast to VARCHAR and back is the identity, NULL stays NULL.
CastExact ==
    call.op = "CastAs" /\ call.to # "VARCHAR" =>
      LET v == call.left
          number == IF v.type # "VARCHAR" THEN {v.raw}
                    ELSE {n \in Numbers : NumeralOf[n] = v.text}
          fits == number \cap (MinOf(call.to) .. MaxOf(call.to))
      IN  IF v.null
          THEN v.type # "VARCHAR" => /\ call.result = NullValue(call.to)
                                     /\ CastAs(v, "VARCHAR").null
          ELSE /\ \A n \in fits : /\ call.result = IntValue(call.to, n)
                                  /\ CastAs(CastAs(call.result, "VARCHAR"), call.to) = call.result
               /\ fits = {} /\ (v.type # "VARCHAR" \/ call.to \in {"INTEGER", "BIGINT"})
                    => Throws(call.result)

\* The place of a text in the dictionary, as a number: texts of at most four
\* characters, padded with zeros, read in base 128.
Place(text) == SumFunctionOnSet([i \in 1 .. 4 |-> (IF i <= Len(text) THEN text[i] ELSE 0)
                                                     * (128 ^ (4 - i))], 1 .. 4)

\* The six comparisons, Min and Max describe one total order
\* (Compare... of the integer types and of VarlenType, IntegerParentType::Min
\* and Max): the numeric one between integers of any types, the dictionary
\* order between texts, also where one text is the beginning of the other; the
\* numeric one when an integer meets a numeral of its range on the right, and
\* an integer on the right equals a text exactly when it is written like it.
ComparisonsAgree ==
    call.op = "Compare" =>
      LET l == call.left
          r == call.right
          ints == l.type # "VARCHAR" /\ r.type # "VARCHAR"
          texts == l.type = "VARCHAR" /\ r.type = "VARCHAR"
          number == IF r.type # "VARCHAR" THEN {r.raw}
                    ELSE {n \in MinOf(l.type) .. MaxOf(l.type) : NumeralOf[n] = r.text}
          Agrees(a, b) ==
              \A cmp \in Cmps :
                  call.result[cmp] = GetCmpBool(CASE cmp = "Equals" -> a = b
                                                  [] cmp = "NotEquals" -> a # b
                                                  [] cmp = "LessThan" -> a < b
                                                  [] cmp = "LessThanEquals" -> a <= b
                                                  [] cmp = "GreaterThan" -> a > b
                                                  [] cmp = "GreaterThanEquals" -> a >= b)
      IN  IF l.null \/ r.null THEN \A cmp \in Cmps : call.result[cmp] = "CmpNull"
          ELSE IF texts THEN Agrees(Place(l.text), Place(r.text))
          ELSE IF l.type = "VARCHAR"
          THEN (call.result["Equals"] = "CmpTrue") <=> (l.text = NumeralOf[r.raw])
          ELSE \A n \in number :
                 /\ Agrees(l.raw, n)
                 /\ ints => /\ call.extrema[1].raw = Min({l.raw, n})
                            /\ call.extrema[2].raw = Max({l.raw, n})

\* A tuple gives its values back (the Tuple constructor, SerializeTo,
\* DeserializeFrom, GetValue): for every schema, every column read from the
\* stored copy is the value that went in, and nothing is written past the size
\* the constructor computed, although the offsets are computed a second time
\* while the columns are written.
TupleRoundTrip ==
    call.op = "Tuple" => ~call.overrun /\ call.result = call.values
=============================================================================
