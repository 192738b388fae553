------------------------------- MODULE Types -------------------------------
(***************************************************************************)
(* SQL values of the integer types and VARCHAR (type/value.cpp and          *)
(* the type/ classes): arithmetic, comparison and casts, as operators that    *)
(* take values and return a value or the exception the code throws.         *)
(*                                                                          *)
(* A value carries its type, its representation and the null mark that the  *)
(* constructor keeps in size_.len_.  Widths are a parameter, so that every  *)
(* pair of values can be tried; an integer below SMALLINT is promoted to    *)
(* INTEGER before it is operated on, as C++ does.  An operation that        *)
(* overflows the promoted type is undefined in C++; the build that the      *)
(* README of the repository asks for (Debug, -O0, no trapping) wraps.       *)
(***************************************************************************)
EXTENDS Integers, Sequences, FiniteSetsExt

CONSTANT Width       \* [IntTypes -> Nat]: the number of bits of each type

IntTypes == {"TINYINT", "SMALLINT", "INTEGER", "BIGINT"}
TypeIds == IntTypes \cup {"VARCHAR"}

\* The order of the widths, and that products of promoted operands fit.
ASSUME WidthAssumption ==
    /\ Width \in [IntTypes -> 2 .. 12]
    /\ Width["TINYINT"] < Width["SMALLINT"]
    /\ 2 * Width["SMALLINT"] <= Width["INTEGER"]
    /\ Width["INTEGER"] < Width["BIGINT"]

-----------------------------------------------------------------------------
(* Representation. *)

\* static_cast to a type of that width, and what overflow leaves behind.
Wrap(n, t) == LET half == 2 ^ (Width[t] - 1)
              IN  ((n + half) % (2 * half)) - half

\* BUSTUB_INTn_NULL, _MIN and _MAX: the lowest pattern of a width is NULL.
NullOf(t) == -(2 ^ (Width[t] - 1))
MinOf(t) == NullOf(t) + 1
MaxOf(t) == 2 ^ (Width[t] - 1) - 1

\* The constructor of an integer value: the pattern alone decides on NULL.
IntValue(t, n) == [type |-> t, raw |-> Wrap(n, t), null |-> Wrap(n, t) = NullOf(t)]

\* The constructors of a VARCHAR value; a null pointer makes it NULL.
Varchar(str) == [type |-> "VARCHAR", text |-> str, null |-> FALSE]
NullVarchar == [type |-> "VARCHAR", text |-> <<>>, null |-> TRUE]

NullValue(t) == IF t = "VARCHAR" THEN NullVarchar ELSE IntValue(t, NullOf(t))

Throw(e) == [throw |-> e]
Throws(r) == "throw" \in DOMAIN r

\* The type of a binary operation's result: sizeof(x) >= sizeof(y) keeps the left.
Wider(s, t) == IF Width[s] >= Width[t] THEN s ELSE t
\* The type the C++ operators compute in.
Promoted(s, t) == IF "BIGINT" \in {s, t} THEN "BIGINT" ELSE "INTEGER"

-----------------------------------------------------------------------------
(* Text.  std::to_string writes the decimal numeral, std::stoi and stoll   *)
(* read it back; characters are their codes.                               *)

Minus == 45
Zero == 48

to_string(n) ==
    LET a == IF n < 0 THEN -n ELSE n
        digits == CHOOSE d \in 1 .. 5 : a < 10 ^ d /\ (d = 1 \/ a >= 10 ^ (d - 1))
    IN  (IF n < 0 THEN <<Minus>> ELSE <<>>)
          \o [i \in 1 .. digits |-> Zero + ((a \div (10 ^ (digits - i))) % 10)]

\* Every number a numeral of the model can stand for, some beyond BIGINT.
Numbers == 2 * NullOf("BIGINT") .. 2 * MaxOf("BIGINT")
NumeralOf == [n \in Numbers |-> to_string(n)]

\* stoi and stoll: std::out_of_range past the type, std::invalid_argument for no numeral.
stoi(str, t) ==
    LET read == {n \in Numbers : NumeralOf[n] = str}
    IN  IF read = {} THEN Throw("invalid_argument")
        ELSE IF \A n \in read : n \in NullOf(t) .. MaxOf(t)
             THEN [num |-> CHOOSE n \in read : TRUE]
             ELSE Throw("OUT_OF_RANGE")

\* Value::ToString of a VARCHAR: a NULL is the text "varlen_null", no numeral.
TextOf(v) == IF v.null THEN <<118>> ELSE v.text

\* memcmp of the first n bytes: the difference at the first byte that differs.
memcmp(s1, s2, n) ==
    LET differ == {i \in 1 .. n : s1[i] # s2[i]}
    IN  IF differ = {} THEN 0 ELSE s1[Min(differ)] - s2[Min(differ)]

-----------------------------------------------------------------------------
(* Casts. *)

\* Mutants of the definitions below.
NotInRangeAbove(n, t) == n > MaxOf(t)
SumOverflowsUpwards(x, y, sum) == x > 0 /\ y > 0 /\ sum < 0
CompareStringsPrefix(s1, s2) == memcmp(s1, s2, Min({Len(s1), Len(s2)}))

\* The range check of the narrowing casts.
NotInRange(n, t) == n > MaxOf(t) \/ n < MinOf(t)

\* {Tinyint,Smallint,Integer,Bigint}Type::CastAs to an integer type: a
\* narrowing cast is checked against the target's range, a widening one is not.
IntCastAs(val, t) ==
    IF val.null THEN NullValue(t)
    ELSE IF Width[t] < Width[val.type] /\ NotInRange(val.raw, t)
    THEN Throw("OUT_OF_RANGE")
    ELSE IntValue(t, val.raw)

\* ... and to VARCHAR.
IntCastToVarchar(val) == IF val.null THEN NullVarchar ELSE Varchar(to_string(val.raw))

\* VarlenType::CastAs to an integer type.  TINYINT and SMALLINT read an int,
\* narrow it without a check, and then test for the lower bound only.
Narrowed(r, t) ==
    IF Throws(r) THEN r
    ELSE IF Wrap(r.num, t) < MinOf(t) THEN Throw("OUT_OF_RANGE")
    ELSE IntValue(t, r.num)

VarlenCastAs(val, t) ==
    Narrowed(stoi(TextOf(val), IF t = "BIGINT" THEN "BIGINT" ELSE "INTEGER"), t)

CastAs(val, t) ==
    IF val.type = "VARCHAR"
    THEN IF t = "VARCHAR" THEN val ELSE VarlenCastAs(val, t)
    ELSE IF t = "VARCHAR" THEN IntCastToVarchar(val) ELSE IntCastAs(val, t)

-----------------------------------------------------------------------------
(* Arithmetic. *)

\* C++ division and remainder truncate towards zero.
Quot(x, y) == LET q == (IF x < 0 THEN -x ELSE x) \div (IF y < 0 THEN -y ELSE y)
              IN  IF (x < 0) = (y < 0) THEN q ELSE -q
Rem(x, y) == x - y * Quot(x, y)

\* The first test of Add, Subtract and MultiplyValue: the computed number fits neither type.
FitsNeither(n, s, t) == n # Wrap(n, s) /\ n # Wrap(n, t)

\* The overflow detection of AddValue.
SumOverflows(x, y, sum) == (x > 0 /\ y > 0 /\ sum < 0) \/ (x < 0 /\ y < 0 /\ sum > 0)

AddValue(left, right) ==
    LET x == left.raw
        y == right.raw
        n == Wrap(x + y, Promoted(left.type, right.type))
        t == Wider(left.type, right.type)
        sum == Wrap(n, t)
    IN  IF \/ FitsNeither(n, left.type, right.type)
           \/ SumOverflows(x, y, sum)
        THEN Throw("OUT_OF_RANGE") ELSE IntValue(t, sum)

SubtractValue(left, right) ==
    LET x == left.raw
        y == right.raw
        n == Wrap(x - y, Promoted(left.type, right.type))
        t == Wider(left.type, right.type)
        diff == Wrap(n, t)
    IN  IF \/ FitsNeither(n, left.type, right.type)
           \/ x > 0 /\ y < 0 /\ diff < 0
           \/ x < 0 /\ y > 0 /\ diff > 0
        THEN Throw("OUT_OF_RANGE") ELSE IntValue(t, diff)

MultiplyValue(left, right) ==
    LET x == left.raw
        y == right.raw
        n == Wrap(x * y, Promoted(left.type, right.type))
        t == Wider(left.type, right.type)
        prod == Wrap(n, t)
    IN  IF \/ FitsNeither(n, left.type, right.type)
           \/ y # 0 /\ Quot(prod, y) # x
        THEN Throw("OUT_OF_RANGE") ELSE IntValue(t, prod)

DivideValue(left, right) ==
    IF right.raw = 0 THEN Throw("DIVIDE_BY_ZERO")
    ELSE IntValue(Wider(left.type, right.type), Quot(left.raw, right.raw))

ModuloValue(left, right) ==
    IF right.raw = 0 THEN Throw("DIVIDE_BY_ZERO")
    ELSE IntValue(Wider(left.type, right.type), Rem(left.raw, right.raw))

\* OperateNull of the four types: the NULL of the wider type; no VARCHAR.
OperateNull(left, right) ==
    IF right.type = "VARCHAR" THEN Throw("type error")
    ELSE NullValue(Wider(left.type, right.type))

Ops == {"Add", "Subtract", "Multiply", "Divide", "Modulo"}

\* The operation proper, unless the cast of the right operand has thrown.
OperateOn(op, left, r) ==
    CASE Throws(r) -> r
      [] ~Throws(r) /\ op = "Add" -> AddValue(left, r)
      [] ~Throws(r) /\ op = "Subtract" -> SubtractValue(left, r)
      [] ~Throws(r) /\ op = "Multiply" -> MultiplyValue(left, r)
      [] ~Throws(r) /\ op = "Divide" -> DivideValue(left, r)
      [] ~Throws(r) /\ op = "Modulo" -> ModuloValue(left, r)

\* Add, Subtract, Multiply, Divide and Modulo of an integer type.  IsZero is
\* not implemented for a VARCHAR, which is otherwise cast to the left's type.
Operate(op, left, right) ==
    IF left.null \/ right.null THEN OperateNull(left, right)
    ELSE IF op \in {"Divide", "Modulo"} /\ right.type = "VARCHAR"
    THEN Throw("isZero not implemented")
    ELSE OperateOn(op, left, IF right.type = "VARCHAR" THEN CastAs(right, left.type) ELSE right)

-----------------------------------------------------------------------------
(* Comparison. *)

\* TypeUtil::CompareStrings.
CompareStrings(s1, s2) ==
    LET ret == memcmp(s1, s2, Min({Len(s1), Len(s2)}))
    IN  IF ret = 0 /\ Len(s1) # Len(s2) THEN Len(s1) - Len(s2) ELSE ret

\* What the six Compare functions take the sign of: the texts for a VARCHAR on
\* the left (the right is cast to text), else the numbers (the right to left's type).
Difference(left, r) ==
    IF Throws(r) THEN r
    ELSE [num |-> IF left.type = "VARCHAR" THEN CompareStrings(left.text, r.text)
                  ELSE left.raw - r.raw]

CompareBy(left, right) ==
    Difference(left, CastAs(right, IF right.type # "VARCHAR" /\ left.type # "VARCHAR"
                                   THEN right.type ELSE left.type))

Cmps == {"Equals", "NotEquals", "LessThan", "LessThanEquals",
         "GreaterThan", "GreaterThanEquals"}

GetCmpBool(b) == IF b THEN "CmpTrue" ELSE "CmpFalse"

\* What a comparison makes of the difference, or of the exception of the cast.
CmpOf(cmp, d) ==
    IF Throws(d) THEN d.throw
    ELSE GetCmpBool(CASE cmp = "Equals" -> d.num = 0
                      [] cmp = "NotEquals" -> d.num # 0
                      [] cmp = "LessThan" -> d.num < 0
                      [] cmp = "LessThanEquals" -> d.num <= 0
                      [] cmp = "GreaterThan" -> d.num > 0
                      [] cmp = "GreaterThanEquals" -> d.num >= 0)

\* CompareEquals ... CompareGreaterThanEquals: CmpTrue, CmpFalse, CmpNull, or an exception.
Compare(cmp, left, right) ==
    IF left.null \/ right.null THEN "CmpNull" ELSE CmpOf(cmp, CompareBy(left, right))

\* IntegerParentType::Min and Max: the result is a copy of an operand.
Chosen(c, left, right) ==
    CASE c = "CmpTrue" -> left [] c = "CmpFalse" -> right [] OTHER -> Throw(c)

MinValue(left, right) ==
    IF left.null \/ right.null THEN OperateNull(left, right)
    ELSE Chosen(Compare("LessThan", left, right), left, right)

MaxValue(left, right) ==
    IF left.null \/ right.null THEN OperateNull(left, right)
    ELSE Chosen(Compare("GreaterThanEquals", left, right), left, right)
=============================================================================
