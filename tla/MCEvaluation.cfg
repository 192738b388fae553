SPECIFICATION Spec
CONSTANTS
    Width <- MCWidth
    Texts <- MCTexts
    ColumnTypes = {"TINYINT", "INTEGER", "VARCHAR"}
    MaxColumns = 3
    NullVarchars = FALSE
INVARIANTS ArithmeticExact CastExact ComparisonsAgree TupleRoundTrip
