---------------------------- MODULE MCExecutors ----------------------------
(***************************************************************************)
(* Instance of Executors for TLC: four rows with NULL, the largest and the  *)
(* smallest INTEGER among the values, keys 1 and 3 with the same hash, and  *)
(* six plans that put every executor above and below others.                *)
(***************************************************************************)
EXTENDS Executors

MCWidth == [t \in {"TINYINT", "SMALLINT", "INTEGER", "BIGINT"} |->
              CASE t = "TINYINT" -> 2 [] t = "SMALLINT" -> 3
                [] t = "INTEGER" -> 6 [] t = "BIGINT" -> 7]

MCRow(k, n) == [k |-> k, v |-> IntValue("INTEGER", n)]
MCRowSet ==
    [left |-> {MCRow(1, NullOf("INTEGER")), MCRow(1, 5), MCRow(2, MaxOf("INTEGER")),
               MCRow(3, MinOf("INTEGER"))},
     right |-> {MCRow(k, 0) : k \in 1 .. 3}]   \* the join uses their keys only

MCHashOf == <<0, 1, 0>>

MCPlan(source, where, agg, having, insert) ==
    [source |-> source, where |-> where, agg |-> agg, having |-> having, insert |-> insert]
MCQueries ==
    {MCPlan("scan", TRUE, "none", FALSE, FALSE), MCPlan("scan", TRUE, "all", FALSE, TRUE),
     MCPlan("scan", FALSE, "group", TRUE, FALSE), MCPlan("scan", TRUE, "none", FALSE, TRUE),
     MCPlan("join", FALSE, "none", FALSE, FALSE), MCPlan("join", TRUE, "group", FALSE, TRUE)}
=============================================================================
