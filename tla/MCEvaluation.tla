---------------------------- MODULE MCEvaluation ----------------------------
(***************************************************************************)
(* Instance of Evaluation for TLC: all values of types of 2, 3, 6 and 7     *)
(* bits, so that every pair of operands is tried, on both sides of every    *)
(* limit, and tuples of up to three columns.                                *)
(***************************************************************************)
EXTENDS Evaluation

MCWidth == [t \in {"TINYINT", "SMALLINT", "INTEGER", "BIGINT"} |->
              CASE t = "TINYINT" -> 2 [] t = "SMALLINT" -> 3
                [] t = "INTEGER" -> 6 [] t = "BIGINT" -> 7]

MCTexts == {<<>>, <<97>>, <<98>>, <<97, 97>>, <<97, 98>>, <<97, 97, 98>>}
=============================================================================
