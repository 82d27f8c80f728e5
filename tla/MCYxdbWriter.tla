----------------------------- MODULE MCYxdbWriter -----------------------------
(***************************************************************************)
(* Batches of one or two rows: rows shorter than a block, exactly a block, *)
(* one and four bytes longer, and a row that does not serialise.          *)
(***************************************************************************)
EXTENDS YxdbWriter

MCRows == [len : {1, 3, 4, 7}, bad : {FALSE}] \cup [len : {2}, bad : {TRUE}]

MCBatches == {<<r>> : r \in MCRows} \cup {<<r, s>> : r \in MCRows, s \in MCRows}
=============================================================================
