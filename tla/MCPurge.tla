------------------------------- MODULE MCPurge -------------------------------
(***************************************************************************)
(* Two posts with a row in every table between them, and rows that may be  *)
(* added while the purge runs.                                             *)
(***************************************************************************)
EXTENDS Purge

CONSTANTS p, q

Row(table, post, id) == [table |-> table, post |-> post, id |-> id]

Existing == {
    Row("posts", p, 1), Row("fileinfo", p, 1), Row("mentions", p, 1),
    Row("posts", q, 1), Row("reactions", q, 1)}
Added == {Row("reactions", p, 1), Row("fileinfo", q, 1), Row("reactions", q, 2)}
AllRows == Existing \cup Added
==============================================================================
