------------------------------ MODULE MCSqliteTool ------------------------------
(* Values of the constants of ZFSqliteTool for TLC.                         *)
EXTENDS ZFSqliteTool

CONSTANTS one, two, three

\* A single statement and two batches.
MCCall == {one, two, three}
MCCount == [c \in Call |-> CASE c = one -> 1 [] c = two -> 2 [] c = three -> 3]
================================================================================
