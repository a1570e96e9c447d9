-------------------------- MODULE MCDownLoaderManager --------------------------
(* Values of the constants of ZFDownLoaderManager for TLC.                  *)
EXTENDS ZFDownLoaderManager

CONSTANTS u1, u2

MCURL == {u1, u2}
\* Both resources are cached under one file name.
MCSharedName == [u \in URL |-> u1]
MCLength == [u \in URL |-> IF u = u1 THEN 2 ELSE 1]
MCLongLength == [u \in URL |-> IF u = u1 THEN 3 ELSE 2]
================================================================================
