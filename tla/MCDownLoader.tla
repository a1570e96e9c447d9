------------------------------ MODULE MCDownLoader ------------------------------
(* Values of the constants of ZFDownLoader for TLC.                         *)
EXTENDS ZFDownLoader, TLC

CONSTANT u1

MCOneURL == {u1}
MCOwnName == [u \in URL |-> u]
MCLength == [u \in URL |-> 2]
MCLength1 == [u \in URL |-> 1]

MCSymmetry == Permutations(Task)
================================================================================
