----------------------------- MODULE MCSyncSession -----------------------------
(* Values of the constants of SyncSession for TLC.                          *)
EXTENDS SyncSession, TLC

\* Threads of the application, and session objects, are interchangeable.
MCSymmetry == Permutations(App) \cup Permutations(Session)
================================================================================
