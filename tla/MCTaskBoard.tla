----------------------------- MODULE MCTaskBoard -----------------------------
(* Every board of three tasks, cycles and self-dependencies included.       *)
EXTENDS TaskBoard
=============================================================================
