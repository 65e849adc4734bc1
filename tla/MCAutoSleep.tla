----------------------------- MODULE MCAutoSleep -----------------------------
(* Small instances of AutoSleep for TLC. *)
EXTENDS AutoSleep, TLC

Symmetry == Permutations(Requests)
=============================================================================
