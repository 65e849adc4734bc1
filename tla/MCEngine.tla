------------------------------ MODULE MCEngine ------------------------------
(* Small instances of Engine for TLC. *)
EXTENDS Engine, TLC

Symmetry == Permutations(Threads) \cup Permutations(Procs)

\* OldKept without `misled`: _rollback_engine's verdict is always about the
\* trial on disk.  It isn't.
KeptByEveryVerdict == usurped \/ Hulk \in {bin, old} \/ Recoverable
=============================================================================
