---------------------------- MODULE MCGenerator ----------------------------
(* Small instances of Generator for TLC. *)
EXTENDS Generator, TLC

\* Ids and callers are only compared.
Symmetry == Permutations(Jobs) \cup Permutations(Callers)
=============================================================================
