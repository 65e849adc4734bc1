------------------------------ MODULE MCChats ------------------------------
(* Small instances of Chats for TLC. *)
EXTENDS Chats, TLC

Symmetry == Permutations(Ids) \cup Permutations(Pages)
=============================================================================
