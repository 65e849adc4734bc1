----------------------------- MODULE MCAccounts -----------------------------
(* Small instances of Accounts for TLC: two chats that show one picture. *)
EXTENDS Accounts, TLC

ShowsShared == [c \in Chats |-> Media]

\* Folder names, account ids and chats are only compared.
Symmetry == Permutations(Dirs) \cup Permutations(Accts) \cup Permutations(Chats)
=============================================================================
