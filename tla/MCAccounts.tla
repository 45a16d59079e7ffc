---------------------------- MODULE MCAccounts ----------------------------
(***************************************************************************)
(* Accounts with its tree for TLC: enough users for a node with two        *)
(* children whose successor is deeper in the tree, and two sessions that   *)
(* may be one user's.                                                      *)
(***************************************************************************)
EXTENDS IndexedAccounts, TLC

CONSTANTS s1, s2

Interchangeable == Permutations(Sessions)
=============================================================================
