---------------------------- MODULE MCSearchSync -----------------------------
(* The syncs of module SearchSync are alike: TLC explores one of each kind. *)
EXTENDS SearchSync, TLC

Symmetry == Permutations(Syncers)
=============================================================================
