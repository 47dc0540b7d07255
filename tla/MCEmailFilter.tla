---------------------------- MODULE MCEmailFilter ----------------------------
(* Small instances of EmailFilter. *)
EXTENDS EmailFilter, TLC

Symmetry == Permutations(Emails) \cup Permutations(Requests) \cup Permutations(Replicas)
=============================================================================
