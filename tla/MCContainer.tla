----------------------------- MODULE MCContainer -----------------------------
(* Container with the application's own registrations. *)
EXTENDS Container, Wiring, TLC

Symmetry == Permutations(Requests)
=============================================================================
