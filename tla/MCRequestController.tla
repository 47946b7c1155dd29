------------------------- MODULE MCRequestController -------------------------
(* RequestController with a few interchangeable requests. *)
EXTENDS RequestController, TLC

CONSTANTS q1, q2

Symmetry == Permutations(Requests)
=============================================================================
