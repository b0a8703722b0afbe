----------------------------- MODULE MCMultiTUN -----------------------------
(* The instances of MultiTUN that TLC checks: a few devices, as model values *)
(* (interchangeable in the runs without liveness).                           *)
EXTENDS MultiTUN, TLC

Symmetry == Permutations(Dev)
=============================================================================
