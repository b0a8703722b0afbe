------------------------------ MODULE MCBackend ------------------------------
(* The instances of Backend that TLC checks. *)
EXTENDS Backend, TLC

\* Services, routable configurations and DNS configurations are interchangeable.
Symmetry == Permutations(Service) \cup Permutations(Routable) \cup Permutations(DCfg)
=============================================================================
