------------------------------ MODULE MCSetup ------------------------------
(* The instance of Setup that TLC checks. *)
EXTENDS Setup, TLC

Symmetry == Permutations(Actors)
=============================================================================
