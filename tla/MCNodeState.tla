---------------------------- MODULE MCNodeState ----------------------------
(* The instance of NodeState that TLC checks. *)
EXTENDS NodeState, TLC

Symmetry == Permutations(Procs) \cup Permutations(Keys) \cup Permutations(Deks) \cup Permutations(Ids)
=============================================================================
