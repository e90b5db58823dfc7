-------------------------- MODULE MCControlStreams --------------------------
(***************************************************************************)
(* Instance of ControlStreams for TLC.                                     *)
(***************************************************************************)
EXTENDS ControlStreams, TLC

\* Streams and tunnels are interchangeable: no property is about liveness and
\* no action or property picks one by CHOOSE.
Symmetry == Permutations(Streams) \cup Permutations(Tunnels) \cup Permutations(Slots)
=============================================================================
