-------------------------- MODULE MCRoutingTickets --------------------------
(***************************************************************************)
(* Instance of RoutingTickets for TLC.                                     *)
(***************************************************************************)
EXTENDS RoutingTickets, TLC

\* Tickets and requests are interchangeable; no property is a liveness property.
Symmetry == Permutations(Jtis) \cup Permutations(Requests)
=============================================================================
