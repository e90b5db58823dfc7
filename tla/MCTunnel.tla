------------------------------ MODULE MCTunnel ------------------------------
(* The instance of Tunnel that TLC checks. *)
EXTENDS Tunnel, TLC
=============================================================================
