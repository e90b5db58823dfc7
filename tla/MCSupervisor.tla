---------------------------- MODULE MCSupervisor ----------------------------
(***************************************************************************)
(* The unit for TLC: its two children, its two signals.                    *)
(***************************************************************************)
EXTENDS Supervisor, TLC
=============================================================================
