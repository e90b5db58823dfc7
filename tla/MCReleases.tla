----------------------------- MODULE MCReleases -----------------------------
(***************************************************************************)
(* Instance of Releases for TLC.                                           *)
(***************************************************************************)
EXTENDS Releases, TLC
=============================================================================
