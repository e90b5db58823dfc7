---------------------------- MODULE MCNodeUpdate ----------------------------
(***************************************************************************)
(* Instances of NodeUpdate for TLC.                                        *)
(***************************************************************************)
EXTENDS NodeUpdate, TLC

CONSTANTS u1, u2, v1, v2, b0, b1, b2

\* Two updates with artifacts of their own: to the same version, or to different ones.
SameVersion == u1 :> v1 @@ u2 :> v1
OtherVersion == u1 :> v1 @@ u2 :> v2
Artifacts == u1 :> b1 @@ u2 :> b2

\* Both artifacts are packaged as v1.
Packages == b0 :> v2 @@ b1 :> v1 @@ b2 :> v1

\* Handlers of one kind are interchangeable; for safety only.
Symmetry == Permutations(Prepares) \cup Permutations(Applies)
=============================================================================
