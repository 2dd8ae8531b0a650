-------------------------- MODULE MCVRFCoordinator --------------------------
(* The coordinator for TLC; see the .cfg files for the instances. *)
EXTENDS VRFCoordinator, TLC

\* No action tells one proving key from another.
KeySymmetry == Permutations(KeyHash)
=============================================================================
