------------------------------- MODULE MCVRF -------------------------------
(* The curve over the field of 43 elements: 31 points with infinity, a prime
   number below the size of the field, as for secp256k1. *)
EXTENDS VRF

SmallGenerator == <<2, 12>>
=============================================================================
