---------------------------- MODULE MCNodeStores ----------------------------
(* Instances of NodeStores for TLC. *)
EXTENDS NodeStores, TLC

\* Validator sets, consensus parameters and the stores that exist are only compared.
Symmetry ==
    Permutations(ValidatorSet) \cup Permutations(ConsensusParams) \cup Permutations(Mounted)

=============================================================================
