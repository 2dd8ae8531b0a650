-------------------------- MODULE MCWalletKeystore --------------------------
(* The wallet for TLC. *)
EXTENDS WalletKeystore, TLC

\* Names are interchangeable but for root, and so are passphrases and terminals.
WalletSymmetry ==
    Permutations(Name \ {RootName}) \cup Permutations(Pass) \cup Permutations(Process)
=============================================================================
