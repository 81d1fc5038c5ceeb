----------------------------- MODULE MCWalletScan -----------------------------
(* Instances of WalletScan for TLC. *)
EXTENDS WalletScan, TLC

(* Two processes that scan the same wallet are interchangeable. *)
ProcessSymmetry == Permutations(Processes)
=============================================================================
