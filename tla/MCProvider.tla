------------------------------ MODULE MCProvider ------------------------------
(* Instances of ProviderContract for TLC.                                  *)
EXTENDS ProviderContract, TLC

Interchangeable == Permutations(Requests) \cup Permutations(Nonces)
=============================================================================
