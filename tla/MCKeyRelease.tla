---------------------------- MODULE MCKeyRelease ----------------------------
(* Instances of KeyRelease for TLC.                                        *)
EXTENDS KeyRelease, TLC

(* Every caller is a process of its own.                                   *)
OwnProcess == [c \in Callers |-> c]

(* One policy change in a behaviour, of either policy.                     *)
OneRollover == policy.attestation + policy.workload <= 1

Interchangeable == Permutations(Callers)
=============================================================================
