---------------------------- MODULE MCGpuIdentity ----------------------------
(* Instances of GpuIdentity for TLC.                                       *)
EXTENDS GpuIdentity, TLC

Interchangeable ==
    Permutations(Hotkeys) \cup Permutations(Gpus) \cup Permutations(Processes)
=============================================================================
