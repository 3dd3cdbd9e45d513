------------------------ MODULE MCLifecycleDetection ------------------------
(* An instance for TLC: the runs of two processes over one identity.         *)
EXTENDS LifecycleDetection, TLC


SyncSymmetry == Permutations(Sync)
=============================================================================
