------------------------ MODULE MCProviderLifecycle ------------------------
(* Instances of ProviderLifecycle for TLC.                                 *)
EXTENDS ProviderLifecycle, TLC

CONSTANTS p1, p2, t1, t2

Symmetry == Permutations(Providers) \cup Permutations(Threads)
=============================================================================
