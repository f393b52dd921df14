------------------------ MODULE MCDestinationQueue ------------------------
(* Instances of DestinationQueue for TLC.                                  *)
EXTENDS DestinationQueue, TLC

CONSTANTS s1, s2

Symmetry == Permutations({s1, s2})
=============================================================================
