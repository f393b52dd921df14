---------------------------- MODULE MCInstanceStore ----------------------------
(* Instances of InstanceStore for TLC.                                     *)
EXTENDS InstanceStore, TLC

CONSTANTS n1, n2, v1, v2

Symmetry == Permutations({n1, n2}) \cup Permutations({v1, v2})
=============================================================================
