-------------------- MODULE MCIndicationSubscriptions --------------------
(* Instances of IndicationSubscriptions for TLC.                           *)
EXTENDS IndicationSubscriptions, TLC

CONSTANTS c1, c2, s1, s2

Symmetry == Permutations(Clients) \cup Permutations(Subscriptions)
=============================================================================
