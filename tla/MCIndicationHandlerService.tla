-------------------- MODULE MCIndicationHandlerService --------------------
(* Instances of IndicationHandlerService for TLC.                          *)
EXTENDS IndicationHandlerService, TLC

CONSTANTS d1, d2, r1, r2, t1, t2

Symmetry ==
    Permutations(Destinations) \cup Permutations(Requests)
        \cup Permutations(DeliveryThreads)
=============================================================================
