------------------------- MODULE MCDeliveryStatus -------------------------
(* Instances of DeliveryStatus for TLC.                                    *)
EXTENDS DeliveryStatus, TLC

CONSTANTS t1, t2, s1, s2

Symmetry == Permutations(Senders) \cup Permutations(Subscriptions)
=============================================================================
