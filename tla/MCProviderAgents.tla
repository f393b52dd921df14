------------------------- MODULE MCProviderAgents -------------------------
(* Instances of ProviderAgents for TLC.                                    *)
EXTENDS ProviderAgents, TLC

CONSTANTS a1, a2, r1, r2, x1, x2

Symmetry ==
    Permutations(Agents) \cup Permutations(Requests) \cup Permutations(Addresses)
=============================================================================
