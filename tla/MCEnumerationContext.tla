----------------------- MODULE MCEnumerationContext -----------------------
(* Instances of EnumerationContext for TLC.                                *)
EXTENDS EnumerationContext

CONSTANTS c1, k1, k2
-----------------------------------------------------------------------------
\* The discipline without Harmless: closes and pulls of another type at any time.
LateSpec == Init /\ [][Next /\ FoundFresh /\ ResponsePrompt]_vars /\ Fairness
=============================================================================
