--------------------------- MODULE MCTurnCoordinator ---------------------------
(* Small instances of TurnCoordinator for TLC: blocking callers s1 and s2, *)
(* polling callers a1 and a2.                                              *)
EXTENDS TurnCoordinator

CONSTANTS s1, s2, a1, a2, k1, k2
===============================================================================
