--------------------------- MODULE MCRobotDispatch ---------------------------
(* Small instances of RobotDispatch: direct messages d1, d2 and one, c1,   *)
(* that only counts in an awake conversation.  No definition tells d1 and  *)
(* d2 apart.                                                               *)
EXTENDS RobotDispatch, TLC

CONSTANTS d1, d2, c1, r1, w1, w2

Alike == Permutations({d1, d2})
===============================================================================
