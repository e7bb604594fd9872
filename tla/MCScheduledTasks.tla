---------------------------- MODULE MCScheduledTasks ----------------------------
(* Small instances of ScheduledTasks.  The symmetry is sound although      *)
(* Numbering is a CHOOSE: any other choice gives a permuted state.         *)
EXTENDS ScheduledTasks, TLC

CONSTANTS a, b, e1, e2, e3, noTime

RunSymmetry == Permutations(Runs) \cup Permutations(Tasks)
===============================================================================
