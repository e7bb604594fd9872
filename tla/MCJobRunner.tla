------------------------------- MODULE MCJobRunner -------------------------------
(* Small instances of JobRunner.                                           *)
EXTENDS JobRunner

CONSTANTS j1, j2
===============================================================================
