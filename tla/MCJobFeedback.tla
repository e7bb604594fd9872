------------------------------ MODULE MCJobFeedback ------------------------------
(* Small instances of JobFeedback: terminal output and two jobs, of which  *)
(* only the first is bound to a reply ticket.                              *)
EXTENDS JobFeedback

CONSTANTS t1, j1, j2, r1

BothJobs == {j1, j2}
OutputAndJobs == {t1, j1, j2}
KindOfInput == [i \in Inputs |-> "terminal"]
RouteOfInput == [i \in Inputs |-> IF i = j1 THEN r1 ELSE NoRoute]
===============================================================================
