------------------------------- MODULE InputPipe -------------------------------
(***************************************************************************)
(* What AgentSession.process_input promises to the senders of inputs, web  *)
(* chats, scheduled tasks, terminal streams and job results alike: an      *)
(* input is refused at once or accepted; an accepted one is processed to   *)
(* its completion callback unless a user withdraws what is waiting.        *)
(***************************************************************************)
CONSTANT Inputs

VARIABLE status

PipeInit == status = [i \in Inputs |-> "unsent"]

Change(S, from, to) ==
    /\ \A i \in S : status[i] \in from
    /\ status' = [i \in Inputs |-> IF i \in S THEN to ELSE status[i]]

(* One call of process_input carries one input or a merged stream batch.   *)
Accept(S) == Change(S, {"unsent"}, "accepted")
Refuse(S) == Change(S, {"unsent"}, "refused")

(* One turn completes all inputs of its batch.                             *)
Complete(S) == Change(S, {"accepted"}, "done")

(* An abort takes back what has not been answered yet.                     *)
Withdraw(S) == Change(S, {"unsent", "accepted"}, "withdrawn")

PipeNext ==
    \E S \in (SUBSET Inputs) \ {{}} : Accept(S) \/ Refuse(S) \/ Complete(S) \/ Withdraw(S)

(* An accepted input does not wait for ever.                               *)
Settle(i) ==
    /\ status[i] = "accepted"
    /\ \E S \in SUBSET Inputs : i \in S /\ (Complete(S) \/ Withdraw(S))

PipeFairness == \A i \in Inputs : WF_status(Settle(i))

PipeSpec == PipeInit /\ [][PipeNext]_status /\ PipeFairness
===============================================================================
