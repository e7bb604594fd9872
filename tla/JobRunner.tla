------------------------------- MODULE JobRunner -------------------------------
(***************************************************************************)
(* The daemon's job runner (daemon/src/service/job_runner.py) with the     *)
(* child processes it starts, the requests that cancel them, and the       *)
(* backend's poller of each job (LocalMCPServer._poll_background_job_...). *)
(*                                                                         *)
(* Each job has a thread of the daemon and one child process.  Any thread  *)
(* that ends a job reaps every zombie child of the daemon.                 *)
(***************************************************************************)
EXTENDS Naturals, Sequences, SequencesExt

CONSTANTS
    Jobs,
    Codes,          \* the exit codes of a child; "zero" is success
    MaxFinished,    \* FINISHED_RESULT_MAX_COUNT
    MaxRestarts,    \* bound on the daemon's restarts
    Unreachable     \* whether polls may fail until the poller gives a job up

ASSUME BoundsAssumption ==
    /\ "zero" \in Codes /\ "none" \notin Codes
    /\ MaxFinished \in Nat \ {0}
    /\ MaxRestarts \in Nat
    /\ Unreachable \in BOOLEAN

VARIABLES
    thread,      \* where the thread of each job is
    process,     \* the child: none, alive, zombie or gone
    exitCode,    \* history: the code the child exited with
    seen,        \* the code its Popen object has
    requested,   \* cancel_requested of the active job
    cancelled,   \* the thread's local flag of that name
    timedOut,    \* likewise
    canceller,   \* where the cancel request of each job is
    early,       \* history: the cancel was acknowledged while the job ran
    finished,    \* _finished_results: the job ids, oldest first
    result,      \* what was stored for each job
    poller,      \* what the backend's poller of each job knows
    restarts

threadVars == <<thread, seen, cancelled, timedOut>>
childVars == <<process, exitCode>>
cancelVars == <<requested, canceller, early>>
bufferVars == <<finished, result>>
vars == <<threadVars, childVars, cancelVars, bufferVars, poller, restarts>>

FailureAsResult == [success |-> TRUE, code |-> "none", cancelled |-> FALSE]

NoResult == [success |-> FALSE, code |-> "none", cancelled |-> FALSE]

Init ==
    /\ thread = [j \in Jobs |-> "none"]
    /\ process = [j \in Jobs |-> "none"]
    /\ exitCode = [j \in Jobs |-> "none"]
    /\ seen = [j \in Jobs |-> "none"]
    /\ requested = [j \in Jobs |-> FALSE]
    /\ cancelled = [j \in Jobs |-> FALSE]
    /\ timedOut = [j \in Jobs |-> FALSE]
    /\ canceller = [j \in Jobs |-> "none"]
    /\ early = [j \in Jobs |-> FALSE]
    /\ finished = <<>>
    /\ result = [j \in Jobs |-> NoResult]
    /\ poller = [j \in Jobs |-> "none"]
    /\ restarts = 0

-------------------------------------------------------------------------------
(* start_job returns the job id before the thread has registered the job.  *)
StartJob(j) ==
    /\ poller[j] = "none"
    /\ thread' = [thread EXCEPT ![j] = "starting"]
    /\ poller' = [poller EXCEPT ![j] = "polling"]
    /\ UNCHANGED <<seen, cancelled, timedOut, childVars, cancelVars, bufferVars, restarts>>

(* The child is started, and the job registered.                           *)
Register(j) ==
    /\ thread[j] = "starting"
    /\ thread' = [thread EXCEPT ![j] = "loop"]
    /\ process' = [process EXCEPT ![j] = "alive"]
    /\ UNCHANGED <<seen, cancelled, timedOut, exitCode, cancelVars, bufferVars, poller, restarts>>

(* No workdir or no child, or ...                                          *)
FailToStart(j) ==
    /\ thread[j] = "starting"
    /\ thread' = [thread EXCEPT ![j] = "failed"]
    /\ UNCHANGED <<seen, cancelled, timedOut, childVars, cancelVars, bufferVars, poller, restarts>>

(* ... an exception in the loop (select refuses a large descriptor): the   *)
(* result says so, and nobody looks at the child again.                    *)
FailInLoop(j) ==
    /\ thread[j] = "loop"
    /\ thread' = [thread EXCEPT ![j] = "broken"]
    /\ UNCHANGED <<seen, cancelled, timedOut, childVars, cancelVars, bufferVars, poller, restarts>>

Active(j) == thread[j] \in {"loop", "broken", "exited", "rechecked"}

Exits(j, code) ==
    /\ process' = [process EXCEPT ![j] = "zombie"]
    /\ exitCode' = [exitCode EXCEPT ![j] = code]

ChildExits(j) ==
    /\ process[j] = "alive"
    /\ \E code \in Codes : Exits(j, code)
    /\ UNCHANGED <<threadVars, cancelVars, bufferVars, poller, restarts>>

TerminateNothing(j) == UNCHANGED childVars

(* _terminate_process: SIGTERM, which the child may answer with any code,  *)
(* then SIGKILL.                                                           *)
Terminate(j) ==
    IF process[j] = "alive" THEN \E code \in Codes : Exits(j, code) ELSE UNCHANGED childVars

(* The loop of the job's thread: a cancel request, ...                     *)
SeeCancel(j) ==
    /\ thread[j] = "loop"
    /\ requested[j] /\ ~ cancelled[j]
    /\ cancelled' = [cancelled EXCEPT ![j] = TRUE]
    /\ Terminate(j)
    /\ UNCHANGED <<thread, seen, timedOut, cancelVars, bufferVars, poller, restarts>>

(* ... the timeout, ...                                                    *)
TimeOut(j) ==
    /\ thread[j] = "loop"
    /\ ~ timedOut[j]
    /\ timedOut' = [timedOut EXCEPT ![j] = TRUE]
    /\ Terminate(j)
    /\ UNCHANGED <<thread, seen, cancelled, cancelVars, bufferVars, poller, restarts>>

(* What Popen.poll makes of a child: a status somebody else has collected  *)
(* counts as 0.                                                            *)
Collected(j) == IF process[j] = "zombie" THEN exitCode[j] ELSE "zero"

ChildEndedOrAskedTo(j) == process[j] \in {"zombie", "gone"} \/ requested[j]

ChildEnded(j) == process[j] \in {"zombie", "gone"}

Waited == [k \in Jobs |-> IF process[k] = "zombie" THEN "gone" ELSE process[k]]

(* ... and the end of the child, which ends the loop.                      *)
SeeExit(j) ==
    /\ thread[j] = "loop"
    /\ ChildEnded(j)
    /\ seen' = [seen EXCEPT ![j] = Collected(j)]
    /\ process' = [process EXCEPT ![j] = Waited[j]]
    /\ thread' = [thread EXCEPT ![j] = "exited"]
    /\ UNCHANGED <<cancelled, timedOut, exitCode, cancelVars, bufferVars, poller, restarts>>

CancelledAsSeen(j) == cancelled[j]

(* The flag is looked at once more before the job is unregistered.         *)
CancelledInTheEnd(j) == cancelled[j] \/ requested[j]

Recheck(j) ==
    /\ thread[j] = "exited"
    /\ cancelled' = [cancelled EXCEPT ![j] = CancelledInTheEnd(j)]
    /\ thread' = [thread EXCEPT ![j] = "rechecked"]
    /\ UNCHANGED <<seen, timedOut, childVars, cancelVars, bufferVars, poller, restarts>>

Unregister(j) ==
    /\ thread[j] \in {"rechecked", "broken"}
    /\ thread' = [thread EXCEPT ![j] = IF @ = "broken" THEN "failed" ELSE "unregistered"]
    /\ UNCHANGED <<seen, cancelled, timedOut, childVars, cancelVars, bufferVars, poller, restarts>>

(* _reap_zombies waits for any child of the daemon, not only this job's.   *)
Reap(j) ==
    /\ thread[j] \in {"unregistered", "failed"}
    /\ process' = Waited
    /\ thread' = [thread EXCEPT ![j] = IF @ = "failed" THEN "storing failure" ELSE "storing"]
    /\ UNCHANGED <<seen, cancelled, timedOut, exitCode, cancelVars, bufferVars, poller, restarts>>

Pruned(ids) ==
    IF Len(ids) > MaxFinished THEN SubSeq(ids, Len(ids) - MaxFinished + 1, Len(ids)) ELSE ids

(* _store_finished_result prunes before it stores.                         *)
Store(j) ==
    /\ thread[j] \in {"storing", "storing failure"}
    /\ finished' = Append(Pruned(finished), j)
    /\ result' = [result EXCEPT ![j] =
                     IF thread[j] = "storing"
                     THEN [success |-> TRUE, code |-> seen[j], cancelled |-> cancelled[j]]
                     ELSE NoResult]
    /\ thread' = [thread EXCEPT ![j] = "over"]
    /\ UNCHANGED <<seen, cancelled, timedOut, childVars, cancelVars, poller, restarts>>

ThreadStep(j) ==
    \/ Register(j)
    \/ FailToStart(j)
    \/ FailInLoop(j)
    \/ SeeCancel(j)
    \/ TimeOut(j)
    \/ SeeExit(j)
    \/ Recheck(j)
    \/ Unregister(j)
    \/ Reap(j)
    \/ Store(j)

-------------------------------------------------------------------------------
(* cancel_job marks the active job under the lock ...                      *)
RequestCancel(j) ==
    /\ canceller[j] = "none"
    /\ Active(j)
    /\ requested' = [requested EXCEPT ![j] = TRUE]
    /\ canceller' = [canceller EXCEPT ![j] = "terminate"]
    /\ early' = [early EXCEPT ![j] = thread[j] \in {"loop", "exited"}]
    /\ UNCHANGED <<threadVars, childVars, bufferVars, poller, restarts>>

(* ... terminates the child outside it, and answers "cancelled".           *)
FinishCancel(j) ==
    /\ canceller[j] = "terminate"
    /\ canceller' = [canceller EXCEPT ![j] = "acknowledged"]
    /\ Terminate(j)
    /\ UNCHANGED <<threadVars, requested, early, bufferVars, poller, restarts>>

(* get_job_result reads both tables under the lock, after a prune.         *)
PollStatus(j) ==
    IF Contains(Pruned(finished), j) THEN "finished"
    ELSE IF Active(j) THEN "running" ELSE "unknown"

(* The backend goes on polling while the job is running, takes a finished  *)
(* result, and gives the job up as lost when it is unknown.                *)
Poll(j) ==
    /\ poller[j] = "polling"
    /\ finished' = Pruned(finished)
    /\ poller' = [poller EXCEPT ![j] = CASE PollStatus(j) = "finished" -> "got"
                                         [] PollStatus(j) = "unknown" -> "lost"
                                         [] OTHER -> "polling"]
    /\ UNCHANGED <<threadVars, childVars, cancelVars, result, restarts>>

(* Polls that fail one after the other, or a deadline.                     *)
GiveUp(j) ==
    /\ Unreachable
    /\ poller[j] = "polling"
    /\ poller' = [poller EXCEPT ![j] = "lost"]
    /\ UNCHANGED <<threadVars, childVars, cancelVars, bufferVars, restarts>>

(* A restart forgets the jobs and their results; the children, in groups   *)
(* of their own, go on without the daemon.                                 *)
RestartDaemon ==
    /\ restarts < MaxRestarts
    /\ restarts' = restarts + 1
    /\ thread' = [j \in Jobs |-> IF thread[j] = "none" THEN "none" ELSE "over"]
    /\ requested' = [j \in Jobs |-> FALSE]
    /\ canceller' = [j \in Jobs |-> IF canceller[j] = "terminate" THEN "broken" ELSE canceller[j]]
    /\ finished' = <<>>
    /\ UNCHANGED <<seen, cancelled, timedOut, childVars, early, result, poller>>

Next ==
    \/ \E j \in Jobs :
          \/ StartJob(j)
          \/ ThreadStep(j)
          \/ ChildExits(j)
          \/ RequestCancel(j)
          \/ FinishCancel(j)
          \/ Poll(j)
          \/ GiveUp(j)
    \/ RestartDaemon

(* Threads and requests under way go on; a child need not end, nor anybody *)
(* start or cancel a job.                                                  *)
Fairness ==
    \A j \in Jobs :
        /\ WF_vars(Register(j)) /\ WF_vars(SeeCancel(j)) /\ WF_vars(TimeOut(j))
        /\ WF_vars(SeeExit(j)) /\ WF_vars(Recheck(j)) /\ WF_vars(Unregister(j))
        /\ WF_vars(Reap(j)) /\ WF_vars(Store(j))
        /\ WF_vars(FinishCancel(j)) /\ WF_vars(Poll(j))

Spec == Init /\ [][Next]_vars /\ Fairness

-------------------------------------------------------------------------------
ThreadsTyped ==
    /\ thread \in [Jobs -> {"none", "starting", "failed", "loop", "broken", "exited", "rechecked",
                            "unregistered", "storing", "storing failure", "over"}]
    /\ seen \in [Jobs -> Codes \cup {"none"}]
    /\ cancelled \in [Jobs -> BOOLEAN] /\ timedOut \in [Jobs -> BOOLEAN]

ChildrenTyped ==
    /\ process \in [Jobs -> {"none", "alive", "zombie", "gone"}]
    /\ exitCode \in [Jobs -> Codes \cup {"none"}]

CancelsTyped ==
    /\ requested \in [Jobs -> BOOLEAN] /\ early \in [Jobs -> BOOLEAN]
    /\ canceller \in [Jobs -> {"none", "terminate", "acknowledged", "broken"}]

BufferTyped ==
    /\ finished \in Seq(Jobs) /\ Len(finished) <= MaxFinished + 1
    /\ result \in [Jobs -> [success : BOOLEAN, code : Codes \cup {"none"}, cancelled : BOOLEAN]]
    /\ \A j \in Jobs : result[j].success => result[j].code \in Codes

(* The buffer holds one result more than the bound, which is checked       *)
(* before a result is stored; a completed job has an exit code.            *)
TypeOK ==
    /\ ThreadsTyped /\ ChildrenTyped /\ CancelsTyped /\ BufferTyped
    /\ poller \in [Jobs -> {"none", "polling", "got", "lost"}]
    /\ restarts \in 0 .. MaxRestarts

(* A job that is reported as run to its end has no process left, however   *)
(* it was stopped: by itself, by the timeout or by a cancel request still  *)
(* on its way to the child.                                                *)
FinishedIsDead ==
    \A j \in Jobs : Contains(finished, j) /\ result[j].success => process[j] = "gone"

(* A cancel acknowledged while the job's loop runs is in the job's result, *)
(* even when the child it killed ends the loop before the flag is seen.    *)
EarlyCancelIsReported ==
    \A j \in Jobs :
        Contains(finished, j) /\ result[j].success /\ early[j] => result[j].cancelled

(* Every job that was started leads its poller to a result, or to a loss   *)
(* of the job: a child that never ends is timed out.                       *)
PollerIsAnswered == \A j \in Jobs : poller[j] = "polling" ~> poller[j] \in {"got", "lost"}
===============================================================================
