----------------------------- MODULE ScheduledTasks -----------------------------
(***************************************************************************)
(* The scheduler of agent tasks (services/agent/scheduled_tasks.py): task  *)
(* files under one lock, a thread that claims what is due, a dispatch      *)
(* thread per run, and the completion callback of the turn that ran it.    *)
(* The session the runs are sent to is the abstract InputPipe.             *)
(*                                                                         *)
(* A run is one execution_id.  Each write of a task starts a new version   *)
(* of it; runs remember the version they were claimed from.                *)
(***************************************************************************)
EXTENDS Integers, FiniteSets

CONSTANTS
    Tasks,          \* task ids
    Runs,           \* execution ids: bounds the runs explored
    Kinds,          \* subset of {"once", "repeat"}: the schedule types written
    NoTime,
    Period,         \* of a repeating task (interval or daily)
    MaxTime,        \* bound of the clock
    MaxWrites,      \* bound on the writes of each task
    MaxCrashes,     \* bound on the backend's crashes
    MaxFaults,      \* bound on failed saves
    Lossy           \* whether the session may refuse or lose inputs

ASSUME BoundsAssumption ==
    /\ Kinds \subseteq {"once", "repeat"}
    /\ {Period, MaxTime, MaxWrites, MaxCrashes, MaxFaults} \subseteq Nat
    /\ NoTime \notin Int
    /\ Lossy \in BOOLEAN

VARIABLES
    now,         \* the wall clock
    task,        \* the task files
    version,     \* history: writes of each task
    doneRuns,    \* history: finished runs of the task's present version
    disturbed,   \* history: the task was rewritten while it ran
    run,         \* the runs: their task, its version and their stage
    pipe,        \* what the session did with the input of each run
    up,          \* the backend runs
    crashes,
    faults

vars == <<now, task, version, doneRuns, disturbed, run, pipe, up, crashes, faults>>

Session == INSTANCE InputPipe WITH Inputs <- Runs, status <- pipe

NotThere == [there |-> FALSE, kind |-> "once", enabled |-> FALSE, running |-> FALSE,
             at |-> NoTime, next |-> NoTime]

Init ==
    /\ now = 0
    /\ task = [t \in Tasks |-> NotThere]
    /\ version = [t \in Tasks |-> 0]
    /\ doneRuns = [t \in Tasks |-> 0]
    /\ disturbed = [t \in Tasks |-> FALSE]
    /\ run = [e \in Runs |-> [stage |-> "unused"]]
    /\ Session!PipeInit
    /\ up = TRUE
    /\ crashes = 0
    /\ faults = 0

Tick ==
    /\ now < MaxTime
    /\ now' = now + 1
    /\ UNCHANGED <<task, version, doneRuns, disturbed, run, pipe, up, crashes, faults>>

(* _next_run_for_task: a once task keeps its time, which may be past.      *)
NextRun(entry) == IF entry.kind = "once" THEN entry.at ELSE now + Period

(* A write, by a user or by the agent, perhaps in the task's own run: the  *)
(* running mark is cleared whatever runs.                                  *)
Write(t, kind, when, on) ==
    LET entry == [there |-> TRUE, kind |-> kind, enabled |-> on, running |-> FALSE,
                  at |-> when, next |-> NoTime]
    IN  /\ up
        /\ version[t] < MaxWrites
        /\ version[t] > 0 => task[t].there
        /\ task' = [task EXCEPT ![t] =
                       [entry EXCEPT !.next = IF on THEN NextRun(entry) ELSE NoTime]]
        /\ version' = [version EXCEPT ![t] = @ + 1]
        /\ doneRuns' = [doneRuns EXCEPT ![t] = 0]
        /\ disturbed' = [disturbed EXCEPT ![t] = @ \/ task[t].running]
        /\ UNCHANGED <<now, run, pipe, up, crashes, faults>>

Delete(t) ==
    /\ up
    /\ task[t].there
    /\ task' = [task EXCEPT ![t] = NotThere]
    /\ UNCHANGED <<now, version, doneRuns, disturbed, run, pipe, up, crashes, faults>>

ClaimableAny(t) == task[t].enabled

Claimable(t) == task[t].enabled /\ ~ task[t].running

Due == {t \in Tasks : Claimable(t) /\ task[t].next # NoTime /\ task[t].next <= now}

Started(S) == [t \in Tasks |-> IF t \in S THEN [task[t] EXCEPT !.running = TRUE] ELSE task[t]]

Unused == {e \in Runs : run[e].stage = "unused"}

Numberings == {f \in [Due -> Unused] : \A t, u \in Due : f[t] = f[u] => t = u}

Numbering == CHOOSE f \in Numberings : TRUE

(* _claim_due_tasks, and a dispatch thread for each task it claimed.       *)
Claim ==
    /\ up
    /\ Due # {}
    /\ Numberings # {}
    /\ task' = Started(Due)
    /\ run' = [e \in Runs |->
                 IF \E t \in Due : Numbering[t] = e
                 THEN LET t == CHOOSE u \in Due : Numbering[u] = e
                      IN  [stage |-> "claimed", task |-> t, version |-> version[t]]
                 ELSE run[e]]
    /\ UNCHANGED <<now, version, doneRuns, disturbed, pipe, up, crashes, faults>>

(* A save fails: the files saved before it say running, and the exception  *)
(* ends the pass before any thread is started.                             *)
ClaimFails ==
    /\ up
    /\ faults < MaxFaults
    /\ faults' = faults + 1
    /\ Due # {}
    /\ \E S \in SUBSET Due : S # Due /\ task' = Started(S)
    /\ UNCHANGED <<now, version, doneRuns, disturbed, run, pipe, up, crashes>>

FinishedAnyway(entry) ==
    [entry EXCEPT !.running = FALSE, !.next = IF entry.enabled THEN NextRun(entry) ELSE NoTime]

(* What _finish_task writes, whichever run of the task has ended.          *)
Finished(entry) ==
    IF entry.kind = "once"
    THEN [entry EXCEPT !.running = FALSE, !.enabled = FALSE, !.next = NoTime]
    ELSE [entry EXCEPT !.running = FALSE,
                       !.next = IF entry.enabled THEN NextRun(entry) ELSE NoTime]

FinishTask(e) ==
    LET t == run[e].task
    IN  /\ run' = [run EXCEPT ![e].stage = "over"]
        /\ task' = IF task[t].there THEN [task EXCEPT ![t] = Finished(@)] ELSE task
        /\ doneRuns' = IF run[e].version = version[t]
                       THEN [doneRuns EXCEPT ![t] = @ + 1]
                       ELSE doneRuns

(* The dispatch thread hands the run to the session, which may refuse it   *)
(* without saying so; an error before that finishes the run as failed.     *)
Dispatch(e) ==
    /\ up
    /\ run[e].stage = "claimed"
    /\ \/ Session!Accept({e}) \/ (Lossy /\ Session!Refuse({e}))
    /\ run' = [run EXCEPT ![e].stage = "sent"]
    /\ UNCHANGED <<now, task, version, doneRuns, disturbed, up, crashes, faults>>

DispatchFails(e) ==
    /\ up
    /\ run[e].stage = "claimed"
    /\ FinishTask(e)
    /\ UNCHANGED <<now, version, disturbed, pipe, up, crashes, faults>>

(* The turn of the run has ended ...                                       *)
EndTurn(e) ==
    /\ up
    /\ run[e].stage = "sent"
    /\ Session!Complete({e})
    /\ run' = [run EXCEPT ![e].stage = "ended"]
    /\ UNCHANGED <<now, task, version, doneRuns, disturbed, up, crashes, faults>>

(* ... and its completion callback is called.                              *)
Callback(e) ==
    /\ up
    /\ run[e].stage = "ended"
    /\ FinishTask(e)
    /\ UNCHANGED <<now, version, disturbed, pipe, up, crashes, faults>>

(* A user's abort clears the session's queue.                              *)
Withdraw(e) ==
    /\ up /\ Lossy
    /\ run[e].stage = "sent"
    /\ Session!Withdraw({e})
    /\ UNCHANGED <<now, task, version, doneRuns, disturbed, run, up, crashes, faults>>

Crash ==
    /\ up
    /\ crashes < MaxCrashes
    /\ crashes' = crashes + 1
    /\ up' = FALSE
    /\ run' = [e \in Runs |-> IF run[e].stage = "unused" THEN run[e]
                              ELSE [run[e] EXCEPT !.stage = "over"]]
    /\ UNCHANGED <<now, task, version, doneRuns, disturbed, pipe, faults>>

NothingRecovered == task

(* _recover_interrupted_tasks: the next run stays where it was, so what a  *)
(* crash interrupted runs again.                                           *)
Recovered == [t \in Tasks |-> [task[t] EXCEPT !.running = FALSE]]

Restart ==
    /\ ~ up
    /\ up' = TRUE
    /\ task' = Recovered
    /\ UNCHANGED <<now, version, doneRuns, disturbed, run, pipe, crashes, faults>>

RunStep(e) == Dispatch(e) \/ DispatchFails(e) \/ EndTurn(e) \/ Callback(e)

Next ==
    \/ Tick
    \/ \E t \in Tasks :
         \/ \E kind \in Kinds, when \in 0 .. MaxTime, on \in BOOLEAN :
               Write(t, kind, when, on)
         \/ Delete(t)
    \/ Claim
    \/ ClaimFails
    \/ \E e \in Runs : RunStep(e) \/ Withdraw(e)
    \/ Crash
    \/ Restart

(* Time passes, the scheduler polls every second, threads run, the session *)
(* settles what it accepted (InputPipe), and a crashed backend comes back. *)
Fairness ==
    /\ WF_vars(Tick) /\ WF_vars(Claim) /\ WF_vars(Restart)
    /\ \A e \in Runs : WF_vars(RunStep(e))

Spec == Init /\ [][Next]_vars /\ Fairness

-------------------------------------------------------------------------------
TypeOK ==
    /\ now \in 0 .. MaxTime
    /\ task \in [Tasks -> [there : BOOLEAN, kind : {"once", "repeat"}, enabled : BOOLEAN,
                           running : BOOLEAN, at : 0 .. MaxTime \cup {NoTime},
                           next : 0 .. MaxTime + Period \cup {NoTime}]]
    /\ version \in [Tasks -> 0 .. MaxWrites]
    /\ doneRuns \in [Tasks -> Nat]
    /\ disturbed \in [Tasks -> BOOLEAN]
    /\ run \in [Runs -> [stage : {"unused"}] \cup
                       [stage : {"claimed", "sent", "ended", "over"}, task : Tasks,
                        version : 1 .. MaxWrites]]
    /\ pipe \in [Runs -> {"unsent", "accepted", "refused", "done", "withdrawn"}]
    /\ up \in BOOLEAN /\ crashes \in 0 .. MaxCrashes /\ faults \in 0 .. MaxFaults
    /\ \A t \in Tasks : task[t].enabled => task[t].next # NoTime

(* The runs of a task that are on their way to the callback.               *)
Live(e) ==
    \/ run[e].stage \in {"claimed", "ended"}
    \/ run[e].stage = "sent" /\ pipe[e] = "accepted"

LiveRuns(t) == {e \in Runs : Live(e) /\ run[e].task = t}

(* Two turns of one task never overlap, through failed saves, restarts and *)
(* lost inputs, unless somebody rewrites the task while it runs.           *)
OneRunAtATime ==
    /\ TypeOK
    /\ \A t \in Tasks : ~ disturbed[t] => Cardinality(LiveRuns(t)) <= 1

(* A version of a once task is finished at most once; only a crash before  *)
(* the callback runs it again.                                             *)
OnceIsOnce ==
    \A t \in Tasks : task[t].there /\ task[t].kind = "once" => doneRuns[t] <= 1

(* Without a failed save, a task marked as running has a run that has not  *)
(* finished it yet, through rewrites, crashes and restarts: only what the  *)
(* session does with the run's input can leave the mark behind.            *)
RunningHasRun ==
    up /\ faults = 0 =>
        \A t \in Tasks :
            task[t].running =>
                \E e \in Runs :
                    run[e].stage \in {"claimed", "sent", "ended"} /\ run[e].task = t

(* As long as the session loses no input, every version of a once task     *)
(* that is enabled comes to the end of a run of its own, be it a turn or   *)
(* the failure to hand it to the session, also when crashes interrupt runs *)
(* before; or it is written anew or deleted first.  Of a task that was     *)
(* rewritten while it ran it only says that the version is switched off:   *)
(* the end of the earlier version's run does that too (_finish_task), and  *)
(* then the later one is never run.                                        *)
OnceTaskRuns ==
    \A t \in Tasks, v \in 1 .. MaxWrites :
        version[t] = v /\ task[t].enabled
            ~> \/ version[t] # v \/ ~ task[t].there
               \/ doneRuns[t] > 0
               \/ disturbed[t] /\ ~ task[t].enabled
===============================================================================
