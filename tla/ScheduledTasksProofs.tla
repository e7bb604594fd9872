------------------------- MODULE ScheduledTasksProofs -------------------------
(***************************************************************************)
(* The runs of one task do not overlap unless it is rewritten while it     *)
(* runs, a once task is finished once, and nothing but the session leaves  *)
(* a running mark behind: for all tasks, clocks and bounds.                *)
(***************************************************************************)
EXTENDS ScheduledTasks, FiniteSetTheorems, TLAPS

Entries == [there : BOOLEAN, kind : {"once", "repeat"}, enabled : BOOLEAN,
            running : BOOLEAN, at : 0 .. MaxTime \cup {NoTime},
            next : 0 .. MaxTime + Period \cup {NoTime}]

UsedRuns == [stage : {"claimed", "sent", "ended", "over"}, task : Tasks,
             version : 1 .. MaxWrites]

RunRecords == [stage : {"unused"}] \cup UsedRuns

(* An enabled entry has been written and has a time to run at; a running   *)
(* one has been written.                                                   *)
EntryOK(entry) ==
    /\ entry.enabled => entry.next # NoTime /\ entry.there
    /\ entry.running => entry.there

(* A task file holds what was written, at times of the clock.              *)
Timed(entry) == entry.there => entry.at \in 0 .. MaxTime

TaskOK ==
    /\ task \in [Tasks -> Entries]
    /\ \A t \in Tasks : EntryOK(task[t]) /\ Timed(task[t])
    /\ \A t \in Tasks : version[t] = 0 => ~ task[t].there

RunOK ==
    /\ run \in [Runs -> RunRecords]
    /\ pipe \in [Runs -> {"unsent", "accepted", "refused", "done", "withdrawn"}]

CountOK ==
    /\ now \in 0 .. MaxTime
    /\ version \in [Tasks -> 0 .. MaxWrites]
    /\ doneRuns \in [Tasks -> Nat]
    /\ disturbed \in [Tasks -> BOOLEAN]
    /\ up \in BOOLEAN /\ crashes \in 0 .. MaxCrashes /\ faults \in 0 .. MaxFaults

TypeInv == TaskOK /\ RunOK /\ CountOK

LEMMA Bounds ==
    /\ Period \in Nat /\ MaxTime \in Nat /\ MaxWrites \in Nat /\ MaxCrashes \in Nat
    /\ MaxFaults \in Nat /\ NoTime \notin Int /\ Kinds \subseteq {"once", "repeat"}
BY BoundsAssumption

LEMMA TypeInvTypes == TypeInv => TypeOK
BY DEF TypeInv, TaskOK, RunOK, CountOK, TypeOK, Entries, RunRecords, UsedRuns, EntryOK

-------------------------------------------------------------------------------
(* Entries and the steps on them.                                          *)
LEMMA NotThereOK ==
    /\ NotThere \in Entries /\ EntryOK(NotThere) /\ Timed(NotThere)
    /\ ~ NotThere.there /\ ~ NotThere.running
BY Bounds DEF NotThere, Entries, EntryOK, Timed

LEMMA StartedOK ==
    ASSUME NEW entry \in Entries, EntryOK(entry), Timed(entry), NEW b \in BOOLEAN,
           b => entry.there
    PROVE  LET new == [entry EXCEPT !.running = b]
           IN  /\ new \in Entries /\ EntryOK(new) /\ Timed(new)
               /\ new.there = entry.there /\ new.enabled = entry.enabled
               /\ new.kind = entry.kind /\ new.running = b /\ new.next = entry.next
BY DEF Entries, EntryOK, Timed

LEMMA FinishedOK ==
    ASSUME NEW entry \in Entries, EntryOK(entry), Timed(entry), entry.there,
           now \in 0 .. MaxTime
    PROVE  /\ Finished(entry) \in Entries /\ EntryOK(Finished(entry)) /\ Timed(Finished(entry))
           /\ Finished(entry).there /\ ~ Finished(entry).running
           /\ Finished(entry).kind = entry.kind
           /\ (entry.kind = "once" => ~ Finished(entry).enabled)
<1>1. now + Period \in 0 .. MaxTime + Period /\ now + Period # NoTime
  BY Bounds
<1>2. CASE entry.kind = "once"
  BY <1>2, Bounds DEF Finished, Entries, EntryOK, Timed
<1>3. CASE entry.kind # "once"
  <2>1. NextRun(entry) = now + Period
    BY <1>3 DEF NextRun
  <2> QED BY <1>1, <1>3, <2>1, Bounds DEF Finished, Entries, EntryOK, Timed
<1> QED BY <1>2, <1>3

(* The entry a write makes.                                                *)
Written(kind, when, on) ==
    LET entry == [there |-> TRUE, kind |-> kind, enabled |-> on, running |-> FALSE,
                  at |-> when, next |-> NoTime]
    IN  [entry EXCEPT !.next = IF on THEN NextRun(entry) ELSE NoTime]

LEMMA WrittenOK ==
    ASSUME NEW kind \in Kinds, NEW when \in 0 .. MaxTime, NEW on \in BOOLEAN,
           now \in 0 .. MaxTime
    PROVE  LET new == Written(kind, when, on)
           IN  /\ new \in Entries /\ EntryOK(new) /\ Timed(new)
               /\ new.there /\ ~ new.running
<1>1. /\ now + Period \in 0 .. MaxTime + Period /\ now + Period # NoTime
      /\ when \in 0 .. MaxTime + Period /\ when # NoTime
  BY Bounds
<1> QED BY <1>1, Bounds DEF Written, NextRun, Entries, EntryOK, Timed

(* The runs a claim starts, one for each task that is due.                 *)
LEMMA ClaimRuns ==
    ASSUME TypeInv, Claim
    PROVE  /\ Numbering \in [Due -> Unused]
           /\ \A t, u \in Due : Numbering[t] = Numbering[u] => t = u
           /\ \A t \in Due :
                 run'[Numbering[t]]
                    = [stage |-> "claimed", task |-> t, version |-> version[t]]
           /\ \A e \in Runs : (\A t \in Due : Numbering[t] # e) => run'[e] = run[e]
           /\ DOMAIN run' = Runs
<1>1. Numbering \in Numberings
  BY DEF Claim, Numbering
<1>2. /\ Numbering \in [Due -> Unused]
      /\ \A t, u \in Due : Numbering[t] = Numbering[u] => t = u
  BY <1>1 DEF Numberings
<1>3. ASSUME NEW t \in Due
      PROVE run'[Numbering[t]] = [stage |-> "claimed", task |-> t, version |-> version[t]]
  <2>1. Numbering[t] \in Runs
    BY <1>2 DEF Unused
  <2>2. (CHOOSE u \in Due : Numbering[u] = Numbering[t]) = t
    BY <1>2
  <2> QED BY <2>1, <2>2 DEF Claim
<1>4. ASSUME NEW e \in Runs, \A t \in Due : Numbering[t] # e PROVE run'[e] = run[e]
  BY <1>4 DEF Claim
<1> QED BY <1>2, <1>3, <1>4 DEF Claim

LEMMA DueFacts ==
    TypeInv => \A t \in Due : /\ t \in Tasks /\ task[t].enabled /\ ~ task[t].running
                              /\ task[t].there /\ version[t] \in 1 .. MaxWrites
BY Bounds DEF TypeInv, TaskOK, CountOK, Due, Claimable, EntryOK

(* What the end of a run leaves of the tasks, the runs and the counts.     *)
LEMMA FinishTaskFacts ==
    ASSUME TypeInv, NEW e \in Runs, run[e].stage # "unused", FinishTask(e)
    PROVE  /\ run[e] \in UsedRuns /\ run[e].task \in Tasks
           /\ run' = [run EXCEPT ![e] = [run[e] EXCEPT !.stage = "over"]]
           /\ task' \in [Tasks -> Entries]
           /\ \A t \in Tasks : t # run[e].task => task'[t] = task[t] /\ doneRuns'[t] = doneRuns[t]
           /\ LET t == run[e].task
              IN  /\ ~ task[t].there => task'[t] = task[t]
                  /\ task[t].there => task'[t] = Finished(task[t])
                  /\ doneRuns'[t] = IF run[e].version = version[t] THEN doneRuns[t] + 1
                                    ELSE doneRuns[t]
           /\ doneRuns' \in [Tasks -> Nat]
<1>1. run[e] \in UsedRuns /\ run[e].task \in Tasks
  BY DEF TypeInv, RunOK, RunRecords, UsedRuns
<1>2. /\ task \in [Tasks -> Entries] /\ doneRuns \in [Tasks -> Nat] /\ now \in 0 .. MaxTime
      /\ \A t \in Tasks : EntryOK(task[t]) /\ Timed(task[t])
  BY DEF TypeInv, TaskOK, CountOK
<1>3. run' = [run EXCEPT ![e] = [run[e] EXCEPT !.stage = "over"]]
  BY DEF FinishTask
<1>4. task[run[e].task].there => Finished(task[run[e].task]) \in Entries
  BY <1>1, <1>2, FinishedOK
<1>5. /\ task' = IF task[run[e].task].there
                 THEN [task EXCEPT ![run[e].task] = Finished(task[run[e].task])] ELSE task
      /\ doneRuns' = IF run[e].version = version[run[e].task]
                     THEN [doneRuns EXCEPT ![run[e].task] = doneRuns[run[e].task] + 1]
                     ELSE doneRuns
  BY DEF FinishTask
<1> QED BY <1>1, <1>2, <1>3, <1>4, <1>5

-------------------------------------------------------------------------------
LEMMA TypeStep == TypeInv /\ [Next]_vars => TypeInv'
<1> SUFFICES ASSUME TypeInv, [Next]_vars PROVE TypeInv'
  OBVIOUS
<1>0. /\ task \in [Tasks -> Entries] /\ version \in [Tasks -> 0 .. MaxWrites]
      /\ doneRuns \in [Tasks -> Nat] /\ disturbed \in [Tasks -> BOOLEAN]
      /\ run \in [Runs -> RunRecords] /\ now \in 0 .. MaxTime
      /\ \A t \in Tasks : EntryOK(task[t]) /\ Timed(task[t])
      /\ \A t \in Tasks : version[t] = 0 => ~ task[t].there
      /\ TaskOK /\ RunOK /\ CountOK
  BY DEF TypeInv, TaskOK, RunOK, CountOK
<1>1. CASE Tick
  BY <1>0, <1>1, Bounds DEF Tick, TypeInv, TaskOK, RunOK, CountOK
<1>2. ASSUME NEW t \in Tasks, NEW kind \in Kinds, NEW when \in 0 .. MaxTime, NEW on \in BOOLEAN,
             Write(t, kind, when, on)
      PROVE  TypeInv'
  <2>1. task' = [task EXCEPT ![t] = Written(kind, when, on)]
    BY <1>2 DEF Write, Written
  <2>2. LET new == Written(kind, when, on)
        IN  new \in Entries /\ EntryOK(new) /\ Timed(new)
    BY <1>0, WrittenOK
  <2>3. version' \in [Tasks -> 0 .. MaxWrites] /\ version'[t] # 0
        /\ \A u \in Tasks : u # t => version'[u] = version[u]
    BY <1>0, <1>2, Bounds DEF Write
  <2>4. TaskOK'
    BY <1>0, <2>1, <2>2, <2>3 DEF TaskOK
  <2>5. task[t].running \in BOOLEAN
    BY <1>0 DEF Entries
  <2>6. doneRuns' \in [Tasks -> Nat] /\ disturbed' \in [Tasks -> BOOLEAN]
    BY <1>0, <1>2, <2>5 DEF Write
  <2> QED BY <1>0, <1>2, <2>3, <2>4, <2>6 DEF Write, TypeInv, RunOK, CountOK
<1>3. ASSUME NEW t \in Tasks, Delete(t) PROVE TypeInv'
  <2>1. TaskOK'
    BY <1>0, <1>3, NotThereOK DEF Delete, TaskOK
  <2> QED BY <1>0, <1>3, <2>1 DEF Delete, TypeInv, RunOK, CountOK
<1>4. ASSUME NEW S \in SUBSET Due, task' = Started(S), UNCHANGED version PROVE TaskOK'
  <2>1. ASSUME NEW t \in Tasks
        PROVE  /\ task'[t] \in Entries /\ EntryOK(task'[t]) /\ Timed(task'[t])
               /\ task'[t].there = task[t].there
    BY <1>0, <1>4, <2>1, StartedOK, DueFacts DEF Started
  <2> QED BY <1>0, <1>4, <2>1 DEF TaskOK, Started
<1>5. CASE Claim
  <2>1. TaskOK'
    BY <1>4, <1>5 DEF Claim
  <2>2. ASSUME NEW e \in Runs PROVE run'[e] \in RunRecords
    <3>1. CASE \E t \in Due : Numbering[t] = e
      <4>1. PICK t \in Due : Numbering[t] = e
        BY <3>1
      <4>2. run'[e] = [stage |-> "claimed", task |-> t, version |-> version[t]]
        BY <1>5, <4>1, ClaimRuns
      <4>3. t \in Tasks /\ version[t] \in 1 .. MaxWrites
        BY DueFacts
      <4> QED BY <4>2, <4>3 DEF RunRecords, UsedRuns
    <3>2. CASE \A t \in Due : Numbering[t] # e
      BY <1>0, <1>5, <3>2, ClaimRuns
    <3> QED BY <3>1, <3>2
  <2>3. run' \in [Runs -> RunRecords]
    <3>1. run' = [e \in Runs |-> run'[e]]
      BY <1>5 DEF Claim
    <3> QED BY <2>2, <3>1
  <2> QED BY <1>0, <1>5, <2>1, <2>3 DEF Claim, TypeInv, RunOK, CountOK
<1>6. CASE ClaimFails
  <2>1. TaskOK'
    BY <1>4, <1>6 DEF ClaimFails
  <2> QED BY <1>0, <1>6, <2>1, Bounds DEF ClaimFails, TypeInv, RunOK, CountOK
<1>7. ASSUME NEW e \in Runs, run[e].stage # "unused", FinishTask(e),
             UNCHANGED <<now, version, disturbed, pipe, up, crashes, faults>>
      PROVE  TypeInv'
  <2>1. [run[e] EXCEPT !.stage = "over"] \in RunRecords
    BY <1>7, FinishTaskFacts DEF RunRecords, UsedRuns
  <2>2. run' \in [Runs -> RunRecords] /\ doneRuns' \in [Tasks -> Nat]
    BY <1>0, <1>7, <2>1, FinishTaskFacts
  <2>3. ASSUME NEW t \in Tasks
        PROVE  /\ task'[t] \in Entries /\ EntryOK(task'[t]) /\ Timed(task'[t])
               /\ task'[t].there = task[t].there
    <3>1. task[t].there => /\ Finished(task[t]) \in Entries /\ EntryOK(Finished(task[t]))
                           /\ Timed(Finished(task[t])) /\ Finished(task[t]).there
      BY <1>0, FinishedOK
    <3>2. task'[t] = task[t] \/ (task[t].there /\ task'[t] = Finished(task[t]))
      BY <1>7, FinishTaskFacts
    <3>3. task[t].there \in BOOLEAN /\ task'[t].there \in BOOLEAN
      BY <1>0, <3>1, <3>2 DEF Entries
    <3> QED BY <1>0, <3>1, <3>2, <3>3
  <2>4. TaskOK'
    BY <1>0, <1>7, <2>3, FinishTaskFacts DEF TaskOK
  <2> QED BY <1>0, <1>7, <2>2, <2>4 DEF TypeInv, RunOK, CountOK
<1>8. ASSUME NEW e \in Runs, DispatchFails(e) \/ Callback(e) PROVE TypeInv'
  BY <1>7, <1>8 DEF DispatchFails, Callback
<1>9. ASSUME NEW e \in Runs, Dispatch(e) \/ EndTurn(e) PROVE TypeInv'
  <2>1. run[e] \in UsedRuns
    BY <1>0, <1>9 DEF Dispatch, EndTurn, RunRecords
  <2>2. \A s \in {"sent", "ended"} : [run[e] EXCEPT !.stage = s] \in RunRecords
    BY <2>1 DEF RunRecords, UsedRuns
  <2>3. run' \in [Runs -> RunRecords]
    BY <1>0, <1>9, <2>2 DEF Dispatch, EndTurn
  <2>4. pipe' \in [Runs -> {"unsent", "accepted", "refused", "done", "withdrawn"}]
    BY <1>0, <1>9 DEF Dispatch, EndTurn, RunOK, Session!Accept, Session!Refuse, Session!Complete,
                      Session!Change
  <2> QED BY <1>0, <1>9, <2>3, <2>4 DEF Dispatch, EndTurn, TypeInv, TaskOK, RunOK, CountOK
<1>10. ASSUME NEW e \in Runs, Withdraw(e) PROVE TypeInv'
  <2>1. pipe' \in [Runs -> {"unsent", "accepted", "refused", "done", "withdrawn"}]
    BY <1>0, <1>10 DEF Withdraw, RunOK, Session!Withdraw, Session!Change
  <2> QED BY <1>0, <1>10, <2>1 DEF Withdraw, TypeInv, TaskOK, RunOK, CountOK
<1>11. CASE Crash
  <2>1. ASSUME NEW e \in Runs
        PROVE  (IF run[e].stage = "unused" THEN run[e] ELSE [run[e] EXCEPT !.stage = "over"])
                 \in RunRecords
    <3>1. run[e] \in RunRecords
      BY <1>0
    <3> QED BY <3>1 DEF RunRecords, UsedRuns
  <2>2. run' \in [Runs -> RunRecords]
    BY <1>11, <2>1 DEF Crash
  <2>3. crashes' \in 0 .. MaxCrashes
    BY <1>0, <1>11, Bounds DEF Crash, CountOK
  <2> QED BY <1>0, <1>11, <2>2, <2>3 DEF Crash, TypeInv, TaskOK, RunOK, CountOK
<1>12. CASE Restart
  <2>1. ASSUME NEW t \in Tasks
        PROVE  /\ task'[t] \in Entries /\ EntryOK(task'[t]) /\ Timed(task'[t])
               /\ task'[t].there = task[t].there
    BY <1>0, <1>12, <2>1, StartedOK DEF Restart, Recovered
  <2>2. TaskOK'
    BY <1>0, <1>12, <2>1 DEF Restart, Recovered, TaskOK
  <2> QED BY <1>0, <1>12, <2>2 DEF Restart, TypeInv, RunOK, CountOK
<1>13. CASE UNCHANGED vars
  BY <1>0, <1>13 DEF vars, TypeInv, TaskOK, RunOK, CountOK
<1> QED
  BY <1>1, <1>2, <1>3, <1>5, <1>6, <1>8, <1>9, <1>10, <1>11, <1>12, <1>13 DEF Next, RunStep

LEMMA TypeInit == Init => TypeInv
<1>1. Init => TaskOK
  BY NotThereOK DEF Init, TaskOK
<1>2. Init => RunOK
  BY DEF Init, Session!PipeInit, RunOK, RunRecords
<1>3. Init => CountOK
  BY Bounds DEF Init, CountOK
<1> QED BY <1>1, <1>2, <1>3 DEF TypeInv

(* Clock, task files, runs and the session's pipe keep their types.        *)
THEOREM TypeCorrect == Spec => []TypeOK
BY TypeInit, TypeStep, TypeInvTypes, PTL DEF Spec

-------------------------------------------------------------------------------
(* Runs do not overlap.  Of a task nobody rewrote while it ran there is at *)
(* most one live run, and while there is one the task is marked running,   *)
(* or is gone and never written again; a stopped backend has none.         *)
Alone ==
    \A e, f \in Runs :
        Live(e) /\ Live(f) /\ run[e].task = run[f].task /\ ~ disturbed[run[e].task] => e = f

LiveMarked ==
    \A e \in Runs :
        Live(e) /\ ~ disturbed[run[e].task]
        => task[run[e].task].running \/ ~ task[run[e].task].there

DownDead == ~ up => \A e \in Runs : ~ Live(e)

(* A run belongs to a task that has been written.                          *)
Versioned ==
    \A e \in Runs : run[e].stage # "unused" => run[e].version <= version[run[e].task]

OverlapInv == TypeInv /\ Alone /\ LiveMarked /\ DownDead /\ Versioned

(* What every step needs to know of the runs, the tasks and the backend.   *)
LEMMA LiveFacts ==
    ASSUME TypeInv, NEW e \in Runs, Live(e)
    PROVE  run[e] \in UsedRuns /\ run[e].task \in Tasks /\ run[e].stage # "unused"
BY DEF TypeInv, RunOK, RunRecords, UsedRuns, Live

(* The steps in which a run goes on or ends: others stay as they are.      *)
LEMMA RunGoesOn ==
    ASSUME TypeInv, NEW e \in Runs, Dispatch(e) \/ EndTurn(e) \/ Withdraw(e)
    PROVE  /\ UNCHANGED <<task, version, doneRuns, disturbed, up>>
           /\ \A f \in Runs : /\ Live(f)' => Live(f)
                              /\ run[f].stage # "unused" => /\ run'[f].stage # "unused"
                                                            /\ run'[f].task = run[f].task
                                                            /\ run'[f].version = run[f].version
                              /\ run[f].stage = "unused" => run'[f].stage = "unused"
<1>0. /\ run \in [Runs -> RunRecords] /\ run[e] \in UsedRuns
      /\ pipe \in [Runs -> {"unsent", "accepted", "refused", "done", "withdrawn"}]
  BY DEF TypeInv, RunOK, RunRecords, Dispatch, EndTurn, Withdraw
<1>1. CASE Dispatch(e)
  <2>1. \A f \in Runs : f # e => run'[f] = run[f] /\ pipe'[f] = pipe[f]
    BY <1>0, <1>1 DEF Dispatch, Session!Accept, Session!Refuse, Session!Change
  <2>2. run'[e] = [run[e] EXCEPT !.stage = "sent"]
    BY <1>0, <1>1 DEF Dispatch
  <2>3. Live(e)
    BY <1>1 DEF Dispatch, Live
  <2> QED BY <1>0, <1>1, <2>1, <2>2, <2>3 DEF Dispatch, Live, UsedRuns
<1>2. CASE EndTurn(e)
  <2>1. \A f \in Runs : f # e => run'[f] = run[f] /\ pipe'[f] = pipe[f]
    BY <1>0, <1>2 DEF EndTurn, Session!Complete, Session!Change
  <2>2. run'[e] = [run[e] EXCEPT !.stage = "ended"]
    BY <1>0, <1>2 DEF EndTurn
  <2>3. Live(e)
    BY <1>0, <1>2 DEF EndTurn, Live, Session!Complete, Session!Change
  <2> QED BY <1>0, <1>2, <2>1, <2>2, <2>3 DEF EndTurn, Live, UsedRuns
<1>3. CASE Withdraw(e)
  <2>1. \A f \in Runs : run'[f] = run[f] /\ (pipe'[f] = pipe[f] \/ pipe'[f] = "withdrawn")
    BY <1>0, <1>3 DEF Withdraw, Session!Withdraw, Session!Change
  <2> QED BY <1>0, <1>3, <2>1 DEF Withdraw, Live
<1> QED BY <1>1, <1>2, <1>3

LEMMA RunEnds ==
    ASSUME TypeInv, NEW e \in Runs, DispatchFails(e) \/ Callback(e)
    PROVE  /\ Live(e) /\ FinishTask(e) /\ UNCHANGED <<version, disturbed, up, faults>>
           /\ ~ Live(e)' /\ run'[e].stage = "over"
           /\ run'[e].task = run[e].task /\ run'[e].version = run[e].version
           /\ \A f \in Runs : f # e => run'[f] = run[f] /\ Live(f)' = Live(f)
<1>1. Live(e) /\ FinishTask(e) /\ UNCHANGED <<version, disturbed, up, faults, pipe>>
  BY DEF DispatchFails, Callback, Live
<1>2. run[e] \in UsedRuns /\ run' = [run EXCEPT ![e] = [run[e] EXCEPT !.stage = "over"]]
  BY <1>1, LiveFacts, FinishTaskFacts
<1> QED BY <1>1, <1>2 DEF Live, UsedRuns, TypeInv, RunOK

(* A claim gives each task that is due one new run and marks it running.   *)
LEMMA ClaimFacts ==
    ASSUME TypeInv, Claim
    PROVE  /\ \A e \in Runs : (\E t \in Due : e = Numbering[t]) \/ (run'[e] = run[e])
           /\ \A t \in Due : /\ Numbering[t] \in Unused
                             /\ run'[Numbering[t]].task = t
                             /\ run'[Numbering[t]].stage = "claimed"
                             /\ run'[Numbering[t]].version = version[t]
           /\ \A t \in Tasks : /\ task'[t].there = task[t].there
                               /\ task'[t].kind = task[t].kind
                               /\ task'[t].enabled = task[t].enabled
                               /\ task'[t].running = (task[t].running \/ t \in Due)
           /\ UNCHANGED <<version, doneRuns, disturbed, pipe, up, faults>>
<1>1. \A t \in Tasks : /\ task'[t].there = task[t].there
                       /\ task'[t].kind = task[t].kind
                       /\ task'[t].enabled = task[t].enabled
                       /\ task'[t].running = (task[t].running \/ t \in Due)
  <2>1. /\ \A t \in Tasks : task[t] \in Entries /\ EntryOK(task[t]) /\ Timed(task[t])
        /\ \A t \in Tasks : task[t].running \in BOOLEAN
    BY DEF TypeInv, TaskOK, Entries
  <2>2. \A t \in Tasks : task'[t] = IF t \in Due THEN [task[t] EXCEPT !.running = TRUE] ELSE task[t]
    BY DEF Claim, Started
  <2>3. ASSUME NEW t \in Tasks
        PROVE  /\ task'[t].there = task[t].there
               /\ task'[t].kind = task[t].kind
               /\ task'[t].enabled = task[t].enabled
               /\ task'[t].running = (task[t].running \/ t \in Due)
    <3>1. CASE t \in Due
      <4>1. task'[t] = [task[t] EXCEPT !.running = TRUE]
        BY <2>2, <3>1
      <4>2. /\ task'[t].there = task[t].there /\ task'[t].kind = task[t].kind
            /\ task'[t].enabled = task[t].enabled /\ task'[t].running = TRUE
        BY <2>1, <4>1 DEF Entries
      <4> QED BY <3>1, <4>2
    <3>2. CASE t \notin Due
      BY <2>1, <2>2, <3>2
    <3> QED BY <3>1, <3>2
  <2> QED BY <2>3
<1>2. \A e \in Runs : (\E t \in Due : e = Numbering[t]) \/ (run'[e] = run[e])
  BY ClaimRuns
<1>3. \A t \in Due : /\ Numbering[t] \in Unused
                     /\ run'[Numbering[t]].task = t
                     /\ run'[Numbering[t]].stage = "claimed"
                     /\ run'[Numbering[t]].version = version[t]
  <2>1. Numbering \in [Due -> Unused]
    BY ClaimRuns
  <2>2. ASSUME NEW t \in Due
        PROVE  /\ run'[Numbering[t]].task = t /\ run'[Numbering[t]].stage = "claimed"
               /\ run'[Numbering[t]].version = version[t]
    <3>1. run'[Numbering[t]] = [stage |-> "claimed", task |-> t, version |-> version[t]]
      BY ClaimRuns
    <3> QED BY <3>1
  <2> QED BY <2>1, <2>2
<1> QED BY <1>1, <1>2, <1>3 DEF Claim

LEMMA OverlapStep == OverlapInv /\ [Next]_vars => OverlapInv'
<1> SUFFICES ASSUME OverlapInv, [Next]_vars PROVE (Alone /\ LiveMarked /\ DownDead /\ Versioned)'
  BY TypeStep DEF OverlapInv
<1>0. /\ TypeInv /\ Alone /\ LiveMarked /\ DownDead /\ Versioned
      /\ version \in [Tasks -> 0 .. MaxWrites] /\ disturbed \in [Tasks -> BOOLEAN]
      /\ task \in [Tasks -> Entries]
      /\ \A e \in Runs : Live(e) => run[e] \in UsedRuns /\ run[e].task \in Tasks
      /\ \A e \in Runs : run[e].stage # "unused" => run[e] \in UsedRuns
      /\ \A t \in Tasks : version[t] = 0 => ~ task[t].there
  BY LiveFacts DEF OverlapInv, TypeInv, CountOK, TaskOK, RunOK, RunRecords
<1>a. ASSUME UNCHANGED <<run, pipe>> PROVE \A e \in Runs : Live(e)' = Live(e)
  BY <1>a DEF Live
<1>1. ASSUME NEW t \in Tasks, NEW kind \in Kinds, NEW when \in 0 .. MaxTime, NEW on \in BOOLEAN,
             Write(t, kind, when, on)
      PROVE  (Alone /\ LiveMarked /\ DownDead /\ Versioned)'
  <2>1. /\ UNCHANGED <<run, pipe, up>> /\ up
        /\ \A u \in Tasks : u # t => task'[u] = task[u] /\ disturbed'[u] = disturbed[u]
        /\ disturbed'[t] = (disturbed[t] \/ task[t].running)
        /\ \A u \in Tasks : version'[u] >= version[u]
        /\ version[t] > 0 => task[t].there
    BY <1>0, <1>1, Bounds DEF Write
  <2>2. ASSUME NEW e \in Runs, Live(e), ~ disturbed'[run[e].task] PROVE run[e].task # t
    <3>1. version[run[e].task] > 0
      BY <1>0, <2>2, LiveFacts, Bounds DEF Versioned, UsedRuns
    <3> QED BY <1>0, <2>1, <2>2, <3>1 DEF LiveMarked
  <2>3. LiveMarked'
    BY <1>0, <1>a, <2>1, <2>2 DEF LiveMarked
  <2>4. Alone'
    BY <1>0, <1>a, <2>1, <2>2 DEF Alone
  <2>5. ASSUME NEW e \in Runs, run[e].stage # "unused"
        PROVE  run[e].version <= version'[run[e].task]
    <3>1. /\ run[e].version \in Nat /\ run[e].task \in Tasks
          /\ run[e].version <= version[run[e].task]
      BY <1>0, <2>5, Bounds DEF Versioned, UsedRuns
    <3>2. version[run[e].task] \in Nat /\ version'[run[e].task] \in Nat
      BY <1>0, <1>1, <3>1, Bounds, TypeStep DEF TypeInv, CountOK
    <3> QED BY <2>1, <3>1, <3>2
  <2>6. Versioned'
    BY <2>1, <2>5 DEF Versioned
  <2> QED BY <2>1, <2>3, <2>4, <2>6 DEF DownDead
<1>2. ASSUME NEW t \in Tasks, Delete(t) PROVE (Alone /\ LiveMarked /\ DownDead /\ Versioned)'
  <2>1. \A u \in Tasks : task'[u] = task[u] \/ ~ task'[u].there
    BY <1>0, <1>2, NotThereOK DEF Delete
  <2> QED BY <1>0, <1>2, <1>a, <2>1 DEF Delete, Alone, LiveMarked, DownDead, Versioned
<1>3. CASE Claim
  <2>0. /\ up /\ UNCHANGED <<version, disturbed, pipe, up>>
        /\ \A e \in Runs : (\E t \in Due : e = Numbering[t]) \/ (run'[e] = run[e])
        /\ \A t \in Tasks : /\ task'[t].there = task[t].there
                            /\ task'[t].running = (task[t].running \/ t \in Due)
    BY <1>0, <1>3, ClaimFacts DEF Claim
  <2>1. ASSUME NEW t \in Due
        PROVE  /\ Numbering[t] \in Runs /\ run[Numbering[t]].stage = "unused"
               /\ run'[Numbering[t]].task = t /\ run'[Numbering[t]].stage = "claimed"
               /\ run'[Numbering[t]].version = version[t]
    BY <1>0, <1>3, ClaimFacts DEF Unused
  <2>2. ASSUME NEW e \in Runs, Live(e)'
        PROVE  \/ \E t \in Due : e = Numbering[t]
               \/ Live(e) /\ run'[e] = run[e]
    BY <2>0, <2>2 DEF Live
  <2>3. ASSUME NEW e \in Runs, Live(e), ~ disturbed[run[e].task] PROVE run[e].task \notin Due
    BY <1>0, <2>3, DueFacts DEF LiveMarked
  <2>4. ASSUME NEW e \in Runs, NEW f \in Runs, Live(e)', Live(f)', run'[e].task = run'[f].task,
               ~ disturbed[run'[e].task]
        PROVE  e = f
    <3>1. CASE \E t \in Due : e = Numbering[t]
      BY <2>1, <2>2, <2>3, <2>4, <3>1
    <3>2. CASE Live(e) /\ run'[e] = run[e]
      BY <1>0, <2>1, <2>2, <2>3, <2>4, <3>2 DEF Alone
    <3> QED BY <2>2, <2>4, <3>1, <3>2
  <2>5. Alone'
    BY <2>0, <2>4 DEF Alone
  <2>6. ASSUME NEW e \in Runs, Live(e)', ~ disturbed[run'[e].task]
        PROVE  task'[run'[e].task].running \/ ~ task'[run'[e].task].there
    <3>1. CASE \E t \in Due : e = Numbering[t]
      <4>1. PICK t \in Due : e = Numbering[t]
        BY <3>1
      <4>2. run'[e].task = t /\ t \in Tasks
        BY <1>0, <2>1, <4>1, DueFacts
      <4> QED BY <2>0, <4>2
    <3>2. CASE Live(e) /\ run'[e] = run[e]
      <4>1. run[e].task \in Tasks /\ ~ disturbed[run[e].task]
        BY <1>0, <2>0, <2>6, <3>2, LiveFacts
      <4>2. task[run[e].task].running \/ ~ task[run[e].task].there
        BY <3>2, <4>1, <1>0 DEF LiveMarked
      <4> QED BY <2>0, <3>2, <4>1, <4>2
    <3> QED BY <2>2, <2>6, <3>1, <3>2
  <2>7. LiveMarked'
    BY <2>0, <2>6 DEF LiveMarked
  <2>8. ASSUME NEW e \in Runs, run'[e].stage # "unused"
        PROVE  run'[e].version <= version[run'[e].task]
    <3>1. CASE \E t \in Due : e = Numbering[t]
      BY <1>0, <2>1, <3>1, DueFacts, Bounds
    <3>2. CASE run'[e] = run[e]
      BY <1>0, <2>8, <3>2 DEF Versioned
    <3> QED BY <2>0, <3>1, <3>2
  <2>9. Versioned'
    BY <2>0, <2>8 DEF Versioned
  <2> QED BY <2>0, <2>5, <2>7, <2>9 DEF DownDead
<1>4. CASE ClaimFails
  <2>1. ASSUME NEW t \in Tasks
        PROVE  task'[t].there = task[t].there /\ (task[t].running => task'[t].running)
    BY <1>0, <1>4, <2>1, StartedOK, DueFacts
       DEF ClaimFails, Started, TypeInv, TaskOK
  <2> QED BY <1>0, <1>4, <1>a, <2>1 DEF ClaimFails, Alone, LiveMarked, DownDead, Versioned
<1>5. ASSUME NEW e \in Runs, DispatchFails(e) \/ Callback(e)
      PROVE  (Alone /\ LiveMarked /\ DownDead /\ Versioned)'
  <2>1. /\ Live(e) /\ UNCHANGED <<version, disturbed, up>> /\ ~ Live(e)'
        /\ run'[e].task = run[e].task /\ run'[e].version = run[e].version
        /\ \A f \in Runs : f # e => run'[f] = run[f] /\ Live(f)' = Live(f)
    BY <1>0, <1>5, RunEnds
  <2>2. \A t \in Tasks : t # run[e].task => task'[t] = task[t]
    BY <1>0, <1>5, RunEnds, FinishTaskFacts, LiveFacts
  <2>3. Alone'
    BY <1>0, <2>1 DEF Alone
  <2>4. LiveMarked'
    BY <1>0, <2>1, <2>2 DEF LiveMarked, Alone
  <2>5. Versioned'
    BY <1>0, <2>1, LiveFacts DEF Versioned
  <2> QED BY <1>0, <2>1, <2>3, <2>4, <2>5 DEF DownDead
<1>6. ASSUME NEW e \in Runs, Dispatch(e) \/ EndTurn(e) \/ Withdraw(e)
      PROVE  (Alone /\ LiveMarked /\ DownDead /\ Versioned)'
  <2>1. /\ UNCHANGED <<task, version, disturbed, up>>
        /\ \A f \in Runs : /\ Live(f)' => Live(f)
                           /\ run[f].stage # "unused" => /\ run'[f].task = run[f].task
                                                         /\ run'[f].version = run[f].version
                           /\ run[f].stage = "unused" => run'[f].stage = "unused"
    BY <1>0, <1>6, RunGoesOn
  <2>2. \A f \in Runs : Live(f) => run[f].stage # "unused"
    BY <1>0, LiveFacts
  <2> QED BY <1>0, <2>1, <2>2 DEF Alone, LiveMarked, DownDead, Versioned
<1>7. CASE Crash
  <2>1. \A e \in Runs : ~ Live(e)'
    BY <1>7 DEF Crash, Live
  <2>2. Versioned'
    <3>1. ASSUME NEW e \in Runs, run'[e].stage # "unused"
          PROVE  run[e].stage # "unused" /\ run'[e].version = run[e].version
                 /\ run'[e].task = run[e].task
      <4>1. run[e].stage # "unused" /\ run'[e] = [run[e] EXCEPT !.stage = "over"]
        BY <1>7, <3>1 DEF Crash
      <4> QED BY <1>0, <4>1 DEF UsedRuns
    <3> QED BY <1>0, <1>7, <3>1 DEF Crash, Versioned
  <2> QED BY <2>1, <2>2 DEF Alone, LiveMarked, DownDead
<1>8. CASE Restart
  BY <1>0, <1>8, <1>a DEF Restart, Alone, LiveMarked, DownDead, Versioned
<1>9. CASE UNCHANGED <<task, version, disturbed, run, pipe, up>>
  BY <1>0, <1>9, <1>a DEF Alone, LiveMarked, DownDead, Versioned
<1>10. Tick => UNCHANGED <<task, version, disturbed, run, pipe, up>>
  BY DEF Tick
<1> QED
  BY <1>1, <1>2, <1>3, <1>4, <1>5, <1>6, <1>7, <1>8, <1>9, <1>10 DEF Next, RunStep, vars

LEMMA OverlapInit == Init => OverlapInv
BY TypeInit DEF Init, OverlapInv, Alone, LiveMarked, DownDead, Versioned, Live

(* Two turns of one task never overlap unless somebody rewrites the task   *)
(* while it runs, through failed saves, restarts and lost inputs.          *)
THEOREM RunsDoNotOverlap == Spec => []OneRunAtATime
<1>1. OverlapInv => OneRunAtATime
  <2> SUFFICES ASSUME OverlapInv, NEW t \in Tasks, ~ disturbed[t]
               PROVE  Cardinality(LiveRuns(t)) <= 1
    BY TypeInvTypes DEF OverlapInv, OneRunAtATime
  <2>1. CASE LiveRuns(t) = {}
    BY <2>1, FS_EmptySet
  <2>2. CASE LiveRuns(t) # {}
    <3>1. PICK e \in Runs : LiveRuns(t) = {e}
      BY <2>2 DEF OverlapInv, Alone, LiveRuns
    <3>2. Cardinality(LiveRuns(t)) = 1
      BY <3>1, FS_Singleton
    <3> QED BY <3>2
  <2> QED BY <2>1, <2>2
<1>2. OverlapInv /\ [Next]_vars => OverlapInv'
  BY OverlapStep
<1> QED BY <1>1, <1>2, OverlapInit, PTL DEF Spec

-------------------------------------------------------------------------------
(* A once task is finished once.  A finished version is switched off; a    *)
(* live run of the present version is the only one and has nothing before  *)
(* it, and while there is one nobody claims the task.                      *)
Once(t) == task[t].there /\ task[t].kind = "once"

Present(e) == Live(e) /\ run[e].version = version[run[e].task]

OnceDone ==
    \A t \in Tasks : Once(t) => doneRuns[t] = 0 \/ (doneRuns[t] = 1 /\ ~ task[t].enabled)

OnceLive ==
    \A e \in Runs :
        Present(e) /\ Once(run[e].task)
        => /\ doneRuns[run[e].task] = 0
           /\ task[run[e].task].running \/ ~ task[run[e].task].enabled

OnceAlone ==
    \A e, f \in Runs :
        Present(e) /\ Present(f) /\ run[e].task = run[f].task /\ Once(run[e].task) => e = f

OnceInv == OverlapInv /\ OnceDone /\ OnceLive /\ OnceAlone

LEMMA OnceStep == OnceInv /\ [Next]_vars => OnceInv'
<1> SUFFICES ASSUME OnceInv, [Next]_vars PROVE (OnceDone /\ OnceLive /\ OnceAlone)'
  BY OverlapStep DEF OnceInv
<1>0. /\ TypeInv /\ OnceDone /\ OnceLive /\ OnceAlone /\ Versioned /\ DownDead
      /\ version \in [Tasks -> 0 .. MaxWrites] /\ doneRuns \in [Tasks -> Nat]
      /\ task \in [Tasks -> Entries]
      /\ \A e \in Runs : Live(e) => run[e] \in UsedRuns /\ run[e].task \in Tasks
  BY LiveFacts DEF OnceInv, OverlapInv, TypeInv, CountOK, TaskOK
<1>a. ASSUME UNCHANGED <<run, pipe>> PROVE \A e \in Runs : Live(e)' = Live(e)
  BY <1>a DEF Live
<1>1. ASSUME NEW t \in Tasks, NEW kind \in Kinds, NEW when \in 0 .. MaxTime, NEW on \in BOOLEAN,
             Write(t, kind, when, on)
      PROVE  (OnceDone /\ OnceLive /\ OnceAlone)'
  <2>1. /\ UNCHANGED <<run, pipe>>
        /\ \A u \in Tasks : u # t => /\ task'[u] = task[u] /\ doneRuns'[u] = doneRuns[u]
                                     /\ version'[u] = version[u]
        /\ doneRuns'[t] = 0 /\ version'[t] = version[t] + 1
    BY <1>0, <1>1 DEF Write
  <2>2. ASSUME NEW e \in Runs, Present(e)' PROVE run[e].task # t /\ Present(e)
    <3>1. Live(e) /\ run[e].version = version'[run[e].task] /\ run[e].task \in Tasks
      BY <1>0, <1>a, <2>1, <2>2 DEF Present
    <3>2. run[e].version \in Nat /\ version[run[e].task] \in Nat
          /\ run[e].version <= version[run[e].task]
      BY <1>0, <3>1, LiveFacts, Bounds DEF Versioned, UsedRuns
    <3> QED BY <2>1, <3>1, <3>2 DEF Present
  <2>3. \A u \in Tasks : u # t => Once(u)' = Once(u)
    BY <2>1 DEF Once
  <2>4. OnceDone'
    BY <1>0, <2>1, <2>3 DEF OnceDone
  <2>5. OnceLive'
    BY <1>0, <2>1, <2>2, <2>3 DEF OnceLive, Present
  <2>6. OnceAlone'
    BY <1>0, <2>1, <2>2, <2>3 DEF OnceAlone, Present
  <2> QED BY <2>4, <2>5, <2>6
<1>2. ASSUME NEW t \in Tasks, Delete(t) PROVE (OnceDone /\ OnceLive /\ OnceAlone)'
  <2>1. /\ UNCHANGED <<run, pipe, version, doneRuns>>
        /\ \A u \in Tasks : task'[u] = task[u] \/ ~ task'[u].there
    BY <1>0, <1>2, NotThereOK DEF Delete
  <2>2. \A e \in Runs : Present(e)' = Present(e)
    BY <1>a, <2>1 DEF Present
  <2>3. \A u \in Tasks : Once(u)' => task'[u] = task[u] /\ Once(u)
    BY <2>1 DEF Once
  <2>4. \A e \in Runs : Present(e) => run[e].task \in Tasks
    BY <1>0 DEF Present
  <2>5. OnceDone'
    BY <1>0, <2>1, <2>3 DEF OnceDone
  <2>6. OnceLive'
    BY <1>0, <2>1, <2>2, <2>3, <2>4 DEF OnceLive
  <2>7. OnceAlone'
    BY <1>0, <2>1, <2>2, <2>3, <2>4 DEF OnceAlone
  <2> QED BY <2>5, <2>6, <2>7
<1>3. CASE Claim
  <2>0. /\ UNCHANGED <<version, doneRuns, pipe>>
        /\ \A e \in Runs : (\E t \in Due : e = Numbering[t]) \/ (run'[e] = run[e])
        /\ \A t \in Tasks : /\ task'[t].there = task[t].there
                            /\ task'[t].kind = task[t].kind
                            /\ task'[t].enabled = task[t].enabled
                            /\ task'[t].running = (task[t].running \/ t \in Due)
    BY <1>0, <1>3, ClaimFacts
  <2>1. ASSUME NEW t \in Due
        PROVE  Numbering[t] \in Runs /\ run'[Numbering[t]].task = t
    BY <1>0, <1>3, ClaimFacts DEF Unused
  <2>2. ASSUME NEW e \in Runs, Present(e)'
        PROVE  \/ \E t \in Due : e = Numbering[t]
               \/ Present(e) /\ run'[e] = run[e]
    BY <2>0, <2>2 DEF Live, Present
  <2>3. \A u \in Tasks : Once(u)' = Once(u)
    BY <2>0 DEF Once
  <2>4. ASSUME NEW e \in Runs, Present(e), Once(run[e].task) PROVE run[e].task \notin Due
    BY <1>0, <2>4, DueFacts DEF OnceLive
  <2>5. \A t \in Due : t \in Tasks /\ task[t].enabled
    BY <1>0, DueFacts
  <2>6. \A e \in Runs : Present(e) => run[e].task \in Tasks
    BY <1>0 DEF Present
  <2>7. OnceDone'
    BY <1>0, <2>0, <2>3 DEF OnceDone
  <2>8. ASSUME NEW e \in Runs, Present(e)', Once(run[e].task)'
        PROVE  /\ doneRuns'[run'[e].task] = 0
               /\ task'[run'[e].task].running \/ ~ task'[run'[e].task].enabled
    <3>1. CASE \E t \in Due : e = Numbering[t]
      <4>1. PICK t \in Due : e = Numbering[t]
        BY <3>1
      <4>2. run'[e].task = t /\ t \in Tasks /\ task[t].enabled /\ Once(t)
        BY <2>0, <2>1, <2>5, <2>8, <4>1 DEF Once
      <4> QED BY <1>0, <2>0, <4>2 DEF OnceDone
    <3>2. CASE Present(e) /\ run'[e] = run[e]
      <4>1. run[e].task \in Tasks /\ Once(run[e].task)
        BY <2>0, <2>6, <2>8, <3>2 DEF Once
      <4>2. /\ doneRuns[run[e].task] = 0
            /\ task[run[e].task].running \/ ~ task[run[e].task].enabled
        BY <1>0, <3>2, <4>1 DEF OnceLive
      <4> QED BY <2>0, <3>2, <4>1, <4>2
    <3> QED BY <2>2, <2>8, <3>1, <3>2
  <2>9. OnceLive'
    BY <2>8 DEF OnceLive
  <2>10. ASSUME NEW e \in Runs, NEW f \in Runs, Present(e)', Present(f)',
                run'[e].task = run'[f].task, Once(run[e].task)'
         PROVE  e = f
    <3>1. CASE \E t \in Due : e = Numbering[t]
      <4>1. PICK t \in Due : e = Numbering[t]
        BY <3>1
      <4>2. run'[e].task = t /\ t \in Tasks /\ Once(t)
        BY <2>0, <2>1, <2>5, <2>10, <4>1 DEF Once
      <4> QED BY <2>1, <2>2, <2>4, <2>10, <4>1, <4>2
    <3>2. CASE Present(e) /\ run'[e] = run[e]
      <4>1. Once(run[e].task) /\ run[e].task \notin Due
        BY <2>0, <2>4, <2>6, <2>10, <3>2 DEF Once
      <4>2. Present(f) /\ run'[f] = run[f]
        BY <2>1, <2>2, <2>10, <3>2, <4>1
      <4> QED BY <1>0, <2>10, <3>2, <4>1, <4>2 DEF OnceAlone
    <3> QED BY <2>2, <2>10, <3>1, <3>2
  <2>11. OnceAlone'
    BY <2>10 DEF OnceAlone
  <2> QED BY <2>7, <2>9, <2>11
<1>b. ASSUME UNCHANGED <<version, doneRuns>>,
             \A u \in Tasks : /\ task'[u].there = task[u].there /\ task'[u].kind = task[u].kind
                              /\ task'[u].enabled = task[u].enabled
                              /\ task[u].running => task'[u].running,
             \A e \in Runs : Live(e)' => /\ Live(e) /\ run'[e].task = run[e].task
                                         /\ run'[e].version = run[e].version
      PROVE  (OnceDone /\ OnceLive /\ OnceAlone)'
  <2>1. \A e \in Runs : Present(e)' => /\ Present(e) /\ run'[e].task = run[e].task
                                       /\ run[e].task \in Tasks
    BY <1>0, <1>b DEF Present
  <2>2. \A u \in Tasks : Once(u)' = Once(u)
    BY <1>b DEF Once
  <2>3. OnceDone'
    BY <1>0, <1>b, <2>2 DEF OnceDone
  <2>4. OnceLive'
    BY <1>0, <1>b, <2>1, <2>2 DEF OnceLive
  <2>5. OnceAlone'
    BY <1>0, <2>1, <2>2 DEF OnceAlone
  <2> QED BY <2>3, <2>4, <2>5
<1>4. CASE ClaimFails
  <2>1. ASSUME NEW u \in Tasks
        PROVE  /\ task'[u].there = task[u].there /\ task'[u].kind = task[u].kind
               /\ task'[u].enabled = task[u].enabled
               /\ task[u].running => task'[u].running
    BY <1>0, <1>4, <2>1, StartedOK, DueFacts
       DEF ClaimFails, Started, TypeInv, TaskOK
  <2> QED BY <1>a, <1>b, <1>4, <2>1 DEF ClaimFails
<1>5. ASSUME NEW e \in Runs, DispatchFails(e) \/ Callback(e)
      PROVE  (OnceDone /\ OnceLive /\ OnceAlone)'
  <2> DEFINE t == run[e].task
  <2>1. /\ Live(e) /\ UNCHANGED version /\ ~ Live(e)' /\ t \in Tasks
        /\ \A f \in Runs : f # e => run'[f] = run[f] /\ Live(f)' = Live(f)
    BY <1>0, <1>5, RunEnds
  <2>2. /\ \A u \in Tasks : u # t => task'[u] = task[u] /\ doneRuns'[u] = doneRuns[u]
        /\ ~ task[t].there => task'[t] = task[t]
        /\ task[t].there => task'[t] = Finished(task[t])
        /\ doneRuns'[t] = IF run[e].version = version[t] THEN doneRuns[t] + 1 ELSE doneRuns[t]
    BY <1>0, <1>5, RunEnds, FinishTaskFacts, LiveFacts
  <2>3. task[t].there => /\ Finished(task[t]).there /\ Finished(task[t]).kind = task[t].kind
                         /\ task[t].kind = "once" => ~ Finished(task[t]).enabled
    BY <1>0, <2>1, FinishedOK DEF TypeInv, TaskOK, CountOK
  <2>4. \A u \in Tasks : Once(u)' => /\ Once(u)
                                     /\ u = t => ~ task'[u].enabled
                                     /\ u # t => task'[u] = task[u]
    BY <2>2, <2>3 DEF Once
  <2>5. ASSUME NEW f \in Runs, Present(f)'
        PROVE  /\ f # e /\ Present(f) /\ run'[f] = run[f] /\ run[f].task \in Tasks
               /\ Once(run[f].task) /\ run[f].task = t => run[e].version # version[t]
    <3>1. f # e /\ Present(f) /\ run'[f] = run[f] /\ run[f].task \in Tasks
      BY <1>0, <2>1, <2>5 DEF Present
    <3> QED BY <1>0, <2>1, <3>1 DEF OnceAlone, Present
  <2>6. OnceDone'
    <3>1. ASSUME NEW u \in Tasks, u = t, Once(u)'
          PROVE  doneRuns'[u] \in {0, 1} /\ ~ task'[u].enabled
      <4>0. Once(t) /\ ~ task'[t].enabled
        BY <2>4, <3>1
      <4>1. Once(t) /\ ~ task'[t].enabled /\ doneRuns[t] \in {0, 1}
        BY <1>0, <2>1, <4>0 DEF OnceDone
      <4>2. run[e].version = version[t] => doneRuns[t] = 0
        BY <1>0, <2>1, <4>1 DEF OnceLive, Present
      <4> QED BY <2>2, <3>1, <4>1, <4>2
    <3>2. ASSUME NEW u \in Tasks, u # t, Once(u)'
          PROVE  doneRuns'[u] = 0 \/ (doneRuns'[u] = 1 /\ ~ task'[u].enabled)
      BY <1>0, <2>2, <2>4, <3>2 DEF OnceDone
    <3> QED BY <3>1, <3>2 DEF OnceDone
  <2>7. OnceLive'
    <3>1. ASSUME NEW f \in Runs, Present(f)', Once(run[f].task)'
          PROVE  /\ doneRuns'[run'[f].task] = 0
                 /\ task'[run'[f].task].running \/ ~ task'[run'[f].task].enabled
      <4>1. /\ Present(f) /\ run'[f] = run[f] /\ run[f].task \in Tasks /\ Once(run[f].task)
            /\ run[f].task = t => run[e].version # version[t]
        BY <2>1, <2>4, <2>5, <3>1 DEF Once
      <4>2. /\ doneRuns[run[f].task] = 0
            /\ task[run[f].task].running \/ ~ task[run[f].task].enabled
        BY <1>0, <4>1 DEF OnceLive
      <4> QED BY <2>2, <2>4, <3>1, <4>1, <4>2
    <3> QED BY <3>1 DEF OnceLive
  <2>8. OnceAlone'
    BY <1>0, <2>4, <2>5 DEF OnceAlone
  <2> QED BY <2>6, <2>7, <2>8
<1>6. ASSUME NEW e \in Runs, Dispatch(e) \/ EndTurn(e) \/ Withdraw(e)
      PROVE  (OnceDone /\ OnceLive /\ OnceAlone)'
  <2>1. \A f \in Runs : Live(f) => run[f].stage # "unused"
    BY <1>0, LiveFacts
  <2> QED BY <1>0, <1>b, <1>6, <2>1, RunGoesOn
<1>7. CASE Crash
  <2>1. \A e \in Runs : ~ Live(e)'
    BY <1>7 DEF Crash, Live
  <2> QED BY <1>b, <1>7, <2>1 DEF Crash
<1>8. CASE Restart
  <2>1. /\ \A e \in Runs : ~ Live(e)'
        /\ UNCHANGED <<version, doneRuns>>
    BY <1>0, <1>8, <1>a DEF Restart, DownDead
  <2>2. ASSUME NEW u \in Tasks
        PROVE  /\ task'[u].there = task[u].there /\ task'[u].kind = task[u].kind
               /\ task'[u].enabled = task[u].enabled
    BY <1>0, <1>8, <2>2, StartedOK DEF Restart, Recovered, TypeInv, TaskOK
  <2>3. OnceDone'
    BY <1>0, <2>1, <2>2 DEF OnceDone, Once
  <2> QED BY <2>1, <2>3 DEF OnceLive, OnceAlone, Present
<1>9. CASE UNCHANGED <<task, version, doneRuns, run, pipe>>
  BY <1>a, <1>b, <1>9
<1>10. Tick => UNCHANGED <<task, version, doneRuns, run, pipe>>
  BY DEF Tick
<1> QED
  BY <1>1, <1>2, <1>3, <1>4, <1>5, <1>6, <1>7, <1>8, <1>9, <1>10 DEF Next, RunStep, vars

LEMMA OnceInit == Init => OnceInv
BY OverlapInit, NotThereOK
   DEF Init, OnceInv, OnceDone, OnceLive, OnceAlone, Present, Once, Live

(* A version of a once task is finished at most once.                      *)
THEOREM OnceTasksRunOnce == Spec => []OnceIsOnce
<1>1. OnceInv => OnceIsOnce
  BY DEF OnceInv, OnceDone, OnceIsOnce, Once
<1> QED BY <1>1, OnceInit, OnceStep, PTL DEF Spec

-------------------------------------------------------------------------------
LEMMA RunningStep == TypeInv /\ RunningHasRun /\ [Next]_vars => RunningHasRun'
<1> DEFINE At(t, e) == run[e].stage \in {"claimed", "sent", "ended"} /\ run[e].task = t
<1> SUFFICES ASSUME TypeInv, RunningHasRun, [Next]_vars, up', faults' = 0,
                    NEW t \in Tasks, task'[t].running
             PROVE  \E e \in Runs : At(t, e)'
  BY DEF RunningHasRun
<1>0. /\ task \in [Tasks -> Entries] /\ faults \in Nat /\ run \in [Runs -> RunRecords]
      /\ \A u \in Tasks : task[u] \in Entries /\ EntryOK(task[u]) /\ Timed(task[u])
  BY Bounds DEF TypeInv, TaskOK, RunOK, CountOK
<1>a. ASSUME up, faults = 0, task[t].running PROVE \E e \in Runs : At(t, e)
  BY <1>a DEF RunningHasRun
<1>b. ASSUME UNCHANGED <<run, up, faults>>, task'[t] = task[t] PROVE \E e \in Runs : At(t, e)'
  BY <1>a, <1>b
<1>1. ASSUME NEW u \in Tasks, NEW kind \in Kinds, NEW when \in 0 .. MaxTime, NEW on \in BOOLEAN,
             Write(u, kind, when, on)
      PROVE  \E e \in Runs : At(t, e)'
  <2>1. task' = [task EXCEPT ![u] = Written(kind, when, on)]
    BY <1>1 DEF Write, Written
  <2>2. ~ Written(kind, when, on).running
    BY WrittenOK DEF TypeInv, CountOK
  <2>3. task'[t] = task[t]
    BY <1>0, <2>1, <2>2
  <2> QED BY <1>1, <1>b, <2>3 DEF Write
<1>2. ASSUME NEW u \in Tasks, Delete(u) PROVE \E e \in Runs : At(t, e)'
  <2>1. task'[t] = task[t]
    BY <1>0, <1>2, NotThereOK DEF Delete
  <2> QED BY <1>2, <1>b, <2>1 DEF Delete
<1>3. CASE Claim
  <2>1. CASE t \in Due
    <3>1. /\ Numbering[t] \in Runs /\ run'[Numbering[t]].task = t
          /\ run'[Numbering[t]].stage = "claimed"
      BY <1>3, <2>1, ClaimFacts DEF Unused
    <3> QED BY <3>1
  <2>2. CASE t \notin Due
    <3>1. task[t].running /\ up /\ faults = 0
      BY <1>3, <2>2, ClaimFacts DEF Claim
    <3>2. PICK e \in Runs : At(t, e)
      BY <1>a, <3>1
    <3>3. e \notin Unused
      BY <3>2 DEF Unused
    <3>4. run'[e] = run[e]
      BY <1>3, <3>3, ClaimFacts
    <3> QED BY <3>2, <3>4
  <2> QED BY <2>1, <2>2
<1>4. ASSUME ClaimFails PROVE FALSE
  BY <1>0, <1>4 DEF ClaimFails
<1>5. ASSUME NEW e \in Runs, DispatchFails(e) \/ Callback(e) PROVE \E f \in Runs : At(t, f)'
  <2>1. /\ Live(e) /\ up /\ UNCHANGED faults
        /\ \A f \in Runs : f # e => run'[f] = run[f]
    BY <1>5, RunEnds DEF DispatchFails, Callback
  <2>2. t # run[e].task => task'[t] = task[t]
    BY <1>5, RunEnds, FinishTaskFacts, LiveFacts
  <2>3. t = run[e].task => ~ task[t].there /\ task'[t] = task[t]
    <3>1. task[t].there => ~ Finished(task[t]).running
      BY <1>0, FinishedOK DEF TypeInv, CountOK
    <3>2. /\ Live(e) /\ FinishTask(e)
      BY <1>5, RunEnds
    <3>3. LET u == run[e].task
          IN  /\ ~ task[u].there => task'[u] = task[u]
              /\ task[u].there => task'[u] = Finished(task[u])
      BY <3>2, FinishTaskFacts, LiveFacts
    <3>4. ASSUME t = run[e].task PROVE ~ task[t].there /\ task'[t] = task[t]
      BY <3>1, <3>3, <3>4
    <3> QED BY <3>4
  <2>4. t # run[e].task
    BY <1>0, <2>3 DEF EntryOK
  <2>5. PICK f \in Runs : At(t, f)
    BY <1>a, <2>1, <2>2, <2>4
  <2> QED BY <2>1, <2>4, <2>5
<1>6. ASSUME NEW e \in Runs, Dispatch(e) \/ EndTurn(e) PROVE \E f \in Runs : At(t, f)'
  <2>1. UNCHANGED <<task, up, faults>>
    BY <1>6 DEF Dispatch, EndTurn
  <2>2. run[e] \in UsedRuns
    BY <1>0, <1>6 DEF Dispatch, EndTurn, RunRecords
  <2>3. \E s \in {"sent", "ended"} : run' = [run EXCEPT ![e] = [run[e] EXCEPT !.stage = s]]
    BY <1>6 DEF Dispatch, EndTurn
  <2>4. \A f \in Runs : At(t, f) => At(t, f)'
    BY <1>0, <2>2, <2>3 DEF UsedRuns
  <2> QED BY <1>a, <2>1, <2>4
<1>7. ASSUME NEW e \in Runs, Withdraw(e) PROVE \E f \in Runs : At(t, f)'
  BY <1>7, <1>b DEF Withdraw
<1>8. ASSUME Crash PROVE FALSE
  BY <1>8 DEF Crash
<1>9. ASSUME Restart PROVE FALSE
  <2>1. task'[t] = [task[t] EXCEPT !.running = FALSE]
    BY <1>9 DEF Restart, Recovered
  <2> QED BY <1>0, <2>1, StartedOK
<1>10. CASE Tick \/ UNCHANGED vars
  BY <1>10, <1>b DEF Tick, vars
<1> QED
  BY <1>1, <1>2, <1>3, <1>4, <1>5, <1>6, <1>7, <1>8, <1>9, <1>10 DEF Next, RunStep

(* Without a failed save, a task marked as running has a run that has not  *)
(* finished it yet.                                                        *)
THEOREM RunningMarksAreTrue == Spec => []RunningHasRun
<1>1. Init => RunningHasRun
  BY NotThereOK DEF Init, RunningHasRun
<1> QED BY <1>1, RunningStep, TypeInit, TypeStep, PTL DEF Spec
===============================================================================
