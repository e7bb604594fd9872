---------------------------- MODULE JobRunnerProofs ----------------------------
(***************************************************************************)
(* Proofs about JobRunner for any set of jobs, any exit codes and any      *)
(* size of the result buffer, with restarts of the daemon: typing, no      *)
(* process behind a completed job, and cancels that reach the result.      *)
(***************************************************************************)
EXTENDS JobRunner, SequenceTheorems, TLAPS

(* The prune only drops results, and leaves room for one more.             *)
LEMMA PrunedIsPart ==
    ASSUME NEW ids \in Seq(Jobs), Len(ids) <= MaxFinished + 1
    PROVE  /\ Pruned(ids) \in Seq(Jobs)
           /\ Len(Pruned(ids)) <= MaxFinished
           /\ \A j : Contains(Pruned(ids), j) => Contains(ids, j)
<1> DEFINE n == Len(ids) - MaxFinished + 1
<1> USE BoundsAssumption
<1>1. CASE Len(ids) <= MaxFinished
  BY <1>1 DEF Pruned
<1>2. CASE Len(ids) > MaxFinished
  <2>1. n \in 1 .. Len(ids) + 1 /\ Len(ids) \in 0 .. Len(ids)
    BY <1>2
  <2>2. Pruned(ids) = SubSeq(ids, n, Len(ids))
    BY <1>2 DEF Pruned
  <2>3. /\ SubSeq(ids, n, Len(ids)) \in Seq(Jobs)
        /\ Len(SubSeq(ids, n, Len(ids))) = MaxFinished
        /\ \A i \in 1 .. MaxFinished : SubSeq(ids, n, Len(ids))[i] = ids[n + i - 1]
    BY <1>2, <2>1, SubSeqProperties
  <2>4. \A i \in 1 .. MaxFinished : n + i - 1 \in 1 .. Len(ids)
    BY <1>2
  <2>5. ASSUME NEW j, Contains(Pruned(ids), j) PROVE Contains(ids, j)
    <3> HIDE DEF n
    <3>1. PICK i \in 1 .. MaxFinished : Pruned(ids)[i] = j
      BY <2>2, <2>3, <2>5 DEF Contains
    <3>2. ids[n + i - 1] = j /\ n + i - 1 \in 1 .. Len(ids)
      BY <2>2, <2>3, <2>4, <3>1
    <3> QED BY <3>2 DEF Contains
  <2> QED BY <2>2, <2>3, <2>5
<1> QED BY <1>1, <1>2

LEMMA AppendedIsStored ==
    ASSUME NEW ids \in Seq(Jobs), NEW k \in Jobs, NEW j, Contains(Append(ids, k), j)
    PROVE  j = k \/ Contains(ids, j)
<1>1. PICK i \in 1 .. Len(ids) + 1 : Append(ids, k)[i] = j
  BY DEF Contains
<1> QED BY <1>1 DEF Contains

-------------------------------------------------------------------------------
Ended == {"exited", "rechecked", "unregistered", "storing"}

(* What holds of one job between any two steps: its result comes last, its *)
(* process is gone once the loop has seen its end, and an early cancel is  *)
(* in the table until the last look at it and in the thread's flag after.  *)
JobInv(j) ==
    /\ poller[j] = "none" => thread[j] = "none"
    /\ thread[j] # "over" => ~ Contains(finished, j)
    /\ thread[j] \in {"none", "starting"} => ~ early[j]
    /\ process[j] = "zombie" => exitCode[j] \in Codes
    /\ thread[j] \in Ended => process[j] = "gone" /\ seen[j] \in Codes
    /\ thread[j] \in {"loop", "exited"} /\ early[j] => requested[j]
    /\ thread[j] \in {"rechecked", "unregistered", "storing"} /\ early[j] => cancelled[j]
    /\ Contains(finished, j) /\ result[j].success =>
          process[j] = "gone" /\ (early[j] => result[j].cancelled)

JobsInv == TypeOK /\ \A j \in Jobs : JobInv(j)

LEMMA TerminateTyped ==
    ASSUME ChildrenTyped, NEW k \in Jobs, Terminate(k) PROVE ChildrenTyped'
<1>1. CASE process[k] = "alive"
  <2>1. PICK code \in Codes : Exits(k, code)
    BY <1>1 DEF Terminate
  <2> QED BY <2>1 DEF Exits, ChildrenTyped
<1>2. CASE process[k] # "alive"
  BY <1>2 DEF Terminate, childVars, ChildrenTyped
<1> QED BY <1>1, <1>2

LEMMA TypeStep == JobsInv /\ [Next]_vars => TypeOK'
<1> SUFFICES ASSUME JobsInv, [Next]_vars PROVE TypeOK'
  OBVIOUS
<1> USE BoundsAssumption
<1>0. TypeOK /\ \A j \in Jobs : JobInv(j)
  BY DEF JobsInv
<1>1. ASSUME NEW k \in Jobs, StartJob(k) PROVE TypeOK'
  BY <1>0, <1>1 DEF StartJob, TypeOK, ThreadsTyped, ChildrenTyped, CancelsTyped, BufferTyped,
    childVars, cancelVars, bufferVars
<1>2. ASSUME NEW k \in Jobs, Register(k) PROVE TypeOK'
  BY <1>0, <1>2 DEF Register, TypeOK, ThreadsTyped, ChildrenTyped, CancelsTyped, BufferTyped,
    cancelVars, bufferVars
<1>3. ASSUME NEW k \in Jobs, FailToStart(k) \/ FailInLoop(k) PROVE TypeOK'
  <2>1. CASE FailToStart(k)
    BY <1>0, <2>1 DEF FailToStart, TypeOK, ThreadsTyped, ChildrenTyped, CancelsTyped,
      BufferTyped, childVars, cancelVars, bufferVars
  <2>2. CASE FailInLoop(k)
    BY <1>0, <2>2 DEF FailInLoop, TypeOK, ThreadsTyped, ChildrenTyped, CancelsTyped,
      BufferTyped, childVars, cancelVars, bufferVars
  <2> QED BY <1>3, <2>1, <2>2
<1>4. ASSUME NEW k \in Jobs, SeeCancel(k) \/ TimeOut(k) PROVE TypeOK'
  <2>1. ChildrenTyped'
    BY <1>0, <1>4, TerminateTyped DEF SeeCancel, TimeOut, TypeOK
  <2>2. ThreadsTyped'
    BY <1>0, <1>4 DEF SeeCancel, TimeOut, TypeOK, ThreadsTyped
  <2> QED
    BY <1>0, <1>4, <2>1, <2>2 DEF SeeCancel, TimeOut, TypeOK, CancelsTyped, BufferTyped,
      cancelVars, bufferVars
<1>6. ASSUME NEW k \in Jobs, SeeExit(k) PROVE TypeOK'
  <2>1. Collected(k) \in Codes
    BY <1>0, <1>6 DEF Collected, JobInv
  <2> QED
    BY <1>0, <1>6, <2>1 DEF SeeExit, Waited, TypeOK, ThreadsTyped, ChildrenTyped, CancelsTyped,
      BufferTyped, cancelVars, bufferVars
<1>7. ASSUME NEW k \in Jobs, Recheck(k) PROVE TypeOK'
  BY <1>0, <1>7 DEF Recheck, CancelledInTheEnd, TypeOK, ThreadsTyped, ChildrenTyped, CancelsTyped,
    BufferTyped, childVars, cancelVars, bufferVars
<1>8. ASSUME NEW k \in Jobs, Unregister(k) PROVE TypeOK'
  BY <1>0, <1>8 DEF Unregister, TypeOK, ThreadsTyped, ChildrenTyped, CancelsTyped,
    BufferTyped, childVars, cancelVars, bufferVars
<1>9. ASSUME NEW k \in Jobs, Reap(k) PROVE TypeOK'
  BY <1>0, <1>9 DEF Reap, Waited, TypeOK, ThreadsTyped, ChildrenTyped, CancelsTyped,
    BufferTyped, cancelVars, bufferVars
<1>10. ASSUME NEW k \in Jobs, Store(k) PROVE TypeOK'
  <2>1. finished \in Seq(Jobs) /\ Len(finished) <= MaxFinished + 1
    BY <1>0 DEF TypeOK, BufferTyped
  <2>2. Pruned(finished) \in Seq(Jobs) /\ Len(Pruned(finished)) <= MaxFinished
    BY <2>1, PrunedIsPart
  <2>3. finished' \in Seq(Jobs) /\ Len(finished') <= MaxFinished + 1
    <3>1. finished' = Append(Pruned(finished), k)
      BY <1>10 DEF Store
    <3>2. /\ Append(Pruned(finished), k) \in Seq(Jobs)
          /\ Len(Append(Pruned(finished), k)) = Len(Pruned(finished)) + 1
      BY <2>2, AppendProperties
    <3> QED BY <2>2, <3>1, <3>2
  <2>4. result' \in [Jobs -> [success : BOOLEAN, code : Codes \cup {"none"}, cancelled : BOOLEAN]]
    BY <1>0, <1>10 DEF Store, NoResult, TypeOK, ThreadsTyped, BufferTyped
  <2>5. \A j \in Jobs : result'[j].success => result'[j].code \in Codes
    BY <1>0, <1>10 DEF Store, NoResult, JobInv, Ended, TypeOK, ThreadsTyped, BufferTyped
  <2> QED
    BY <1>0, <1>10, <2>3, <2>4, <2>5 DEF Store, TypeOK, ThreadsTyped, ChildrenTyped, CancelsTyped,
      BufferTyped, childVars, cancelVars
<1>11. ASSUME NEW k \in Jobs, ChildExits(k) PROVE TypeOK'
  <2>1. PICK code \in Codes : Exits(k, code)
    BY <1>11 DEF ChildExits
  <2> QED
    BY <1>0, <1>11, <2>1 DEF ChildExits, Exits, TypeOK, ThreadsTyped, ChildrenTyped, CancelsTyped,
      BufferTyped, threadVars, cancelVars, bufferVars
<1>12. ASSUME NEW k \in Jobs, RequestCancel(k) PROVE TypeOK'
  <2>1. CancelsTyped'
    BY <1>0, <1>12 DEF RequestCancel, TypeOK, CancelsTyped
  <2> QED
    BY <1>0, <1>12, <2>1 DEF RequestCancel, TypeOK, ThreadsTyped, ChildrenTyped,
      BufferTyped, threadVars, childVars, bufferVars
<1>13. ASSUME NEW k \in Jobs, FinishCancel(k) PROVE TypeOK'
  <2>1. ChildrenTyped'
    BY <1>0, <1>13, TerminateTyped DEF FinishCancel, TypeOK
  <2> QED
    BY <1>0, <1>13, <2>1 DEF FinishCancel, TypeOK, ThreadsTyped, CancelsTyped,
      BufferTyped, threadVars, bufferVars
<1>14. ASSUME NEW k \in Jobs, Poll(k) PROVE TypeOK'
  <2>1. finished \in Seq(Jobs) /\ Len(finished) <= MaxFinished + 1
    BY <1>0 DEF TypeOK, BufferTyped
  <2>2. Pruned(finished) \in Seq(Jobs) /\ Len(Pruned(finished)) <= MaxFinished
    BY <2>1, PrunedIsPart
  <2>3. finished' \in Seq(Jobs) /\ Len(finished') <= MaxFinished + 1
    BY <1>14, <2>2 DEF Poll
  <2>4. poller' \in [Jobs -> {"none", "polling", "got", "lost"}]
    BY <1>0, <1>14 DEF Poll, TypeOK
  <2> QED
    BY <1>0, <1>14, <2>3, <2>4 DEF Poll, TypeOK, ThreadsTyped, ChildrenTyped, CancelsTyped,
      BufferTyped, threadVars, childVars, cancelVars
<1>15. ASSUME NEW k \in Jobs, GiveUp(k) PROVE TypeOK'
  BY <1>0, <1>15 DEF GiveUp, TypeOK, ThreadsTyped, ChildrenTyped, CancelsTyped, BufferTyped,
    threadVars, childVars, cancelVars, bufferVars
<1>16. CASE RestartDaemon
  <2>1. ThreadsTyped'
    <3>1. \A j \in Jobs : thread'[j] \in {"none", "over"}
      BY <1>16 DEF RestartDaemon
    <3> QED BY <1>0, <1>16, <3>1 DEF RestartDaemon, TypeOK, ThreadsTyped
  <2>2. restarts' \in 0 .. MaxRestarts
    BY <1>0, <1>16 DEF RestartDaemon, TypeOK
  <2>3. CancelsTyped'
    BY <1>0, <1>16 DEF RestartDaemon, TypeOK, CancelsTyped
  <2>4. finished' \in Seq(Jobs) /\ Len(finished') = 0
    BY <1>16 DEF RestartDaemon
  <2>5. BufferTyped'
    BY <1>0, <1>16, <2>4 DEF RestartDaemon, TypeOK, BufferTyped
  <2> QED
    BY <1>0, <1>16, <2>1, <2>2, <2>3, <2>5 DEF RestartDaemon, TypeOK, ChildrenTyped, childVars
<1>17. CASE UNCHANGED vars
  BY <1>0, <1>17 DEF vars, TypeOK, ThreadsTyped, ChildrenTyped, CancelsTyped, BufferTyped,
    threadVars, childVars, cancelVars, bufferVars
<1> QED BY <1>1, <1>2, <1>3, <1>4, <1>6, <1>7, <1>8, <1>9, <1>10, <1>11, <1>12, <1>13,
           <1>14, <1>15, <1>16, <1>17 DEF Next, ThreadStep

(* No process is brought back, and none ends without an exit code.         *)
LEMMA TerminateOnlyEnds ==
    ASSUME ChildrenTyped, NEW k \in Jobs, Terminate(k), NEW j \in Jobs
    PROVE  /\ process[j] = "gone" => process'[j] = "gone"
           /\ process'[j] = "zombie" => process[j] = "zombie" \/ exitCode'[j] \in Codes
           /\ process[j] = "zombie" => exitCode'[j] = exitCode[j]
<1>1. CASE process[k] = "alive"
  <2>1. PICK code \in Codes : Exits(k, code)
    BY <1>1 DEF Terminate
  <2> QED BY <1>1, <2>1 DEF Exits, ChildrenTyped
<1>2. CASE process[k] # "alive"
  BY <1>2 DEF Terminate, childVars, ChildrenTyped
<1> QED BY <1>1, <1>2

LEMMA JobStep == JobsInv /\ [Next]_vars => \A j \in Jobs : JobInv(j)'
<1> SUFFICES ASSUME JobsInv, [Next]_vars, NEW j \in Jobs PROVE JobInv(j)'
  OBVIOUS
<1>0. TypeOK /\ JobInv(j) /\ \A i \in Jobs : JobInv(i)
  BY DEF JobsInv
<1>1. ASSUME NEW k \in Jobs, StartJob(k) PROVE JobInv(j)'
  BY <1>0, <1>1 DEF StartJob, JobInv, Ended,
    TypeOK, ThreadsTyped, ChildrenTyped, CancelsTyped,
    childVars, cancelVars, bufferVars
<1>2. ASSUME NEW k \in Jobs, Register(k) PROVE JobInv(j)'
  BY <1>0, <1>2 DEF Register, JobInv, Ended,
    TypeOK, ThreadsTyped, ChildrenTyped, CancelsTyped,
    cancelVars, bufferVars
<1>3. ASSUME NEW k \in Jobs, FailToStart(k) \/ FailInLoop(k) PROVE JobInv(j)'
  <2>1. CASE FailToStart(k)
    BY <1>0, <2>1 DEF FailToStart, JobInv, Ended, TypeOK, ThreadsTyped, childVars, cancelVars,
      bufferVars
  <2>2. CASE FailInLoop(k)
    BY <1>0, <2>2 DEF FailInLoop, JobInv, Ended, TypeOK, ThreadsTyped, childVars, cancelVars,
      bufferVars
  <2> QED BY <1>3, <2>1, <2>2
<1>4. ASSUME NEW k \in Jobs, SeeCancel(k) \/ TimeOut(k) PROVE JobInv(j)'
  <2>1. /\ process[j] = "gone" => process'[j] = "gone"
        /\ process'[j] = "zombie" => exitCode'[j] \in Codes
    BY <1>0, <1>4, TerminateOnlyEnds DEF SeeCancel, TimeOut, TypeOK, JobInv
  <2> QED
    BY <1>0, <1>4, <2>1 DEF SeeCancel, TimeOut, JobInv, Ended, TypeOK, ThreadsTyped, cancelVars,
      bufferVars
<1>5. ASSUME NEW k \in Jobs, SeeExit(k) PROVE JobInv(j)'
  <2>1. Collected(k) \in Codes
    BY <1>0, <1>5, BoundsAssumption DEF Collected, JobInv
  <2> QED
    BY <1>0, <1>5, <2>1 DEF SeeExit, ChildEnded, Waited, JobInv, Ended, TypeOK, ThreadsTyped,
      ChildrenTyped, cancelVars, bufferVars
<1>6. ASSUME NEW k \in Jobs, Recheck(k) PROVE JobInv(j)'
  BY <1>0, <1>6 DEF Recheck, CancelledInTheEnd, JobInv, Ended,
    TypeOK, ThreadsTyped, ChildrenTyped, CancelsTyped,
    childVars, cancelVars, bufferVars
<1>7. ASSUME NEW k \in Jobs, Unregister(k) PROVE JobInv(j)'
  BY <1>0, <1>7 DEF Unregister, JobInv, Ended,
    TypeOK, ThreadsTyped, ChildrenTyped, CancelsTyped,
    childVars, cancelVars, bufferVars
<1>8. ASSUME NEW k \in Jobs, Reap(k) PROVE JobInv(j)'
  BY <1>0, <1>8 DEF Reap, Waited, JobInv, Ended,
    TypeOK, ThreadsTyped, ChildrenTyped, CancelsTyped,
    cancelVars, bufferVars
<1>9. ASSUME NEW k \in Jobs, Store(k) PROVE JobInv(j)'
  <2>1. finished \in Seq(Jobs) /\ Len(finished) <= MaxFinished + 1
    BY <1>0 DEF TypeOK, BufferTyped
  <2>2. finished' = Append(Pruned(finished), k)
    BY <1>9 DEF Store
  <2>3. Contains(finished', j) => j = k \/ Contains(finished, j)
    BY <2>1, <2>2, PrunedIsPart, AppendedIsStored
  <2>4. CASE j = k
    BY <1>0, <1>9, <2>4 DEF Store, NoResult, JobInv, Ended, TypeOK, ThreadsTyped, BufferTyped,
      childVars, cancelVars
  <2>5. CASE j # k
    BY <1>0, <1>9, <2>3, <2>5 DEF Store, JobInv, Ended, TypeOK, ThreadsTyped, BufferTyped,
      childVars, cancelVars
  <2> QED BY <2>4, <2>5
<1>10. ASSUME NEW k \in Jobs, ChildExits(k) PROVE JobInv(j)'
  <2>1. PICK code \in Codes : Exits(k, code)
    BY <1>10 DEF ChildExits
  <2> QED
    BY <1>0, <1>10, <2>1 DEF ChildExits, Exits, JobInv, Ended, TypeOK, ChildrenTyped, threadVars,
      cancelVars, bufferVars
<1>11. ASSUME NEW k \in Jobs, RequestCancel(k) PROVE JobInv(j)'
  BY <1>0, <1>11 DEF RequestCancel, Active, JobInv, Ended, TypeOK, CancelsTyped, threadVars,
    childVars, bufferVars
<1>12. ASSUME NEW k \in Jobs, FinishCancel(k) PROVE JobInv(j)'
  <2>1. /\ process[j] = "gone" => process'[j] = "gone"
        /\ process'[j] = "zombie" => exitCode'[j] \in Codes
    BY <1>0, <1>12, TerminateOnlyEnds DEF FinishCancel, TypeOK, JobInv
  <2> QED
    BY <1>0, <1>12, <2>1 DEF FinishCancel, JobInv, Ended, TypeOK, threadVars, bufferVars
<1>13. ASSUME NEW k \in Jobs, Poll(k) PROVE JobInv(j)'
  <2>1. finished \in Seq(Jobs) /\ Len(finished) <= MaxFinished + 1
    BY <1>0 DEF TypeOK, BufferTyped
  <2>2. finished' = Pruned(finished)
    BY <1>13 DEF Poll
  <2>3. Contains(finished', j) => Contains(finished, j)
    BY <2>1, <2>2, PrunedIsPart
  <2>4. poller'[j] = "none" => poller[j] = "none"
    BY <1>0, <1>13 DEF Poll, TypeOK
  <2> QED
    BY <1>0, <1>13, <2>3, <2>4 DEF Poll, JobInv, Ended, threadVars, childVars, cancelVars
<1>14. ASSUME NEW k \in Jobs, GiveUp(k) PROVE JobInv(j)'
  BY <1>0, <1>14 DEF GiveUp, JobInv, Ended, TypeOK, threadVars, childVars, cancelVars, bufferVars
<1>15. CASE RestartDaemon
  <2>1. ~ Contains(finished', j)
    BY <1>15 DEF RestartDaemon, Contains
  <2> QED
    BY <1>0, <1>15, <2>1 DEF RestartDaemon, JobInv, Ended, TypeOK, ThreadsTyped, childVars
<1>16. CASE UNCHANGED vars
  BY <1>0, <1>16 DEF vars, JobInv, Ended, threadVars, childVars, cancelVars, bufferVars
<1> QED BY <1>1, <1>2, <1>3, <1>4, <1>5, <1>6, <1>7, <1>8, <1>9, <1>10, <1>11, <1>12, <1>13,
           <1>14, <1>15, <1>16 DEF Next, ThreadStep

LEMMA InitJobs == Init => JobsInv
<1> SUFFICES ASSUME Init PROVE JobsInv
  OBVIOUS
<1>1. finished \in Seq(Jobs) /\ Len(finished) = 0 /\ \A j \in Jobs : ~ Contains(finished, j)
  BY DEF Init, Contains
<1>2. TypeOK
  BY <1>1, BoundsAssumption DEF Init, NoResult, TypeOK, ThreadsTyped, ChildrenTyped, CancelsTyped,
    BufferTyped
<1>3. \A j \in Jobs : JobInv(j)
  BY <1>1 DEF Init, JobInv, Ended
<1> QED BY <1>2, <1>3 DEF JobsInv

LEMMA JobsInvHolds == Spec => []JobsInv
<1>1. JobsInv /\ [Next]_vars => JobsInv'
  BY TypeStep, JobStep DEF JobsInv
<1> QED BY <1>1, InitJobs, PTL DEF Spec

-------------------------------------------------------------------------------
(* The runner's tables, its threads' flags and its buffer keep their       *)
(* types; the buffer exceeds its bound by at most the result just stored.  *)
THEOREM TypeCorrect == Spec => []TypeOK
<1>1. JobsInv => TypeOK
  BY DEF JobsInv
<1> QED BY <1>1, JobsInvHolds, PTL

(* A job the daemon reports as run to its end has no process left, for any *)
(* number of jobs, whoever else reaps children, and across restarts.       *)
THEOREM ProcessesAreGone == Spec => []FinishedIsDead
<1>1. JobsInv => FinishedIsDead
  BY DEF JobsInv, JobInv, FinishedIsDead
<1> QED BY <1>1, JobsInvHolds, PTL

(* A cancel acknowledged before the last look at the flag is in the result *)
(* of the job, in whatever order the two threads take their steps.         *)
THEOREM EarlyCancelsCount == Spec => []EarlyCancelIsReported
<1>1. JobsInv => EarlyCancelIsReported
  BY DEF JobsInv, JobInv, EarlyCancelIsReported
<1> QED BY <1>1, JobsInvHolds, PTL
===============================================================================
