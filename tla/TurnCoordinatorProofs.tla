------------------------- MODULE TurnCoordinatorProofs -------------------------
(***************************************************************************)
(* Proofs about TurnCoordinator for any sets of callers and keys and any   *)
(* number of resets: typing, mutual exclusion, leases without a running    *)
(* turn, lost wake-ups, stale releases, and the steps of TurnLock.         *)
(***************************************************************************)
EXTENDS TurnCoordinator, SequenceTheorems, FiniteSetTheorems, TLAPS

(* What a cancelled waiter leaves behind is still a line of callers.       *)
LEMMA CancelledType ==
    ASSUME NEW q \in Seq(Callers), NEW c
    PROVE  Cancelled(q, c) \in Seq(Callers)
<1>1. CASE ~ Contains(q, c)
  BY <1>1 DEF Cancelled
<1>2. CASE Contains(q, c)
  <2> DEFINE i == CHOOSE j \in DOMAIN q : q[j] = c
  <2>1. i \in 1 .. Len(q)
    BY <1>2 DEF Contains
  <2> HIDE DEF i
  <2>2. SubSeq(q, 1, i - 1) \in Seq(Callers) /\ SubSeq(q, i + 1, Len(q)) \in Seq(Callers)
    BY <2>1, SubSeqProperties
  <2>3. RemoveAt(q, i) \in Seq(Callers)
    BY <2>2 DEF RemoveAt
  <2> QED BY <1>2, <2>3 DEF Cancelled, i
<1> QED BY <1>1, <1>2

LEMMA NotifiedType ==
    ASSUME NEW p \in [Callers -> {"idle", "turn"} \cup Waiting]
    PROVE  /\ Notified(p) \in [Callers -> {"idle", "turn"} \cup Waiting]
           /\ \A c \in Callers : Notified(p)[c] # "asleep"
           /\ \A c \in Callers : Notified(p)[c] = "turn" <=> p[c] = "turn"
           /\ \A c \in Callers : Notified(p)[c] = "idle" <=> p[c] = "idle"
BY DEF Notified, Waiting

-------------------------------------------------------------------------------
(* Typing of the coordinator's table, lines and callers.                   *)
LEMMA TypeStep == TypeOK /\ [Next]_vars => TypeOK'
<1> SUFFICES ASSUME TypeOK, [Next]_vars PROVE TypeOK'
  OBVIOUS
<1> USE DEF TypeOK
<1>1. ASSUME NEW c \in Callers, NEW k \in Keys, Enqueue(c, k) PROVE TypeOK'
  BY <1>1, NotifiedType DEF Enqueue, Enqueued, Waiting
<1>2. ASSUME NEW c \in Callers, Claim(c) PROVE TypeOK'
  <2>1. key[c] \in Keys /\ queue[key[c]] \in Seq(Callers) /\ queue[key[c]] # <<>>
    BY <1>2 DEF Claim, CanClaim
  <2>2. Tail(queue[key[c]]) \in Seq(Callers)
    BY <2>1
  <2> QED BY <1>2, <2>1, <2>2 DEF Claim
<1>3. ASSUME NEW c \in Callers, Sleep(c) PROVE TypeOK'
  BY <1>3 DEF Sleep, Waiting
<1>4. ASSUME NEW c \in Callers, GiveUp(c) PROVE TypeOK'
  <2>1. key[c] \in Keys /\ Cancelled(queue[key[c]], c) \in Seq(Callers)
    BY <1>4, CancelledType DEF GiveUp
  <2>2. queue' \in [Keys -> Seq(Callers)]
    BY <1>4, <2>1 DEF GiveUp
  <2>3. pc' \in [Callers -> {"idle", "turn"} \cup Waiting]
    BY <1>4, NotifiedType DEF GiveUp
  <2>4. \A d \in Callers : pc'[d] # "idle" => key'[d] \in Keys
    BY <1>4, NotifiedType DEF GiveUp
  <2> QED BY <1>4, <2>2, <2>3, <2>4 DEF GiveUp
<1>5. ASSUME NEW c \in Callers, Release(c) PROVE TypeOK'
  <2>1. active' \in [Keys -> Callers \cup {NoToken}]
    BY <1>5 DEF Release, Freed
  <2>2. pc' \in [Callers -> {"idle", "turn"} \cup Waiting]
    BY <1>5, NotifiedType DEF Release
  <2>3. \A d \in Callers : pc'[d] # "idle" => key'[d] \in Keys
    BY <1>5, NotifiedType DEF Release
  <2> QED BY <1>5, <2>1, <2>2, <2>3 DEF Release
<1>6. CASE Reset
  BY <1>6, NotifiedType, BoundAssumption DEF Reset
<1>7. CASE UNCHANGED vars
  BY <1>7 DEF vars
<1> QED BY <1>1, <1>2, <1>3, <1>4, <1>5, <1>6, <1>7 DEF Next

(* The coordinator's variables keep their types, whatever the callers do.  *)
THEOREM TypeCorrect == Spec => []TypeOK
<1>1. Init => TypeOK
  BY BoundAssumption DEF Init, TypeOK, Waiting
<1> QED BY <1>1, TypeStep, PTL DEF Spec

-------------------------------------------------------------------------------
(* The inductive core: a lease names a running turn of its key and, until  *)
(* the first reset, every running turn is named by the lease of its key.   *)
RunningIsNamed ==
    resets = 0 => \A c \in Callers : pc[c] = "turn" => active[key[c]] = c

LeaseInv == TypeOK /\ LeaseHasRunningTurn /\ RunningIsNamed

LEMMA LeaseStep == LeaseInv /\ [Next]_vars => LeaseInv'
<1> SUFFICES ASSUME LeaseInv, [Next]_vars PROVE (LeaseHasRunningTurn /\ RunningIsNamed)'
  BY TypeStep DEF LeaseInv
<1> USE DEF LeaseInv, TypeOK, LeaseHasRunningTurn, RunningIsNamed
<1>1. ASSUME NEW c \in Callers, NEW k \in Keys, Enqueue(c, k)
      PROVE (LeaseHasRunningTurn /\ RunningIsNamed)'
  BY <1>1, NotifiedType, CallersAssumption DEF Enqueue
<1>2. ASSUME NEW c \in Callers, Claim(c) PROVE (LeaseHasRunningTurn /\ RunningIsNamed)'
  BY <1>2, CallersAssumption DEF Claim, CanClaim
<1>3. ASSUME NEW c \in Callers, Sleep(c) PROVE (LeaseHasRunningTurn /\ RunningIsNamed)'
  BY <1>3, CallersAssumption DEF Sleep
<1>4. ASSUME NEW c \in Callers, GiveUp(c) PROVE (LeaseHasRunningTurn /\ RunningIsNamed)'
  BY <1>4, NotifiedType, CallersAssumption DEF GiveUp
<1>5. ASSUME NEW c \in Callers, Release(c) PROVE (LeaseHasRunningTurn /\ RunningIsNamed)'
  BY <1>5, NotifiedType, CallersAssumption DEF Release, Freed
<1>6. CASE Reset
  BY <1>6 DEF Reset
<1>7. CASE UNCHANGED vars
  BY <1>7 DEF vars
<1> QED BY <1>1, <1>2, <1>3, <1>4, <1>5, <1>6, <1>7 DEF Next

LEMMA LeaseInvariant == Spec => []LeaseInv
<1>1. Init => LeaseInv
  BY BoundAssumption DEF Init, LeaseInv, TypeOK, Waiting, LeaseHasRunningTurn, RunningIsNamed
<1> QED BY <1>1, LeaseStep, PTL DEF Spec

(* Two turns of one handler never run at the same time, until a reset.     *)
THEOREM MutualExclusionHolds == Spec => []MutualExclusion
<1>1. LeaseInv => MutualExclusion
  BY DEF LeaseInv, RunningIsNamed, MutualExclusion
<1> QED BY <1>1, LeaseInvariant, PTL

(* No key stays locked by a caller whose turn is over, resets included.    *)
THEOREM LeaseHasRunningTurnHolds == Spec => []LeaseHasRunningTurn
<1>1. LeaseInv => LeaseHasRunningTurn
  BY DEF LeaseInv
<1> QED BY <1>1, LeaseInvariant, PTL

-------------------------------------------------------------------------------
(* A blocking waiter that could claim its turn is never asleep.            *)
LEMMA WakeupStep == TypeOK /\ NoLostWakeup /\ [Next]_vars => NoLostWakeup'
<1> SUFFICES ASSUME TypeOK, NoLostWakeup, [Next]_vars PROVE NoLostWakeup'
  OBVIOUS
<1> USE DEF TypeOK, NoLostWakeup
<1>1. ASSUME NEW c \in Callers, NEW k \in Keys, Enqueue(c, k) PROVE NoLostWakeup'
  BY <1>1, NotifiedType DEF Enqueue
<1>2. ASSUME NEW c \in Callers, Claim(c) PROVE NoLostWakeup'
  BY <1>2, CallersAssumption DEF Claim, CanClaim
<1>3. ASSUME NEW c \in Callers, Sleep(c) PROVE NoLostWakeup'
  BY <1>3 DEF Sleep, CanClaim
<1>4. ASSUME NEW c \in Callers, GiveUp(c) PROVE NoLostWakeup'
  BY <1>4, NotifiedType DEF GiveUp
<1>5. ASSUME NEW c \in Callers, Release(c) PROVE NoLostWakeup'
  BY <1>5, NotifiedType DEF Release
<1>6. CASE Reset
  BY <1>6, NotifiedType DEF Reset
<1>7. CASE UNCHANGED vars
  BY <1>7 DEF vars, CanClaim
<1> QED BY <1>1, <1>2, <1>3, <1>4, <1>5, <1>6, <1>7 DEF Next

THEOREM NoLostWakeupHolds == Spec => []NoLostWakeup
<1>1. Init => NoLostWakeup
  BY DEF Init, NoLostWakeup
<1> QED BY <1>1, WakeupStep, TypeCorrect, PTL DEF Spec

-------------------------------------------------------------------------------
(* A lease is lost only to its holder's own release or to a reset.         *)
THEOREM OnlyHolderReleasesHolds == Spec => OnlyHolderReleases
<1> DEFINE Kept == \A k \in Keys :
                      active[k] # NoToken /\ active'[k] # active[k]
                      => pc'[active[k]] = "idle" \/ resets' # resets
<1>1. LeaseInv /\ [Next]_vars => [Kept]_vars
  <2> SUFFICES ASSUME LeaseInv, Next, NEW k \in Keys,
                      active[k] # NoToken, active'[k] # active[k]
               PROVE  pc'[active[k]] = "idle" \/ resets' # resets
    OBVIOUS
  <2> USE DEF LeaseInv, TypeOK
  <2>1. ASSUME NEW c \in Callers, Claim(c) PROVE FALSE
    BY <2>1 DEF Claim, CanClaim
  <2>2. ASSUME NEW c \in Callers, Release(c) PROVE pc'[active[k]] = "idle"
    BY <2>2, NotifiedType DEF Release, Freed
  <2>3. CASE Reset
    BY <2>3 DEF Reset
  <2> QED BY <2>1, <2>2, <2>3 DEF Next, Enqueue, Sleep, GiveUp
<1> QED BY <1>1, LeaseInvariant, PTL DEF Spec, OnlyHolderReleases

-------------------------------------------------------------------------------
(* Lines, and a line with the caller of the running turn in front of it.   *)

LEMMA RemovedAt ==
    ASSUME NEW S, NEW q \in Seq(S), NEW i \in 1 .. Len(q)
    PROVE  /\ RemoveAt(q, i) \in Seq(S) /\ Len(RemoveAt(q, i)) = Len(q) - 1
           /\ \A j \in 1 .. Len(q) - 1 : RemoveAt(q, i)[j] = IF j < i THEN q[j] ELSE q[j + 1]
<1> DEFINE a == SubSeq(q, 1, i - 1)
           b == SubSeq(q, i + 1, Len(q))
<1>0. Len(q) \in Nat /\ i \in Nat /\ i <= Len(q) /\ 1 <= i /\ \A j \in 1 .. Len(q) : q[j] \in S
  BY LenProperties, ElementOfSeq
<1>1. a \in Seq(S) /\ Len(a) = i - 1 /\ \A j \in 1 .. i - 1 : a[j] = q[j]
  <2>1. /\ a \in Seq(S) /\ Len(a) = IF 1 <= i - 1 THEN i - 1 - 1 + 1 ELSE 0
        /\ \A j \in 1 .. i - 1 - 1 + 1 : a[j] = q[1 + j - 1]
    BY <1>0, SubSeqProperties
  <2> HIDE DEF a
  <2> QED BY <1>0, <2>1
<1>2. b \in Seq(S) /\ Len(b) = Len(q) - i /\ \A j \in 1 .. Len(q) - i : b[j] = q[i + j]
  <2>1. /\ b \in Seq(S) /\ Len(b) = IF i + 1 <= Len(q) THEN Len(q) - (i + 1) + 1 ELSE 0
        /\ \A j \in 1 .. Len(q) - (i + 1) + 1 : b[j] = q[(i + 1) + j - 1]
    BY <1>0, SubSeqProperties
  <2> HIDE DEF b
  <2>2. \A j \in 1 .. Len(q) - i : j \in 1 .. Len(q) - (i + 1) + 1 /\ (i + 1) + j - 1 = i + j
    BY <1>0
  <2> QED BY <1>0, <2>1, <2>2
<1>3. RemoveAt(q, i) = a \o b
  BY DEF RemoveAt
<1> HIDE DEF a, b
<1>4. /\ a \o b \in Seq(S) /\ Len(a \o b) = Len(q) - 1
      /\ \A j \in 1 .. Len(q) - 1 : (a \o b)[j] = IF j <= i - 1 THEN a[j] ELSE b[j - (i - 1)]
  BY <1>0, <1>1, <1>2, ConcatProperties
<1>5. ASSUME NEW j \in 1 .. Len(q) - 1
      PROVE  (a \o b)[j] = IF j < i THEN q[j] ELSE q[j + 1]
  <2>1. CASE j < i
    <3>1. j \in 1 .. i - 1 /\ j <= i - 1
      BY <1>0, <2>1
    <3> QED BY <1>1, <1>4, <2>1, <3>1
  <2>2. CASE ~ (j < i)
    <3>1. /\ j - (i - 1) \in 1 .. Len(q) - i /\ ~ (j <= i - 1) /\ i + (j - (i - 1)) = j + 1
      BY <1>0, <2>2
    <3> QED BY <1>2, <1>4, <2>2, <3>1
  <2> QED BY <2>1, <2>2
<1> QED BY <1>3, <1>4, <1>5

LEMMA InFront ==
    ASSUME NEW S, NEW q \in Seq(S), NEW c \in S
    PROVE  LET line == <<c>> \o q
           IN  /\ line \in Seq(S) /\ Len(line) = Len(q) + 1 /\ line # <<>> /\ line[1] = c
               /\ \A i \in 1 .. Len(q) : line[i + 1] = q[i]
               /\ Head(line) = c /\ Tail(line) = q
<1> DEFINE one == <<c>>
           line == one \o q
<1>0. one \in Seq(S) /\ Len(one) = 1 /\ one[1] = c /\ Len(q) \in Nat
  BY LenProperties
<1> HIDE DEF one
<1>1. /\ line \in Seq(S) /\ Len(line) = 1 + Len(q)
      /\ \A i \in 1 .. 1 + Len(q) : line[i] = IF i <= 1 THEN one[i] ELSE q[i - 1]
  <2>1. /\ line \in Seq(S) /\ Len(line) = Len(one) + Len(q)
        /\ \A i \in 1 .. Len(one) + Len(q) :
              line[i] = IF i <= Len(one) THEN one[i] ELSE q[i - Len(one)]
    BY <1>0, ConcatProperties
  <2> HIDE DEF line
  <2> QED BY <1>0, <2>1
<1> HIDE DEF line
<1>2. /\ 1 \in 1 .. 1 + Len(q) /\ 1 <= 1
      /\ \A i \in 1 .. Len(q) : i + 1 \in 1 .. 1 + Len(q) /\ ~ (i + 1 <= 1) /\ (i + 1) - 1 = i
  BY <1>0
<1>3. line[1] = c /\ \A i \in 1 .. Len(q) : line[i + 1] = q[i]
  BY <1>0, <1>1, <1>2
<1>4. line # <<>> /\ Head(line) = c /\ Len(line) = Len(q) + 1
  BY <1>0, <1>1, <1>3
<1>5. Tail(line) = q
  <2>1. /\ Tail(line) \in Seq(S) /\ Len(Tail(line)) = Len(line) - 1
        /\ \A i \in 1 .. Len(Tail(line)) : Tail(line)[i] = line[i + 1]
    BY <1>1, <1>4, HeadTailProperties
  <2>2. Len(Tail(line)) = Len(q)
    BY <1>0, <1>1, <2>1
  <2> QED BY <1>3, <2>1, <2>2, SeqEqual
<1> QED BY <1>1, <1>3, <1>4, <1>5 DEF line, one

(* What is done at the end of the line, or to one who waits in it, does    *)
(* not touch the caller in front.                                          *)
LEMMA BehindFront ==
    ASSUME NEW S, NEW q \in Seq(S), NEW c \in S
    PROVE  /\ \A d \in S : <<c>> \o Append(q, d) = Append(<<c>> \o q, d)
           /\ \A i \in 1 .. Len(q) : <<c>> \o RemoveAt(q, i) = RemoveAt(<<c>> \o q, i + 1)
           /\ q # <<>> => <<Head(q)>> \o Tail(q) = q
<1>1. ASSUME NEW d \in S PROVE <<c>> \o Append(q, d) = Append(<<c>> \o q, d)
  <2>1. <<c>> \in Seq(S) /\ <<d>> \in Seq(S) /\ <<c>> \o q \in Seq(S)
    BY InFront
  <2>2. Append(q, d) = q \o <<d>> /\ Append(<<c>> \o q, d) = (<<c>> \o q) \o <<d>>
    BY <2>1, AppendIsConcat
  <2>3. (<<c>> \o q) \o <<d>> = <<c>> \o (q \o <<d>>)
    BY <2>1, ConcatAssociative
  <2> QED BY <2>2, <2>3
<1>2. ASSUME NEW i \in 1 .. Len(q) PROVE <<c>> \o RemoveAt(q, i) = RemoveAt(<<c>> \o q, i + 1)
  <2> DEFINE line == <<c>> \o q
             less == RemoveAt(q, i)
             u == <<c>> \o less
             v == RemoveAt(line, i + 1)
  <2>0. Len(q) \in Nat /\ i \in Nat /\ 1 <= i /\ i <= Len(q)
    BY LenProperties
  <2>1. /\ line \in Seq(S) /\ Len(line) = Len(q) + 1 /\ line[1] = c
        /\ \A j \in 1 .. Len(q) : line[j + 1] = q[j]
    BY InFront
  <2> HIDE DEF line
  <2>2. /\ less \in Seq(S) /\ Len(less) = Len(q) - 1
        /\ \A j \in 1 .. Len(q) - 1 : less[j] = IF j < i THEN q[j] ELSE q[j + 1]
    BY RemovedAt
  <2> HIDE DEF less
  <2>3. /\ u \in Seq(S) /\ Len(u) = Len(less) + 1 /\ u[1] = c
        /\ \A j \in 1 .. Len(less) : u[j + 1] = less[j]
    BY <2>2, InFront
  <2>4. i + 1 \in 1 .. Len(line)
    BY <2>0, <2>1
  <2>5. /\ v \in Seq(S) /\ Len(v) = Len(line) - 1
        /\ \A j \in 1 .. Len(line) - 1 : v[j] = IF j < i + 1 THEN line[j] ELSE line[j + 1]
    BY <2>1, <2>4, RemovedAt
  <2> HIDE DEF u, v
  <2>6. Len(u) = Len(q) /\ Len(v) = Len(q)
    BY <2>0, <2>1, <2>2, <2>3, <2>5
  <2>7. ASSUME NEW j \in 1 .. Len(q) PROVE u[j] = v[j]
    <3>1. CASE j = 1
      <4>1. j \in 1 .. Len(line) - 1 /\ j < i + 1
        BY <2>0, <2>1, <3>1
      <4> QED BY <2>1, <2>3, <2>5, <3>1, <4>1
    <3>2. CASE j # 1
      <4>1. PICK k \in 1 .. Len(q) - 1 : j = k + 1
        <5>1. j - 1 \in 1 .. Len(q) - 1 /\ j = (j - 1) + 1
          BY <2>0, <3>2
        <5> QED BY <5>1
      <4>2. u[j] = IF k < i THEN q[k] ELSE q[k + 1]
        BY <2>2, <2>3, <4>1
      <4>3. /\ j \in 1 .. Len(line) - 1 /\ (j < i + 1 <=> k < i)
            /\ k \in 1 .. Len(q) /\ k + 1 \in 1 .. Len(q)
        BY <2>0, <2>1, <4>1
      <4>4. v[j] = IF k < i THEN line[k + 1] ELSE line[(k + 1) + 1]
        BY <2>5, <4>1, <4>3
      <4> QED BY <2>1, <4>2, <4>3, <4>4
    <3> QED BY <3>1, <3>2
  <2>8. u = v
    BY <2>3, <2>5, <2>6, <2>7, SeqEqual
  <2> QED BY <2>8 DEF u, v, line, less
<1>3. ASSUME q # <<>> PROVE <<Head(q)>> \o Tail(q) = q
  <2> DEFINE h == Head(q)
             t == Tail(q)
             u == <<h>> \o t
  <2>1. /\ h \in S /\ t \in Seq(S) /\ Len(t) = Len(q) - 1 /\ h = q[1]
        /\ \A i \in 1 .. Len(t) : t[i] = q[i + 1]
    BY <1>3, HeadTailProperties
  <2> HIDE DEF h, t
  <2>2. /\ u \in Seq(S) /\ Len(u) = Len(t) + 1 /\ u[1] = h /\ \A i \in 1 .. Len(t) : u[i + 1] = t[i]
    BY <2>1, InFront
  <2> HIDE DEF u
  <2>3. Len(q) \in Nat /\ Len(u) = Len(q)
    BY <2>1, <2>2, LenProperties
  <2>4. ASSUME NEW j \in 1 .. Len(q) PROVE u[j] = q[j]
    <3>1. CASE j = 1
      BY <2>1, <2>2, <3>1
    <3>2. CASE j # 1
      <4>1. j - 1 \in 1 .. Len(t) /\ j = (j - 1) + 1
        BY <2>1, <2>3, <3>2
      <4>2. PICK i \in 1 .. Len(t) : j = i + 1
        BY <4>1
      <4> QED BY <2>1, <2>2, <4>2
    <3> QED BY <3>1, <3>2
  <2>5. u = q
    BY <2>2, <2>3, <2>4, SeqEqual
  <2> QED BY <2>5 DEF u, h, t
<1> QED BY <1>1, <1>2, <1>3

(* The callers in turn as a list: none or one.                             *)
LEMMA ListOfOne ==
    ASSUME NEW c
    PROVE  SetToSeq({}) = <<>> /\ SetToSeq({c}) = <<c>>
<1>1. SetToSeq({}) = <<>>
  <2>1. Cardinality({}) = 0
    BY FS_EmptySet
  <2>2. \A f : f \in [1 .. 0 -> {}] <=> f = <<>>
    <3>1. \A i : i \notin 1 .. 0
      OBVIOUS
    <3>2. ASSUME NEW f \in [1 .. 0 -> {}] PROVE f = <<>>
      <4>1. f = [i \in 1 .. 0 |-> c]
        BY <3>1
      <4>2. <<>> = [i \in 1 .. 0 |-> c]
        BY <3>1
      <4> QED BY <4>1, <4>2
    <3>3. <<>> \in [1 .. 0 -> {}]
      BY <3>1
    <3> QED BY <3>2, <3>3
  <2>3. IsInjective(<<>>)
    BY DEF IsInjective
  <2> QED BY <2>1, <2>2, <2>3 DEF SetToSeq
<1>2. SetToSeq({c}) = <<c>>
  <2>1. Cardinality({c}) = 1
    BY FS_Singleton
  <2>2. \A f : f \in [1 .. 1 -> {c}] <=> f = <<c>>
    <3>1. \A i : i \in 1 .. 1 <=> i = 1
      OBVIOUS
    <3>2. ASSUME NEW f \in [1 .. 1 -> {c}] PROVE f = <<c>>
      <4>1. f = [i \in 1 .. 1 |-> c]
        BY <3>1
      <4>2. <<c>> = [i \in 1 .. 1 |-> c]
        BY <3>1
      <4> QED BY <4>1, <4>2
    <3>3. <<c>> \in [1 .. 1 -> {c}]
      BY <3>1
    <3> QED BY <3>2, <3>3
  <2>3. IsInjective(<<c>>)
    BY DEF IsInjective
  <2> QED BY <2>1, <2>2, <2>3 DEF SetToSeq
<1> QED BY <1>1, <1>2

-------------------------------------------------------------------------------
(* Who stands in a line waits for its key, and stands there once.          *)
InLine ==
    \A k \in Keys : \A i \in 1 .. Len(queue[k]) :
        pc[queue[k][i]] \in Waiting /\ key[queue[k][i]] = k

OncePerLine ==
    \A k \in Keys : \A i, j \in 1 .. Len(queue[k]) : queue[k][i] = queue[k][j] => i = j

LineInv == LeaseInv /\ InLine /\ OncePerLine

LEMMA LineStep == LineInv /\ [Next]_vars => (InLine /\ OncePerLine)'
<1> SUFFICES ASSUME LineInv, [Next]_vars PROVE InLine' /\ OncePerLine'
  OBVIOUS
<1> USE DEF LineInv, LeaseInv
<1>0. /\ queue \in [Keys -> Seq(Callers)] /\ pc \in [Callers -> {"idle", "turn"} \cup Waiting]
      /\ key \in [Callers -> Keys \cup {NoKey}]
      /\ \A c \in Callers : pc[c] # "idle" => key[c] \in Keys
      /\ \A k \in Keys : /\ Len(queue[k]) \in Nat
                          /\ \A i \in 1 .. Len(queue[k]) : queue[k][i] \in Callers
  BY LenProperties, ElementOfSeq DEF TypeOK
<1>n. \A c \in Callers : /\ Notified(pc)[c] \in Waiting <=> pc[c] \in Waiting
                         /\ Notified(pc)[c] \in {"idle", "turn"} \cup Waiting
  BY <1>0 DEF Notified, Waiting
(* Only one line changes at a time.                                        *)
<1>k. ASSUME NEW k \in Keys, \A j \in Keys \ {k} : queue'[j] = queue[j],
             \A i, j \in 1 .. Len(queue'[k]) : queue'[k][i] = queue'[k][j] => i = j
      PROVE  OncePerLine'
  <2> SUFFICES ASSUME NEW l \in Keys, NEW i \in 1 .. Len(queue'[l]), NEW j \in 1 .. Len(queue'[l]),
                      queue'[l][i] = queue'[l][j]
               PROVE  i = j
    BY DEF OncePerLine
  <2>1. CASE l = k
    BY <1>k, <2>1
  <2>2. CASE l # k
    BY <1>k, <2>2 DEF OncePerLine
  <2> QED BY <2>1, <2>2
<1>1. ASSUME NEW c \in Callers, NEW k \in Keys, Enqueue(c, k) PROVE InLine' /\ OncePerLine'
  <2>1. /\ queue'[k] = Append(queue[k], c) /\ \A j \in Keys \ {k} : queue'[j] = queue[j]
        /\ key'[c] = k /\ pc'[c] \in Waiting
        /\ \A d \in Callers \ {c} : key'[d] = key[d] /\ pc'[d] = Notified(pc)[d]
    BY <1>0, <1>1 DEF Enqueue, Enqueued, Waiting, Notified
  <2>2. \A j \in Keys : \A i \in 1 .. Len(queue[j]) : queue[j][i] # c
    BY <1>0, <1>1 DEF Enqueue, InLine, Waiting
  <2>3. /\ Len(queue'[k]) = Len(queue[k]) + 1 /\ queue'[k][Len(queue[k]) + 1] = c
        /\ \A i \in 1 .. Len(queue[k]) : queue'[k][i] = queue[k][i]
        /\ \A i \in 1 .. Len(queue'[k]) : i \in 1 .. Len(queue[k]) \/ i = Len(queue[k]) + 1
    BY <1>0, <2>1, AppendProperties
  <2>4. ASSUME NEW j \in Keys, NEW i \in 1 .. Len(queue[j])
        PROVE  pc'[queue[j][i]] \in Waiting /\ key'[queue[j][i]] = j
    BY <1>0, <1>n, <2>1, <2>2, <2>4 DEF InLine
  <2>5. InLine'
    BY <2>1, <2>3, <2>4 DEF InLine
  <2>6. OncePerLine'
    <3>1. \A i, j \in 1 .. Len(queue'[k]) : queue'[k][i] = queue'[k][j] => i = j
      BY <2>2, <2>3 DEF OncePerLine
    <3> QED BY <1>k, <2>1, <3>1
  <2> QED BY <2>5, <2>6
<1>2. ASSUME NEW c \in Callers, Claim(c) PROVE InLine' /\ OncePerLine'
  <2> DEFINE k == key[c]
  <2>1. /\ k \in Keys /\ queue[k] # <<>> /\ queue[k][1] = c
        /\ queue'[k] = Tail(queue[k]) /\ \A j \in Keys \ {k} : queue'[j] = queue[j]
        /\ key' = key /\ \A d \in Callers \ {c} : pc'[d] = pc[d]
    BY <1>0, <1>2 DEF Claim, CanClaim
  <2> HIDE DEF k
  <2>2. /\ Len(queue'[k]) = Len(queue[k]) - 1
        /\ \A i \in 1 .. Len(queue'[k]) : queue'[k][i] = queue[k][i + 1]
        /\ \A i \in 1 .. Len(queue'[k]) : i + 1 \in 1 .. Len(queue[k]) /\ i + 1 # 1
        /\ 1 \in 1 .. Len(queue[k])
    BY <1>0, <2>1, HeadTailProperties
  <2>3. \A i \in 1 .. Len(queue[k]) : i # 1 => queue[k][i] # c
    BY <2>1, <2>2 DEF OncePerLine
  <2>4. \A j \in Keys \ {k} : \A i \in 1 .. Len(queue[j]) : queue[j][i] # c
    BY <2>1, <2>2 DEF InLine
  <2>5. InLine'
    <3>1. ASSUME NEW i \in 1 .. Len(queue'[k])
          PROVE  pc'[queue'[k][i]] \in Waiting /\ key'[queue'[k][i]] = k
      <4>1. PICK n \in 1 .. Len(queue[k]) : n # 1 /\ queue'[k][i] = queue[k][n]
        BY <2>2
      <4> QED BY <1>0, <2>1, <2>3, <4>1 DEF InLine
    <3>2. ASSUME NEW j \in Keys \ {k}, NEW i \in 1 .. Len(queue'[j])
          PROVE  pc'[queue'[j][i]] \in Waiting /\ key'[queue'[j][i]] = j
      BY <1>0, <2>1, <2>4 DEF InLine
    <3> QED BY <3>1, <3>2 DEF InLine
  <2>6. ASSUME NEW i \in 1 .. Len(queue'[k]), NEW j \in 1 .. Len(queue'[k]),
               queue'[k][i] = queue'[k][j]
        PROVE  i = j
    <3>1. i + 1 = j + 1
      BY <2>1, <2>2, <2>6 DEF OncePerLine
    <3> QED BY <3>1
  <2>7. OncePerLine'
    BY <1>k, <2>1, <2>6
  <2> QED BY <2>5, <2>7
<1>3. ASSUME NEW c \in Callers, Sleep(c) PROVE InLine' /\ OncePerLine'
  <2>1. \A d \in Callers : pc[d] \in Waiting => pc'[d] \in Waiting
    BY <1>0, <1>3 DEF Sleep, Waiting
  <2> QED BY <1>0, <1>3, <2>1 DEF Sleep, InLine, OncePerLine
<1>4. ASSUME NEW c \in Callers, GiveUp(c) PROVE InLine' /\ OncePerLine'
  <2>1. PICK k \in Keys : k = key[c]
    BY <1>0, <1>4 DEF GiveUp
  <2>2. /\ queue'[k] = Cancelled(queue[k], c) /\ \A j \in Keys \ {k} : queue'[j] = queue[j]
        /\ key' = key /\ \A d \in Callers \ {c} : pc[d] \in Waiting => pc'[d] \in Waiting
    BY <1>0, <1>n, <1>4, <2>1 DEF GiveUp
  <2>3. \A j \in Keys \ {k} : \A i \in 1 .. Len(queue[j]) : queue[j][i] # c
    BY <2>1 DEF InLine
  <2>4. CASE ~ Contains(queue[k], c)
    <3>1. queue'[k] = queue[k] /\ \A i \in 1 .. Len(queue[k]) : queue[k][i] # c
      BY <1>0, <2>2, <2>4 DEF Cancelled, Contains
    <3>2. queue' = queue
      BY <1>0, <1>4, <2>1, <3>1 DEF GiveUp
    <3>3. ASSUME NEW j \in Keys, NEW i \in 1 .. Len(queue[j])
          PROVE  pc'[queue[j][i]] \in Waiting /\ key'[queue[j][i]] = j
      <4>1. queue[j][i] \in Callers \ {c}
        BY <1>0, <2>3, <3>1
      <4> QED BY <2>2, <4>1 DEF InLine
    <3> QED BY <3>2, <3>3 DEF InLine, OncePerLine
  <2>5. CASE Contains(queue[k], c)
    <3>1. PICK n \in 1 .. Len(queue[k]) : queue[k][n] = c /\ queue'[k] = RemoveAt(queue[k], n)
      <4>1. DOMAIN queue[k] = 1 .. Len(queue[k])
        BY <1>0, LenProperties
      <4>2. \E n \in DOMAIN queue[k] : queue[k][n] = c
        BY <2>5, <4>1 DEF Contains
      <4> QED BY <2>2, <2>5, <4>1, <4>2 DEF Cancelled
    <3>2. /\ Len(queue'[k]) = Len(queue[k]) - 1
          /\ \A i \in 1 .. Len(queue[k]) - 1 :
                queue'[k][i] = IF i < n THEN queue[k][i] ELSE queue[k][i + 1]
      BY <1>0, <3>1, RemovedAt
    <3> DEFINE was(i) == IF i < n THEN i ELSE i + 1
    <3>3. ASSUME NEW i \in 1 .. Len(queue'[k])
          PROVE  was(i) \in 1 .. Len(queue[k]) /\ was(i) # n /\ queue'[k][i] = queue[k][was(i)]
      <4>1. i \in 1 .. Len(queue[k]) - 1
        BY <3>2
      <4> QED BY <1>0, <3>2, <4>1
    <3>4. \A i, j \in 1 .. Len(queue'[k]) : was(i) = was(j) => i = j
      BY <1>0, <3>2
    <3> HIDE DEF was
    <3>5. \A i \in 1 .. Len(queue'[k]) : queue'[k][i] # c
      BY <3>1, <3>3 DEF OncePerLine
    <3>6. InLine'
      <4>1. ASSUME NEW i \in 1 .. Len(queue'[k])
            PROVE  pc'[queue'[k][i]] \in Waiting /\ key'[queue'[k][i]] = k
        <5>1. PICK j \in 1 .. Len(queue[k]) : queue'[k][i] = queue[k][j] /\ queue[k][j] # c
          BY <3>3, <3>5
        <5> QED BY <1>0, <2>2, <5>1 DEF InLine
      <4>2. ASSUME NEW j \in Keys \ {k}, NEW i \in 1 .. Len(queue'[j])
            PROVE  pc'[queue'[j][i]] \in Waiting /\ key'[queue'[j][i]] = j
        BY <1>0, <2>2, <2>3 DEF InLine
      <4> QED BY <4>1, <4>2 DEF InLine
    <3>7. OncePerLine'
      <4>1. \A i, j \in 1 .. Len(queue'[k]) : queue'[k][i] = queue'[k][j] => i = j
        BY <3>3, <3>4 DEF OncePerLine
      <4> QED BY <1>k, <2>2, <4>1
    <3> QED BY <3>6, <3>7
  <2> QED BY <2>4, <2>5
<1>5. ASSUME NEW c \in Callers, Release(c) PROVE InLine' /\ OncePerLine'
  <2>1. \A d \in Callers : pc[d] \in Waiting => pc'[d] \in Waiting
    BY <1>0, <1>n, <1>5 DEF Release, Waiting
  <2> QED BY <1>0, <1>5, <2>1 DEF Release, InLine, OncePerLine
<1>6. CASE Reset
  <2>1. \A k \in Keys : \A i : i \notin 1 .. Len(queue'[k])
    BY <1>6 DEF Reset
  <2> QED BY <2>1 DEF InLine, OncePerLine
<1>7. CASE UNCHANGED vars
  BY <1>7 DEF vars, InLine, OncePerLine
<1> QED BY <1>1, <1>2, <1>3, <1>4, <1>5, <1>6, <1>7 DEF Next

LEMMA LineInvariant == Spec => []LineInv
<1>1. Init => InLine /\ OncePerLine
  <2> SUFFICES ASSUME Init PROVE InLine /\ OncePerLine
    OBVIOUS
  <2>1. \A k \in Keys : \A i : i \notin 1 .. Len(queue[k])
    BY DEF Init
  <2> QED BY <2>1 DEF InLine, OncePerLine
<1>2. Init => LineInv
  <2>1. Init => LeaseInv
    BY BoundAssumption DEF Init, LeaseInv, TypeOK, Waiting, LeaseHasRunningTurn, RunningIsNamed
  <2> QED BY <1>1, <2>1 DEF LineInv
<1>3. LineInv /\ [Next]_vars => LineInv'
  BY LeaseStep, LineStep DEF LineInv
<1> QED BY <1>2, <1>3, PTL DEF Spec

-------------------------------------------------------------------------------
(* The line of a key as the lock sees it, before a reset.                  *)
LEMMA LineReads ==
    ASSUME LineInv, resets = 0, NEW k \in Keys
    PROVE  /\ queue[k] \in Seq(Callers) /\ Line[k] \in Seq(Callers)
           /\ \/ /\ Holders(k) = {} /\ SetToSeq(Holders(k)) = <<>>
                 /\ Line[k] = queue[k] /\ Running[k] = FALSE
              \/ \E d \in Callers : /\ Holders(k) = {d} /\ SetToSeq(Holders(k)) = <<d>>
                                    /\ pc[d] = "turn" /\ key[d] = k
                                    /\ Line[k] = <<d>> \o queue[k] /\ Running[k] = TRUE
<1>1. queue[k] \in Seq(Callers)
  BY DEF LineInv, LeaseInv, TypeOK
<1>2. CASE Holders(k) = {}
  BY <1>1, <1>2, ListOfOne, ConcatEmptySeq DEF Line, Running
<1>3. ASSUME NEW d \in Callers, pc[d] = "turn", key[d] = k
      PROVE  /\ Holders(k) = {d} /\ SetToSeq(Holders(k)) = <<d>>
             /\ Line[k] \in Seq(Callers) /\ Line[k] = <<d>> \o queue[k] /\ Running[k] = TRUE
  <2>1. Holders(k) = {d}
    BY <1>3 DEF LineInv, LeaseInv, RunningIsNamed, Holders
  <2>2. <<d>> \o queue[k] \in Seq(Callers)
    BY <1>1, InFront
  <2>3. SetToSeq(Holders(k)) = <<d>>
    BY <2>1, ListOfOne
  <2>4. Line[k] = SetToSeq(Holders(k)) \o queue[k] /\ Running[k] = TRUE
    BY <2>1 DEF Line, Running
  <2> QED BY <2>1, <2>2, <2>3, <2>4
<1> QED BY <1>1, <1>2, <1>3 DEF Holders

LEMMA LineMembers ==
    ASSUME LineInv, resets = 0, NEW k \in Keys, NEW i \in 1 .. Len(Line[k])
    PROVE  pc[Line[k][i]] # "idle"
<1>1. Len(queue[k]) \in Nat /\ \A n \in 1 .. Len(queue[k]) : pc[queue[k][n]] # "idle"
  BY LenProperties DEF LineInv, LeaseInv, TypeOK, InLine, Waiting
<1>2. CASE Line[k] = queue[k]
  BY <1>1, <1>2
<1>3. ASSUME NEW d \in Callers, pc[d] = "turn", Line[k] = <<d>> \o queue[k] PROVE pc[Line[k][i]] # "idle"
  <2>1. /\ Len(Line[k]) = Len(queue[k]) + 1 /\ Line[k][1] = d
        /\ \A n \in 1 .. Len(queue[k]) : Line[k][n + 1] = queue[k][n]
    BY <1>3, LineReads, InFront
  <2>2. i = 1 \/ \E n \in 1 .. Len(queue[k]) : i = n + 1
    <3>1. i = 1 \/ (i - 1 \in 1 .. Len(queue[k]) /\ i = (i - 1) + 1)
      BY <1>1, <2>1
    <3> QED BY <3>1
  <2> QED BY <1>1, <1>3, <2>1, <2>2
<1> QED BY <1>2, <1>3, LineReads

LEMMA LineNext ==
    /\ Line' = [k \in Keys |-> IF resets' = 0 THEN SetToSeq(Holders(k)') \o queue'[k] ELSE <<>>]
    /\ Running' = [k \in Keys |-> resets' = 0 /\ Holders(k)' # {}]
BY DEF Line, Running

LEMMA AskSimulated ==
    ASSUME LineInv, resets = 0, NEW c \in Callers, NEW k \in Keys, Enqueue(c, k)
    PROVE  Lock!Ask(c, k)
<1>1. /\ pc[c] = "idle" /\ resets' = 0 /\ queue'[k] = Append(queue[k], c)
      /\ \A j \in Keys \ {k} : queue'[j] = queue[j]
  BY DEF Enqueue, Enqueued, LineInv, LeaseInv, TypeOK
<1>2. \A j \in Keys : Holders(j)' = Holders(j)
  <2>1. \A d \in Callers : pc'[d] = "turn" <=> pc[d] = "turn" /\ d # c
    <3>1. pc \in [Callers -> {"idle", "turn"} \cup Waiting] /\ pc[c] = "idle"
      BY DEF Enqueue, LineInv, LeaseInv, TypeOK
    <3>2. \A d \in Callers \ {c} : pc'[d] = Notified(pc)[d]
      BY <3>1 DEF Enqueue, Notified
    <3>3. pc'[c] # "turn"
      BY <3>1 DEF Enqueue, Notified
    <3> QED BY <3>1, <3>2, <3>3, NotifiedType
  <2>2. \A d \in Callers \ {c} : key'[d] = key[d]
    BY DEF Enqueue, LineInv, LeaseInv, TypeOK
  <2> QED BY <1>1, <2>1, <2>2 DEF Holders
<1>3. Running' = Running
  BY <1>1, <1>2, LineNext DEF Running
<1>4. \A j \in Keys \ {k} : Line'[j] = Line[j]
  BY <1>1, <1>2, LineNext DEF Line
<1>5. Line'[k] = Append(Line[k], c)
  <2>1. Line'[k] = SetToSeq(Holders(k)) \o Append(queue[k], c)
    BY <1>1, <1>2, LineNext
  <2>2. queue[k] \in Seq(Callers) /\ Append(queue[k], c) \in Seq(Callers)
    BY LineReads, AppendProperties
  <2>3. CASE SetToSeq(Holders(k)) = <<>> /\ Line[k] = queue[k]
    BY <2>1, <2>2, <2>3, ConcatEmptySeq
  <2>4. ASSUME NEW d \in Callers, SetToSeq(Holders(k)) = <<d>>, Line[k] = <<d>> \o queue[k]
        PROVE  Line'[k] = Append(Line[k], c)
    BY <2>1, <2>2, <2>4, BehindFront
  <2> QED BY <2>3, <2>4, LineReads
<1>6. Line' = [Line EXCEPT ![k] = Append(@, c)]
  <2>1. Line = [j \in Keys |-> Line[j]] /\ Line' = [j \in Keys |-> Line'[j]]
    BY LineNext DEF Line
  <2> HIDE DEF Line
  <2> QED BY <1>4, <1>5, <2>1
<1>7. ASSUME NEW j \in Keys PROVE ~ Lock!Contains(Line[j], c)
  BY <1>1, LineMembers DEF Lock!Contains
<1> QED BY <1>3, <1>6, <1>7 DEF Lock!Ask

LEMMA StartSimulated ==
    ASSUME LineInv, resets = 0, NEW c \in Callers, Claim(c)
    PROVE  \E k \in Keys : Lock!Start(c, k)
<1>1. PICK k \in Keys : k = key[c]
  BY DEF Claim, LineInv, LeaseInv, TypeOK
<1>2. /\ pc[c] # "turn" /\ resets' = 0 /\ queue[k] # <<>> /\ Head(queue[k]) = c
      /\ queue[k] \in Seq(Callers) /\ queue'[k] = Tail(queue[k]) /\ active[k] = NoToken
      /\ \A j \in Keys \ {k} : queue'[j] = queue[j]
      /\ key' = key /\ pc'[c] = "turn" /\ \A d \in Callers \ {c} : pc'[d] = pc[d]
  BY <1>1 DEF Claim, CanClaim, LineInv, LeaseInv, TypeOK
<1>3. Holders(k) = {}
  BY <1>2, CallersAssumption DEF LineInv, LeaseInv, RunningIsNamed, Holders
<1>4. Line[k] = queue[k] /\ Running[k] = FALSE
  BY <1>3, LineReads
<1>5. Holders(k)' = {c} /\ \A j \in Keys \ {k} : Holders(j)' = Holders(j)
  BY <1>1, <1>2, <1>3 DEF Holders
<1>6. \A j \in Keys \ {k} : Line'[j] = Line[j] /\ Running'[j] = Running[j]
  BY <1>2, <1>5, LineNext DEF Line, Running
<1>7. Line'[k] = Line[k] /\ Running'[k] = TRUE
  <2>1. Line'[k] = <<c>> \o Tail(queue[k])
    BY <1>2, <1>5, LineNext, ListOfOne
  <2>2. <<Head(queue[k])>> \o Tail(queue[k]) = queue[k]
    BY <1>2, BehindFront
  <2>3. Running'[k] = TRUE
    BY <1>2, <1>5, LineNext
  <2> QED BY <1>2, <1>4, <2>1, <2>2, <2>3
<1>8. Line' = Line /\ Running' = [Running EXCEPT ![k] = TRUE]
  <2>1. /\ Line = [j \in Keys |-> Line[j]] /\ Line' = [j \in Keys |-> Line'[j]]
        /\ Running = [j \in Keys |-> Running[j]] /\ Running' = [j \in Keys |-> Running'[j]]
    BY LineNext DEF Line, Running
  <2> HIDE DEF Line, Running
  <2> QED BY <1>6, <1>7, <2>1
<1>9. Lock!Start(c, k)
  BY <1>2, <1>4, <1>8 DEF Lock!Start
<1> QED BY <1>9

LEMMA EndSimulated ==
    ASSUME LineInv, resets = 0, NEW c \in Callers, Release(c)
    PROVE  \E k \in Keys : Lock!End(k)
<1>1. PICK k \in Keys : k = key[c]
  BY DEF Release, LineInv, LeaseInv, TypeOK
<1>2. /\ pc[c] = "turn" /\ resets' = 0 /\ queue' = queue /\ key' = key /\ queue[k] \in Seq(Callers)
      /\ pc'[c] # "turn" /\ \A d \in Callers \ {c} : pc'[d] = "turn" <=> pc[d] = "turn"
  BY NotifiedType DEF Release, LineInv, LeaseInv, TypeOK
<1>3. PICK d \in Callers : /\ Holders(k) = {d} /\ Line[k] = <<d>> \o queue[k] /\ Running[k] = TRUE
  <2>1. c \in Holders(k)
    BY <1>1, <1>2 DEF Holders
  <2> QED BY <2>1, LineReads
<1>4. Holders(k) = {c}
  BY <1>1, <1>2, <1>3 DEF Holders
<1>5. Holders(k)' = {} /\ \A j \in Keys \ {k} : Holders(j)' = Holders(j)
  BY <1>1, <1>2, <1>4 DEF Holders
<1>6. \A j \in Keys \ {k} : Line'[j] = Line[j] /\ Running'[j] = Running[j]
  BY <1>2, <1>5, LineNext DEF Line, Running
<1>7. Line'[k] = Tail(Line[k]) /\ Running'[k] = FALSE
  <2>1. Line'[k] = queue[k] /\ Running'[k] = FALSE
    BY <1>2, <1>5, LineNext, ListOfOne, ConcatEmptySeq
  <2>2. Tail(<<d>> \o queue[k]) = queue[k]
    BY <1>2, InFront
  <2> QED BY <1>3, <2>1, <2>2
<1>8. Line' = [Line EXCEPT ![k] = Tail(@)] /\ Running' = [Running EXCEPT ![k] = FALSE]
  <2>1. /\ Line = [j \in Keys |-> Line[j]] /\ Line' = [j \in Keys |-> Line'[j]]
        /\ Running = [j \in Keys |-> Running[j]] /\ Running' = [j \in Keys |-> Running'[j]]
    BY LineNext DEF Line, Running
  <2> HIDE DEF Line, Running
  <2> QED BY <1>6, <1>7, <2>1
<1>9. Lock!End(k)
  BY <1>3, <1>8 DEF Lock!End
<1> QED BY <1>9

LEMMA LeaveSimulated ==
    ASSUME LineInv, resets = 0, NEW c \in Callers, GiveUp(c)
    PROVE  UNCHANGED <<Line, Running>> \/ \E k \in Keys : Lock!Leave(c, k)
<1>1. PICK k \in Keys : k = key[c]
  BY DEF GiveUp, LineInv, LeaseInv, TypeOK
<1>2. /\ resets' = 0 /\ key' = key /\ queue[k] \in Seq(Callers) /\ queue'[k] = Cancelled(queue[k], c)
      /\ \A j \in Keys \ {k} : queue'[j] = queue[j]
      /\ \A d \in Callers : pc'[d] = "turn" <=> pc[d] = "turn"
  BY <1>1, NotifiedType DEF GiveUp, LineInv, LeaseInv, TypeOK
<1>3. \A j \in Keys : Holders(j)' = Holders(j)
  BY <1>2 DEF Holders
<1>4. Running' = Running
  BY <1>2, <1>3, LineNext DEF Running
<1>5. \A j \in Keys \ {k} : Line'[j] = Line[j]
  BY <1>2, <1>3, LineNext DEF Line
<1>6. Line'[k] = SetToSeq(Holders(k)) \o Cancelled(queue[k], c)
  BY <1>2, <1>3, LineNext
<1>7. Line = [j \in Keys |-> Line[j]] /\ Line' = [j \in Keys |-> Line'[j]]
  BY LineNext DEF Line
<1>8. CASE ~ Contains(queue[k], c)
  <2>1. Line'[k] = Line[k]
    BY <1>2, <1>6, <1>8 DEF Cancelled, Line
  <2> HIDE DEF Line
  <2>2. Line' = Line
    BY <1>5, <1>7, <2>1
  <2> QED BY <1>4, <2>2
<1>9. CASE Contains(queue[k], c)
  <2>1. PICK n \in 1 .. Len(queue[k]) :
               queue[k][n] = c /\ Cancelled(queue[k], c) = RemoveAt(queue[k], n)
    <3>1. DOMAIN queue[k] = 1 .. Len(queue[k])
      BY <1>2, LenProperties
    <3>2. \E n \in DOMAIN queue[k] : queue[k][n] = c
      BY <1>9, <3>1 DEF Contains
    <3> QED BY <1>9, <3>1, <3>2 DEF Cancelled
  <2>2. \E i \in 1 .. Len(Line[k]) : /\ Line[k][i] = c /\ (Running[k] => i # 1)
                                     /\ Line'[k] = RemoveAt(Line[k], i)
    <3>1. CASE SetToSeq(Holders(k)) = <<>> /\ Line[k] = queue[k] /\ Running[k] = FALSE
      <4>1. Line'[k] = RemoveAt(queue[k], n)
        BY <1>2, <1>6, <2>1, <3>1, RemovedAt, ConcatEmptySeq
      <4> QED BY <2>1, <3>1, <4>1
    <3>2. ASSUME NEW d \in Callers, SetToSeq(Holders(k)) = <<d>>, Line[k] = <<d>> \o queue[k]
          PROVE  /\ n + 1 \in 1 .. Len(Line[k]) /\ Line[k][n + 1] = c /\ n + 1 # 1
                 /\ Line'[k] = RemoveAt(Line[k], n + 1)
      <4>1. Line'[k] = <<d>> \o RemoveAt(queue[k], n)
        BY <1>6, <2>1, <3>2
      <4>2. <<d>> \o RemoveAt(queue[k], n) = RemoveAt(<<d>> \o queue[k], n + 1)
        BY <1>2, BehindFront
      <4>3. Len(Line[k]) = Len(queue[k]) + 1 /\ Line[k][n + 1] = queue[k][n]
        BY <1>2, <3>2, InFront
      <4>4. n + 1 \in 1 .. Len(queue[k]) + 1 /\ n + 1 # 1
        BY <1>2, LenProperties
      <4> QED BY <2>1, <3>2, <4>1, <4>2, <4>3, <4>4
    <3> QED BY <3>1, <3>2, LineReads
  <2>3. PICK i \in 1 .. Len(Line[k]) : /\ Line[k][i] = c /\ (Running[k] => i # 1)
                                       /\ Line'[k] = RemoveAt(Line[k], i)
    BY <2>2
  <2>4. i \in DOMAIN Line[k]
    BY LineReads, LenProperties
  <2>5. Line' = [Line EXCEPT ![k] = Lock!RemoveAt(@, i)]
    <3> HIDE DEF Line
    <3> QED BY <1>5, <1>7, <2>3 DEF RemoveAt, Lock!RemoveAt
  <2>6. Lock!Leave(c, k)
    BY <1>4, <2>3, <2>4, <2>5 DEF Lock!Leave
  <2> QED BY <2>6
<1> QED BY <1>8, <1>9

LEMMA LockStep == LineInv /\ [Next]_vars => [Lock!LockNext]_(Lock!lockVars)
<1> SUFFICES ASSUME LineInv, [Next]_vars PROVE Lock!LockNext \/ UNCHANGED <<Line, Running>>
  BY DEF Lock!lockVars
<1>1. CASE resets # 0
  <2>1. resets' # 0
    BY <1>1 DEF Next, Enqueue, Claim, Sleep, GiveUp, Release, Reset, vars, LineInv, LeaseInv, TypeOK
  <2> QED BY <1>1, <2>1, LineNext DEF Line, Running
<1>2. CASE resets = 0
  <2>1. CASE UNCHANGED vars
    BY <2>1 DEF vars, Line, Running, Holders
  <2>2. ASSUME NEW c \in Callers, NEW k \in Keys, Enqueue(c, k) PROVE Lock!LockNext
    BY <1>2, <2>2, AskSimulated DEF Lock!LockNext
  <2>3. ASSUME NEW c \in Callers, Claim(c) PROVE Lock!LockNext
    BY <1>2, <2>3, StartSimulated DEF Lock!LockNext
  <2>4. ASSUME NEW c \in Callers, Sleep(c) PROVE UNCHANGED <<Line, Running>>
    <3>1. \A k \in Keys : Holders(k)' = Holders(k)
      BY <2>4 DEF Sleep, Holders, LineInv, LeaseInv, TypeOK
    <3> QED BY <2>4, <3>1, LineNext DEF Sleep, Line, Running
  <2>5. ASSUME NEW c \in Callers, GiveUp(c) PROVE Lock!LockNext \/ UNCHANGED <<Line, Running>>
    BY <1>2, <2>5, LeaveSimulated DEF Lock!LockNext
  <2>6. ASSUME NEW c \in Callers, Release(c) PROVE Lock!LockNext
    BY <1>2, <2>6, EndSimulated DEF Lock!LockNext
  <2>7. CASE Reset
    <3>1. resets' # 0
      BY <2>7 DEF Reset, LineInv, LeaseInv, TypeOK
    <3>2. Line' = [k \in Keys |-> <<>>] /\ Running' = [k \in Keys |-> FALSE]
      BY <3>1, LineNext
    <3> QED BY <3>2 DEF Lock!LockNext, Lock!Forfeit
  <2> QED BY <2>1, <2>2, <2>3, <2>4, <2>5, <2>6, <2>7 DEF Next
<1> QED BY <1>1, <1>2

(* Every step of the coordinator is a step of the lock or leaves it as it  *)
(* is: the safety part of ImplementsTurnLock, for any callers and keys.    *)
THEOREM IsFirstComeFirstServed == Spec => Lock!LockSafety
<1>1. Init => Lock!LockInit
  <2> SUFFICES ASSUME Init PROVE Lock!LockInit
    OBVIOUS
  <2>1. \A k \in Keys : Holders(k) = {} /\ queue[k] = <<>>
    BY DEF Init, Holders
  <2>2. \A k \in Keys : SetToSeq(Holders(k)) \o queue[k] = <<>>
    <3>1. PICK e \in Seq(Callers) : e = <<>>
      BY EmptySeq
    <3>2. e \o e = e
      BY <3>1, ConcatEmptySeq
    <3> QED BY <2>1, <3>1, <3>2, ListOfOne
  <2> QED BY <2>1, <2>2 DEF Lock!LockInit, Line, Running, Init
<1> QED BY <1>1, LockStep, LineInvariant, PTL DEF Spec, Lock!LockSafety
===============================================================================
