--------------------------- MODULE JobFeedbackProofs ---------------------------
(***************************************************************************)
(* A job result is in one place at a time, and a parked one has a flush to *)
(* come: for all inputs, jobs and bounds.                                  *)
(***************************************************************************)
EXTENDS JobFeedback, AgentSessionProofs

-------------------------------------------------------------------------------
(* Sequences of results without repetition.                                *)
Distinct(results) == \A m, n \in DOMAIN results : results[m] = results[n] => m = n

LEMMA ResultsIn ==
    ASSUME NEW s \in Seq(Jobs)
    PROVE  /\ Range(s) \subseteq Jobs /\ (Range(s) = {} <=> s = <<>>)
           /\ DOMAIN s = 1 .. Len(s) /\ Len(s) \in Nat
           /\ s # <<>> => Head(s) \in Range(s)
           /\ \A j : j \in Range(s) <=> \E n \in DOMAIN s : s[n] = j
<1>1. DOMAIN s = 1 .. Len(s) /\ Len(s) \in Nat /\ \A n \in 1 .. Len(s) : s[n] \in Jobs
  BY LenProperties, ElementOfSeq
<1>2. s # <<>> => 1 \in DOMAIN s /\ Head(s) = s[1]
  BY <1>1, EmptySeq, HeadTailProperties
<1>3. Range(s) \subseteq Jobs /\ \A j : j \in Range(s) <=> \E n \in DOMAIN s : s[n] = j
  BY <1>1 DEF Range
<1>4. s # <<>> => Head(s) \in Range(s)
  BY <1>2, <1>3
<1>5. s = <<>> => DOMAIN s = {}
  BY <1>1
<1> QED BY <1>1, <1>3, <1>4, <1>5

LEMMA NoResults == <<>> \in Seq(Jobs) /\ Range(<<>>) = {} /\ Distinct(<<>>) /\ Len(<<>>) = 0
BY DEF Range, Distinct

LEMMA OneResult ==
    ASSUME NEW j \in Jobs
    PROVE  <<j>> \in Seq(Jobs) /\ Range(<<j>>) = {j} /\ Distinct(<<j>>) /\ <<j>> # <<>>
<1>1. <<j>> \in Seq(Jobs) /\ Len(<<j>>) = 1 /\ <<j>>[1] = j /\ DOMAIN <<j>> = {1}
  OBVIOUS
<1> QED BY <1>1 DEF Range, Distinct

LEMMA AddResult ==
    ASSUME NEW s \in Seq(Jobs), NEW j \in Jobs, Distinct(s), j \notin Range(s)
    PROVE  /\ Append(s, j) \in Seq(Jobs) /\ Len(Append(s, j)) = Len(s) + 1
           /\ Distinct(Append(s, j)) /\ Range(Append(s, j)) = Range(s) \cup {j}
<1> DEFINE new == Append(s, j)
           k == Len(s) + 1
<1>1. /\ new \in Seq(Jobs) /\ Len(new) = k /\ new[k] = j
      /\ \A n \in 1 .. Len(s) : new[n] = s[n]
  BY AppendProperties
<1>2. /\ DOMAIN s = 1 .. Len(s) /\ Len(s) \in Nat /\ DOMAIN new = 1 .. k
  BY <1>1, LenProperties
<1>3. /\ \A n \in DOMAIN new : n = k \/ (n \in DOMAIN s /\ new[n] = s[n])
      /\ k \in DOMAIN new /\ \A n \in DOMAIN s : n \in DOMAIN new /\ new[n] = s[n]
  BY <1>1, <1>2
<1> HIDE DEF new, k
<1>4. Range(new) = Range(s) \cup {j}
  BY <1>1, <1>3 DEF Range
<1>5. \A n \in DOMAIN s : s[n] # j
  BY DEF Range
<1>6. Distinct(new)
  BY <1>1, <1>3, <1>5 DEF Distinct
<1> QED BY <1>1, <1>4, <1>6 DEF new, k

(* Eviction splits the buffer in two.                                      *)
LEMMA SplitResults ==
    ASSUME NEW s \in Seq(Jobs), Distinct(s), NEW n \in 0 .. Len(s)
    PROVE  LET old == SubSeq(s, 1, n)
               kept == SubSeq(s, n + 1, Len(s))
           IN  /\ old \in Seq(Jobs) /\ kept \in Seq(Jobs) /\ Len(kept) = Len(s) - n
               /\ Distinct(old) /\ Distinct(kept)
               /\ Range(old) \cup Range(kept) = Range(s)
               /\ Range(old) \cap Range(kept) = {}
<1> DEFINE old == SubSeq(s, 1, n)
           kept == SubSeq(s, n + 1, Len(s))
<1>1. Len(s) \in Nat /\ n \in Nat /\ n <= Len(s) /\ DOMAIN s = 1 .. Len(s)
  BY LenProperties
<1>2. /\ old \in Seq(Jobs) /\ Len(old) = n
      /\ \A m \in 1 .. n : old[m] = s[m]
  <2>1. \A i \in 1 .. n : s[i] \in Jobs
    BY <1>1, ElementOfSeq
  <2>2. /\ old \in Seq(Jobs) /\ Len(old) = IF 1 <= n THEN n - 1 + 1 ELSE 0
        /\ \A m \in 1 .. n - 1 + 1 : old[m] = s[1 + m - 1]
    BY <1>1, <2>1, SubSeqProperties
  <2>3. \A m \in 1 .. n : m \in 1 .. n - 1 + 1 /\ 1 + m - 1 = m
    BY <1>1
  <2>4. \A m \in 1 .. n : old[m] = s[m]
    BY <2>2, <2>3
  <2> QED BY <1>1, <2>2, <2>4
<1>3. /\ kept \in Seq(Jobs) /\ Len(kept) = Len(s) - n
      /\ \A m \in 1 .. Len(s) - n : kept[m] = s[n + m]
  <2>1. \A i \in n + 1 .. Len(s) : s[i] \in Jobs
    BY <1>1, ElementOfSeq
  <2>2. /\ kept \in Seq(Jobs)
        /\ Len(kept) = IF n + 1 <= Len(s) THEN Len(s) - (n + 1) + 1 ELSE 0
        /\ \A m \in 1 .. Len(s) - (n + 1) + 1 : kept[m] = s[(n + 1) + m - 1]
    BY <1>1, <2>1, SubSeqProperties
  <2> HIDE DEF kept
  <2>3. \A m \in 1 .. Len(s) - n : m \in 1 .. Len(s) - (n + 1) + 1 /\ (n + 1) + m - 1 = n + m
    BY <1>1
  <2>4. \A m \in 1 .. Len(s) - n : kept[m] = s[n + m]
    BY <2>2, <2>3
  <2>5. Len(kept) = Len(s) - n
    <3>1. Len(kept) = IF n + 1 <= Len(s) THEN Len(s) - (n + 1) + 1 ELSE 0
      BY <2>2
    <3>2. CASE n + 1 <= Len(s)
      <4>1. Len(s) - (n + 1) + 1 = Len(s) - n
        BY <1>1
      <4> QED BY <3>1, <3>2, <4>1
    <3>3. CASE ~ (n + 1 <= Len(s))
      <4>0. \A k, m \in Nat : m <= k /\ ~ (m + 1 <= k) => k = m
        OBVIOUS
      <4>1. Len(s) = n
        BY <1>1, <3>3, <4>0
      <4>2. Len(s) - n = 0
        BY <1>1, <4>1
      <4> QED BY <3>1, <3>3, <4>1, <4>2
    <3> QED BY <3>2, <3>3
  <2> QED BY <2>2, <2>4, <2>5
<1>4. DOMAIN old = 1 .. n /\ DOMAIN kept = 1 .. Len(s) - n
  BY <1>1, <1>2, <1>3, LenProperties
<1> HIDE DEF old, kept
<1>5. /\ \A m \in DOMAIN old : m \in DOMAIN s /\ m \in Nat /\ m <= n /\ old[m] = s[m]
      /\ \A m \in DOMAIN kept : /\ n + m \in DOMAIN s /\ n + m > n /\ m \in Nat
                                /\ kept[m] = s[n + m]
      /\ \A m \in DOMAIN s : \/ m \in DOMAIN old
                             \/ m - n \in DOMAIN kept /\ n + (m - n) = m
  BY <1>1, <1>2, <1>3, <1>4
<1>6. Distinct(old)
  BY <1>5 DEF Distinct
<1>7. Distinct(kept)
  <2>1. ASSUME NEW l \in DOMAIN kept, NEW m \in DOMAIN kept, kept[l] = kept[m] PROVE l = m
    <3>1. n + l = n + m
      BY <1>5, <2>1 DEF Distinct
    <3> QED BY <1>1, <1>5, <3>1
  <2> QED BY <2>1 DEF Distinct
<1>8. Range(old) \cup Range(kept) = Range(s)
  <2>1. Range(old) \subseteq Range(s) /\ Range(kept) \subseteq Range(s)
    BY <1>5 DEF Range
  <2>2. ASSUME NEW m \in DOMAIN s PROVE s[m] \in Range(old) \cup Range(kept)
    <3>1. CASE m \in DOMAIN old
      BY <1>5, <3>1 DEF Range
    <3>2. CASE m - n \in DOMAIN kept /\ n + (m - n) = m
      <4>1. kept[m - n] = s[m]
        BY <1>5, <3>2
      <4> QED BY <3>2, <4>1 DEF Range
    <3> QED BY <1>5, <3>1, <3>2
  <2>3. Range(s) \subseteq Range(old) \cup Range(kept)
    BY <2>2 DEF Range
  <2> QED BY <2>1, <2>3
<1>9. Range(old) \cap Range(kept) = {}
  <2>1. ASSUME NEW l \in DOMAIN old, NEW m \in DOMAIN kept PROVE old[l] # kept[m]
    <3>1. l # n + m
      BY <1>1, <1>5
    <3> QED BY <1>5, <3>1 DEF Distinct
  <2> QED BY <2>1 DEF Range
<1> QED BY <1>2, <1>3, <1>6, <1>7, <1>8, <1>9 DEF old, kept

LEMMA CountResults ==
    ASSUME NEW s \in Seq(Jobs), Distinct(s), NEW j \in Jobs
    PROVE  Count(j, s) = IF j \in Range(s) THEN 1 ELSE 0
<1>1. CASE j \in Range(s)
  <2>1. PICK n \in DOMAIN s : s[n] = j
    BY <1>1 DEF Range
  <2>2. {m \in DOMAIN s : s[m] = j} = {n}
    BY <2>1 DEF Distinct
  <2> QED BY <1>1, <2>2, FS_Singleton DEF Count
<1>2. CASE j \notin Range(s)
  <2>1. {m \in DOMAIN s : s[m] = j} = {}
    BY <1>2 DEF Range
  <2> QED BY <1>2, <2>1, FS_EmptySet DEF Count
<1> QED BY <1>1, <1>2

-------------------------------------------------------------------------------
(* Where a job is: with its worker, or else in the buffer, in one hand, or *)
(* in the session.  A hand is emptied before its owner drains again.       *)
WorkerStates == {"polling", "check", "park", "recheck", "flush", "done"}

Early(j) == worker[j] \in {"polling", "check", "park"}

JobPlace(j) ==
    /\ Early(j) => hand[j] = <<>>
    /\ Early(j) => at[j] = "outside" /\ j \notin Range(parked)
    /\ Early(j) => \A f \in Flushers : j \notin Range(hand[f])
    /\ ~ Early(j) => \/ at[j] # "outside"
                     \/ j \in Range(parked)
                     \/ \E f \in Flushers : j \in Range(hand[f])
    /\ j \in Range(parked) => /\ at[j] = "outside"
                              /\ \A f \in Flushers : j \notin Range(hand[f])
    /\ \A f \in Flushers : j \in Range(hand[f]) => at[j] = "outside"
    /\ \A f, g \in Flushers : j \in Range(hand[f]) /\ j \in Range(hand[g]) => f = g

BufferInv ==
    /\ worker \in [Jobs -> WorkerStates]
    /\ parked \in Seq(Jobs) /\ Len(parked) <= MaxParked /\ Distinct(parked)
    /\ hand \in [Flushers -> Seq(Jobs)] /\ \A f \in Flushers : Distinct(hand[f])
    /\ told \subseteq Jobs
    /\ hand["consumer"] # <<>> => consumer = "flushing"

PlaceInv == BufferInv /\ \A j \in Jobs : JobPlace(j)

LEMMA FlusherNames ==
    /\ Jobs \subseteq Inputs /\ Jobs \subseteq Flushers
    /\ "consumer" \in Flushers /\ "sweep" \in Flushers /\ "consumer" # "sweep"
    /\ "consumer" \notin Jobs /\ "sweep" \notin Jobs
BY JobsAssumption DEF Flushers

(* The session moves the inputs of its own senders, and those it has, but  *)
(* no job that is still outside.                                           *)
LEMMA JobsStayOutside ==
    ASSUME CellInv, SessionStep(Inputs \ Jobs), NEW j \in Jobs
    PROVE  at'[j] = "outside" <=> at[j] = "outside"
<1>0. /\ at \in [Inputs -> Places] /\ j \in Inputs
      /\ Loads(queue) = In("queued") /\ Loads(batch) = In("taken")
      /\ holding # NoCell => holding.load = In("looking")
  BY FlusherNames DEF CellInv, CellTypes
<1>a. ASSUME NEW S, NEW p, at' = Moved(S, p), p # "outside", j \in S => at[j] # "outside"
      PROVE  at'[j] = "outside" <=> at[j] = "outside"
  BY <1>0, <1>a DEF Moved
<1>b. ASSUME UNCHANGED at PROVE at'[j] = "outside" <=> at[j] = "outside"
  BY <1>b
<1>1. ASSUME NEW i \in Inputs \ Jobs, SendInput(i)
      PROVE  at'[j] = "outside" <=> at[j] = "outside"
  <2>1. Cell({i}).load = {i} /\ j \notin {i}
    BY <1>1, NewCell
  <2>2. at' = Moved({i}, "queued") \/ at' = Moved({i}, "rejected") \/ at' = Moved({i}, "looking")
    BY <1>1, <2>1 DEF SendInput, QueueInput, Put
  <2> QED BY <1>a, <2>1, <2>2
<1>2. ASSUME NEW i \in Inputs \ Jobs, MarkCollecting(i) \/ Collect(i)
      PROVE  at'[j] = "outside" <=> at[j] = "outside"
  <2>1. \E p \in {"marked", "collected", "bare"} : at' = Moved({i}, p)
    BY <1>2 DEF MarkCollecting, Collect
  <2> QED BY <1>a, <2>1
<1>3. CASE FlushStream
  <2>1. Cell(Collected).load = Collected
    BY <1>3, NewCell DEF FlushStream, Collected, In
  <2>2. \/ at' = Moved(Collected, "queued") \/ at' = Moved(Collected, "rejected")
        \/ at' = Moved(Collected, "looking")
    BY <1>3, <2>1 DEF FlushStream, QueueInput, Put
  <2>3. j \in Collected => at[j] # "outside"
    BY DEF Collected, In
  <2> QED BY <1>a, <2>2, <2>3
<1>4. CASE LookAtTail \/ MergeIntoTail
  <2>1. tail # {} => holding # NoCell
    BY DEF CellInv
  <2>2. j \in holding.load => at[j] # "outside"
    BY <1>0, <1>4, <2>1 DEF LookAtTail, MergeIntoTail, In
  <2>3. \/ UNCHANGED at
        \/ \E p \in {"queued", "taken", "missed", "crashed", "rejected"} : at' = Moved(holding.load, p)
    BY <1>4 DEF LookAtTail, MergeIntoTail, Put
  <2> QED BY <1>a, <1>b, <2>2, <2>3
<1>5. CASE Take
  <2>1. Head(queue).load \subseteq Loads(queue)
    BY <1>5, TakeCell DEF Take, CellInv, CellTypes
  <2>2. j \in Head(queue).load => at[j] # "outside"
    BY <1>0, <2>1 DEF In
  <2> QED BY <1>5, <1>a, <2>2 DEF Take
<1>6. CASE NotifyComplete
  <2>1. j \in Loads(batch) => at[j] # "outside"
    BY <1>0 DEF In
  <2> QED BY <1>6, <1>a, <2>1 DEF NotifyComplete, Notified
<1>7. CASE DropStream
  <2>1. j \in Collected => at[j] # "outside"
    BY DEF Collected, In
  <2> QED BY <1>7, <1>a, <2>1 DEF DropStream
<1>8. CASE Abort
  <2>1. j \in Loads(queue) => at[j] # "outside"
    BY <1>0 DEF In
  <2> QED BY <1>8, <1>a, <2>1 DEF Abort
<1>9. CASE Wake \/ FindNothing \/ CloseBatch \/ BeginTurn \/ AcquireLease \/ TurnGoesOn
           \/ FinishTurn \/ Shutdown
  BY <1>9, <1>b DEF Wake, FindNothing, CloseBatch, BeginTurn, AcquireLease, TurnGoesOn,
                    BeginIteration, RequestLLM, RetryLLM, CallTools, Answer, EndWithoutAnswer,
                    FinishTurn, Shutdown
<1> QED
  BY <1>1, <1>2, <1>3, <1>4, <1>5, <1>6, <1>7, <1>8, <1>9 DEF SessionStep, ConsumerStep

(* The consumer does not leave a flush it is in the middle of.             *)
LEMMA FlushIsNotLeft ==
    ASSUME SessionStep(Inputs \ Jobs), consumer = "flushing"
    PROVE  consumer' = "flushing"
<1>1. ~ ConsumerStep
  BY DEF ConsumerStep, Wake, Take, FindNothing, CloseBatch, BeginTurn, AcquireLease, TurnGoesOn,
         BeginIteration, RequestLLM, RetryLLM, CallTools, Answer, EndWithoutAnswer, FinishTurn,
         NotifyComplete
<1>2. \A i \in Inputs \ Jobs : SendInput(i) \/ MarkCollecting(i) \/ Collect(i) => UNCHANGED consumer
  BY DEF SendInput, MarkCollecting, Collect
<1>3. FlushStream \/ LookAtTail \/ MergeIntoTail \/ DropStream \/ Abort \/ Shutdown
        => UNCHANGED consumer
  BY DEF FlushStream, LookAtTail, MergeIntoTail, DropStream, Abort, Shutdown
<1> QED BY <1>1, <1>2, <1>3 DEF SessionStep

(* Steps that move no result between buffer, hands and session.            *)
LEMMA ResultsStay ==
    ASSUME PlaceInv, UNCHANGED <<parked, hand>>, told' \subseteq Jobs,
           worker' \in [Jobs -> WorkerStates], \A j \in Jobs : Early(j)' <=> Early(j),
           \A j \in Jobs : at'[j] = "outside" <=> at[j] = "outside",
           hand["consumer"] # <<>> => consumer' = "flushing"
    PROVE  PlaceInv'
<1>1. BufferInv'
  BY DEF PlaceInv, BufferInv
<1>2. ASSUME NEW j \in Jobs PROVE JobPlace(j)'
  <2>1. /\ JobPlace(j) /\ (Early(j)' <=> Early(j)) /\ (at'[j] = "outside" <=> at[j] = "outside")
        /\ parked' = parked /\ hand' = hand
    BY DEF PlaceInv
  <2> QED BY <2>1 DEF JobPlace
<1> QED BY <1>1, <1>2 DEF PlaceInv

(* The buffer goes into one empty hand.                                    *)
LEMMA DrainKeeps ==
    ASSUME PlaceInv, NEW f \in Flushers, hand[f] = <<>>, Drain(f), UNCHANGED <<at, told>>,
           f \in Jobs => ~ Early(f),
           worker' \in [Jobs -> WorkerStates], \A j \in Jobs : Early(j)' <=> Early(j),
           hand["consumer"] # <<>> \/ f = "consumer" => consumer' = "flushing"
    PROVE  PlaceInv'
<1>0. /\ BufferInv /\ hand' = [hand EXCEPT ![f] = parked] /\ parked' = <<>>
      /\ hand \in [Flushers -> Seq(Jobs)] /\ parked \in Seq(Jobs) /\ Distinct(parked)
  BY DEF PlaceInv, BufferInv, Drain, LeftByDrain
<1>1. /\ hand' \in [Flushers -> Seq(Jobs)] /\ hand'[f] = parked
      /\ \A g \in Flushers : g # f => hand'[g] = hand[g]
      /\ Range(parked') = {} /\ Range(hand[f]) = {}
  BY <1>0, NoResults
<1>2. BufferInv'
  <2>1. hand'["consumer"] # <<>> => consumer' = "flushing"
    BY <1>1, FlusherNames
  <2>2. Len(parked') <= MaxParked /\ Distinct(parked') /\ parked' \in Seq(Jobs)
    BY <1>0, NoResults, MaxParkedAssumption
  <2>3. told' \subseteq Jobs /\ worker' \in [Jobs -> WorkerStates]
    BY <1>0 DEF BufferInv
  <2>4. \A g \in Flushers : Distinct(hand'[g])
    BY <1>0, <1>1 DEF BufferInv
  <2> QED BY <1>1, <2>1, <2>2, <2>3, <2>4 DEF BufferInv
<1>3. ASSUME NEW j \in Jobs PROVE JobPlace(j)'
  <2>0. /\ JobPlace(j) /\ (Early(j)' <=> Early(j)) /\ at' = at
        /\ j \in Flushers /\ (Early(j) => f # j)
    BY FlusherNames DEF PlaceInv
  <2>1. Early(j)' => hand'[j] = <<>>
    BY <1>1, <2>0 DEF JobPlace
  <2>2. j \notin Range(parked')
    BY <1>1
  <2>3. \A g \in Flushers : j \in Range(hand'[g]) <=> \/ g # f /\ j \in Range(hand[g])
                                                      \/ g = f /\ j \in Range(parked)
    BY <1>1
  <2>4. \/ at[j] # "outside" \/ j \in Range(parked) \/ \E g \in Flushers : j \in Range(hand[g])
        => \/ at[j] # "outside" \/ \E g \in Flushers : j \in Range(hand'[g])
    <3>1. \A g \in Flushers : j \in Range(hand[g]) => g # f
      BY <1>1
    <3> QED BY <2>3, <3>1
  <2> QED BY <2>0, <2>1, <2>2, <2>3, <2>4 DEF JobPlace
<1> QED BY <1>2, <1>3 DEF PlaceInv

(* What a hand held is in the session.                                     *)
LEMMA JobCellFacts ==
    ASSUME NEW s \in Seq(Jobs), s # <<>>
    PROVE  /\ JobCell(s) \in Cells /\ JobCell(s).load = Range(s)
           /\ Range(s) \subseteq Inputs
<1>1. Range(s) \subseteq Jobs /\ Range(s) # {} /\ Head(s) \in Jobs
  BY ResultsIn
<1>2. Range(s) \subseteq Inputs /\ RouteOf[Head(s)] \in Range(RouteOf)
  BY <1>1, FlusherNames, InputsAssumption DEF Range
<1>3. Range(s) \in (SUBSET Inputs) \ {{}} /\ "terminal" \in Kinds
  BY <1>1, <1>2 DEF Kinds
<1> QED BY <1>2, <1>3 DEF JobCell, Cells

LEMMA EnqueueKeeps ==
    ASSUME CellInv, PlaceInv, NEW f \in Flushers, Enqueue(f)
    PROVE  CellInv' /\ PlaceInv'
<1> DEFINE s == hand[f]
<1>0. /\ BufferInv /\ s # <<>> /\ s \in Seq(Jobs) /\ at \in [Inputs -> Places]
      /\ hand \in [Flushers -> Seq(Jobs)] /\ hand' = [hand EXCEPT ![f] = <<>>]
      /\ QueueInput(JobCell(s)) /\ UNCHANGED <<worker, parked, told, consumer, tail, batch>>
  BY DEF PlaceInv, BufferInv, Enqueue, CellInv, CellTypes
<1> HIDE DEF s
<1>1. /\ JobCell(s) \in Cells /\ JobCell(s).load = Range(s) /\ Range(s) \subseteq Inputs
      /\ Range(s) \subseteq Jobs
  BY <1>0, JobCellFacts, ResultsIn
<1>2. \A j \in Range(s) : at[j] = "outside"
  BY <1>1 DEF PlaceInv, JobPlace, s
<1>3. CellInv'
  <2>1. Range(s) \cap In("queued") = {} /\ Range(s) \cap In("taken") = {}
    BY <1>2 DEF In
  <2> QED BY <1>0, <1>1, <2>1, QueueInputFacts
<1>4. \A j \in Inputs : at'[j] = "outside" <=> at[j] = "outside" /\ j \notin Range(s)
  <2>1. \E p \in {"queued", "rejected", "looking"} : at' = Moved(Range(s), p)
    BY <1>0, <1>1 DEF QueueInput, Put
  <2> QED BY <1>0, <2>1 DEF Moved
<1>5. /\ hand' \in [Flushers -> Seq(Jobs)] /\ hand'[f] = <<>> /\ Range(hand'[f]) = {}
      /\ \A g \in Flushers : g # f => hand'[g] = hand[g]
  BY <1>0, NoResults
<1>6. BufferInv'
  <2>1. hand'["consumer"] # <<>> => consumer' = "flushing"
    BY <1>0, <1>5, FlusherNames DEF BufferInv
  <2>2. \A g \in Flushers : Distinct(hand'[g])
    BY <1>0, <1>5, NoResults DEF BufferInv
  <2> QED BY <1>0, <1>5, <2>1, <2>2 DEF BufferInv
<1>7. ASSUME NEW j \in Jobs PROVE JobPlace(j)'
  <2>0. /\ JobPlace(j) /\ (Early(j)' <=> Early(j)) /\ parked' = parked
        /\ j \in Flushers /\ j \in Inputs
    BY <1>0, FlusherNames DEF PlaceInv, Early
  <2>1. Early(j)' => hand'[j] = <<>>
    BY <1>5, <2>0 DEF JobPlace
  <2>2. \A g \in Flushers : j \in Range(hand'[g]) <=> g # f /\ j \in Range(hand[g])
    BY <1>5
  <2>3. j \in Range(s) => at'[j] # "outside"
    BY <1>4, <2>0
  <2>4. j \notin Range(s) => \A g \in Flushers : j \in Range(hand'[g]) <=> j \in Range(hand[g])
    BY <2>2 DEF s
  <2>5. j \in Range(s) => /\ \A g \in Flushers : j \notin Range(hand'[g])
                          /\ j \notin Range(parked) /\ ~ Early(j)
    BY <2>0, <2>2 DEF s, JobPlace
  <2>6. CASE j \in Range(s)
    BY <2>0, <2>3, <2>5, <2>6 DEF JobPlace
  <2>7. CASE j \notin Range(s)
    <3>1. at'[j] = "outside" <=> at[j] = "outside"
      BY <1>4, <2>0, <2>7
    <3>2. \A g \in Flushers : j \in Range(hand'[g]) <=> j \in Range(hand[g])
      BY <2>4, <2>7
    <3> QED BY <2>0, <2>1, <3>1, <3>2 DEF JobPlace
  <2> QED BY <2>6, <2>7
<1> QED BY <1>3, <1>6, <1>7 DEF PlaceInv

LEMMA ParkKeeps ==
    ASSUME PlaceInv, NEW j \in Jobs, Park(j)
    PROVE  PlaceInv'
<1> DEFINE results == Append(parked, j)
           n == Evicted(results)
           old == SubSeq(results, 1, n)
           kept == SubSeq(results, n + 1, Len(results))
<1>0. /\ BufferInv /\ worker[j] = "park" /\ parked' = kept
      /\ hand' = [hand EXCEPT ![j] = old] /\ worker' = [worker EXCEPT ![j] = "recheck"]
      /\ UNCHANGED <<at, consumer, told>> /\ j \in Flushers
      /\ hand \in [Flushers -> Seq(Jobs)] /\ worker \in [Jobs -> WorkerStates]
      /\ parked \in Seq(Jobs) /\ Distinct(parked) /\ Len(parked) <= MaxParked
  BY FlusherNames DEF PlaceInv, BufferInv, Park, AfterParking, sessionVars
<1>1. /\ Early(j) /\ j \notin Range(parked) /\ hand[j] = <<>> /\ at[j] = "outside"
      /\ \A f \in Flushers : j \notin Range(hand[f])
  BY <1>0 DEF PlaceInv, JobPlace, Early
<1>2. /\ results \in Seq(Jobs) /\ Len(results) = Len(parked) + 1 /\ Len(parked) \in Nat
      /\ Distinct(results) /\ Range(results) = Range(parked) \cup {j}
  BY <1>0, <1>1, AddResult, LenProperties
<1>3. n \in 0 .. Len(results) /\ Len(results) - n <= MaxParked
  <2> HIDE DEF results
  <2>1. MaxParked \in Nat /\ Len(results) \in Nat
    BY <1>2, MaxParkedAssumption
  <2>2. CASE Len(results) > MaxParked
    <3>1. n = Len(results) - MaxParked
      BY <2>2 DEF Evicted
    <3> QED BY <2>1, <2>2, <3>1
  <2>3. CASE ~ (Len(results) > MaxParked)
    <3>1. n = 0
      BY <2>3 DEF Evicted
    <3> QED BY <2>1, <2>3, <3>1
  <2> QED BY <2>2, <2>3
<1> HIDE DEF results, n
<1>4. /\ old \in Seq(Jobs) /\ kept \in Seq(Jobs) /\ Len(kept) = Len(results) - n
      /\ Distinct(old) /\ Distinct(kept)
      /\ Range(old) \cup Range(kept) = Range(parked) \cup {j}
      /\ Range(old) \cap Range(kept) = {}
  BY <1>2, <1>3, SplitResults
<1> HIDE DEF old, kept
<1>5. /\ hand' \in [Flushers -> Seq(Jobs)] /\ hand'[j] = old
      /\ \A g \in Flushers : g # j => hand'[g] = hand[g]
      /\ Range(hand[j]) = {}
  BY <1>0, <1>1, <1>4, NoResults
<1>6. /\ worker' \in [Jobs -> WorkerStates] /\ worker'[j] = "recheck"
      /\ \A k \in Jobs : k # j => worker'[k] = worker[k]
  BY <1>0 DEF WorkerStates
<1>7. BufferInv'
  <2>1. \A g \in Flushers : Distinct(hand'[g])
    BY <1>0, <1>4, <1>5 DEF BufferInv
  <2>2. hand'["consumer"] # <<>> => consumer' = "flushing"
    BY <1>0, <1>5, FlusherNames DEF BufferInv
  <2>3. Len(parked') <= MaxParked
    BY <1>0, <1>3, <1>4
  <2> QED BY <1>0, <1>4, <1>5, <1>6, <2>1, <2>2, <2>3 DEF BufferInv
<1>8. ASSUME NEW k \in Jobs PROVE JobPlace(k)'
  <2>0. /\ JobPlace(k) /\ at' = at /\ parked' = kept /\ k \in Flushers
    BY <1>0, FlusherNames DEF PlaceInv
  <2>1. \A g \in Flushers : k \in Range(hand'[g]) <=> \/ g # j /\ k \in Range(hand[g])
                                                      \/ g = j /\ k \in Range(old)
    BY <1>5
  <2>2. k # j => (Early(k)' <=> Early(k)) /\ hand'[k] = hand[k]
    BY <1>5, <1>6, <2>0 DEF Early
  <2>3. ~ Early(j)'
    BY <1>6 DEF Early
  <2>4. \A g \in Flushers : k \in Range(hand[g]) => g # j
    BY <1>5
  <2>5. CASE k = j
    <3>1. j \in Range(old) \/ j \in Range(kept)
      BY <1>4
    <3>2. \A g \in Flushers : j \in Range(hand'[g]) <=> g = j /\ j \in Range(old)
      BY <1>1, <2>1, <2>5
    <3> QED BY <1>0, <1>1, <1>4, <2>0, <2>3, <2>5, <3>1, <3>2 DEF JobPlace
  <2>6. CASE k # j /\ k \in Range(parked)
    <3>1. /\ at[k] = "outside" /\ ~ Early(k)'
          /\ \A g \in Flushers : k \notin Range(hand[g])
      BY <2>0, <2>2, <2>6 DEF JobPlace
    <3>2. \A g \in Flushers : k \in Range(hand'[g]) <=> g = j /\ k \in Range(old)
      BY <2>1, <3>1
    <3>3. k \in Range(old) \/ k \in Range(kept)
      BY <1>4, <2>6
    <3> QED BY <1>0, <1>4, <2>0, <3>1, <3>2, <3>3 DEF JobPlace
  <2>7. CASE k # j /\ k \notin Range(parked)
    <3>1. k \notin Range(old) /\ k \notin Range(kept)
      BY <1>4, <2>7
    <3>2. \A g \in Flushers : k \in Range(hand'[g]) <=> k \in Range(hand[g])
      BY <2>1, <2>4, <3>1
    <3> QED BY <2>0, <2>2, <2>7, <3>1, <3>2 DEF JobPlace
  <2> QED BY <2>5, <2>6, <2>7
<1> QED BY <1>7, <1>8 DEF PlaceInv

LEMMA FirstHand ==
    ASSUME PlaceInv, NEW j \in Jobs, worker[j] = "check", UNCHANGED <<at, consumer, parked, told>>,
           worker' = [worker EXCEPT ![j] = "flush"], hand' = [hand EXCEPT ![j] = <<j>>]
    PROVE  PlaceInv'
<1>0. /\ BufferInv /\ hand \in [Flushers -> Seq(Jobs)] /\ worker \in [Jobs -> WorkerStates]
      /\ j \in Flushers
  BY FlusherNames DEF PlaceInv, BufferInv
<1>1. /\ at[j] = "outside" /\ j \notin Range(parked)
      /\ \A f \in Flushers : j \notin Range(hand[f])
  BY DEF PlaceInv, JobPlace, Early
<1>2. /\ hand' \in [Flushers -> Seq(Jobs)] /\ hand'[j] = <<j>> /\ Range(hand'[j]) = {j}
      /\ Distinct(hand'[j]) /\ \A g \in Flushers : g # j => hand'[g] = hand[g]
  BY <1>0, OneResult
<1>3. /\ worker' \in [Jobs -> WorkerStates] /\ worker'[j] = "flush"
      /\ \A k \in Jobs : k # j => worker'[k] = worker[k]
  BY <1>0 DEF WorkerStates
<1>4. Range(hand[j]) = {}
  <2>1. hand[j] = <<>>
    BY DEF PlaceInv, JobPlace, Early
  <2> QED BY <2>1, NoResults
<1>5. BufferInv'
  <2>1. \A g \in Flushers : Distinct(hand'[g])
    BY <1>0, <1>2 DEF BufferInv
  <2>2. hand'["consumer"] # <<>> => consumer' = "flushing"
    BY <1>0, <1>2, FlusherNames DEF BufferInv
  <2> QED BY <1>0, <1>2, <1>3, <2>1, <2>2 DEF BufferInv
<1>6. ASSUME NEW k \in Jobs PROVE JobPlace(k)'
  <2>0. JobPlace(k) /\ at' = at /\ parked' = parked /\ k \in Flushers
    BY FlusherNames DEF PlaceInv
  <2>1. CASE k = j
    <3>1. \A g \in Flushers : j \in Range(hand'[g]) <=> g = j
      BY <1>1, <1>2
    <3>2. ~ Early(j)'
      BY <1>3 DEF Early
    <3> QED BY <1>0, <1>1, <2>0, <2>1, <3>1, <3>2 DEF JobPlace
  <2>2. CASE k # j
    <3>1. \A g \in Flushers : k \in Range(hand'[g]) <=> k \in Range(hand[g])
      BY <1>2, <1>4, <2>2
    <3>2. (Early(k)' <=> Early(k)) /\ hand'[k] = hand[k]
      BY <1>2, <1>3, <2>0, <2>2 DEF Early
    <3> QED BY <2>0, <3>1, <3>2 DEF JobPlace
  <2> QED BY <2>1, <2>2
<1> QED BY <1>5, <1>6 DEF PlaceInv

(* A worker that moves on among its early, or among its later, steps.      *)
LEMMA WorkerMoves ==
    ASSUME worker \in [Jobs -> WorkerStates], NEW j \in Jobs, NEW w \in WorkerStates,
           worker' = [worker EXCEPT ![j] = w], Early(j) <=> w \in {"polling", "check", "park"}
    PROVE  worker' \in [Jobs -> WorkerStates] /\ \A k \in Jobs : Early(k)' <=> Early(k)
BY DEF Early

LEMMA PlaceStep ==
    ASSUME CellInv, PlaceInv, [JobNext \/ Sweep]_vars
    PROVE  CellInv' /\ PlaceInv'
<1>0. /\ BufferInv /\ worker \in [Jobs -> WorkerStates] /\ told \subseteq Jobs
      /\ hand["consumer"] # <<>> => consumer = "flushing"
  BY DEF PlaceInv, BufferInv
<1>a. ASSUME UNCHANGED sessionVars PROVE CellInv' /\ UNCHANGED <<at, consumer>>
  BY <1>a, CellStep DEF sessionVars
<1>b. UNCHANGED worker => \A j \in Jobs : Early(j)' <=> Early(j)
  BY DEF Early
<1>1. CASE SessionRuns
  <2>1. SessionStep(Inputs \ Jobs) /\ UNCHANGED <<worker, parked, hand, told>>
    BY <1>1 DEF SessionRuns, jobVars
  <2>2. Next
    BY <2>1 DEF Next, SessionStep
  <2>3. \A j \in Jobs : at'[j] = "outside" <=> at[j] = "outside"
    BY <2>1, JobsStayOutside
  <2>4. hand["consumer"] # <<>> => consumer' = "flushing"
    BY <1>0, <2>1, FlushIsNotLeft
  <2> QED BY <1>0, <1>b, <2>1, <2>2, <2>3, <2>4, CellStep, ResultsStay
<1>2. ASSUME NEW j \in Jobs, JobFinishes(j) PROVE CellInv' /\ PlaceInv'
  <2>1. worker' \in [Jobs -> WorkerStates] /\ \A k \in Jobs : Early(k)' <=> Early(k)
    BY <1>0, <1>2, WorkerMoves DEF JobFinishes, Early, WorkerStates
  <2> QED BY <1>0, <1>2, <1>a, <2>1, ResultsStay DEF JobFinishes
<1>3. ASSUME NEW j \in Jobs, CheckBusy(j) PROVE CellInv' /\ PlaceInv'
  <2>1. CASE TurnBusy
    <3>1. worker' \in [Jobs -> WorkerStates] /\ \A k \in Jobs : Early(k)' <=> Early(k)
      BY <1>0, <1>3, <2>1, WorkerMoves DEF CheckBusy, Early, WorkerStates
    <3> QED BY <1>0, <1>3, <1>a, <2>1, <3>1, ResultsStay DEF CheckBusy
  <2>2. CASE ~ TurnBusy
    BY <1>3, <1>a, <2>2, FirstHand DEF CheckBusy
  <2> QED BY <2>1, <2>2
<1>4. ASSUME NEW j \in Jobs, Park(j) PROVE CellInv' /\ PlaceInv'
  BY <1>4, <1>a, ParkKeeps DEF Park
<1>5. ASSUME NEW j \in Jobs, Recheck(j) PROVE CellInv' /\ PlaceInv'
  <2>1. CASE TurnBusy
    <3>1. worker' \in [Jobs -> WorkerStates] /\ \A k \in Jobs : Early(k)' <=> Early(k)
      BY <1>0, <1>5, <2>1, WorkerMoves DEF Recheck, Early, WorkerStates
    <3> QED BY <1>0, <1>5, <1>a, <2>1, <3>1, ResultsStay DEF Recheck
  <2>2. CASE ~ TurnBusy
    <3>1. /\ worker' \in [Jobs -> WorkerStates] /\ ~ Early(j) /\ j \in Flushers
          /\ \A k \in Jobs : Early(k)' <=> Early(k)
      BY <1>0, <1>5, <2>2, WorkerMoves, FlusherNames DEF Recheck, Early, WorkerStates
    <3>2. Drain(j) /\ hand[j] = <<>> /\ UNCHANGED <<sessionVars, told>>
      BY <1>5, <2>2 DEF Recheck
    <3> QED BY <1>0, <1>a, <3>1, <3>2, DrainKeeps, FlusherNames
  <2> QED BY <2>1, <2>2
<1>6. ASSUME NEW j \in Jobs, EndWorker(j) PROVE CellInv' /\ PlaceInv'
  <2>1. worker' \in [Jobs -> WorkerStates] /\ \A k \in Jobs : Early(k)' <=> Early(k)
    BY <1>0, <1>6, WorkerMoves DEF EndWorker, Early, WorkerStates
  <2> QED BY <1>0, <1>6, <1>a, <2>1, ResultsStay DEF EndWorker
<1>7. ASSUME NEW j \in Jobs, TellTicket(j) PROVE CellInv' /\ PlaceInv'
  BY <1>0, <1>7, <1>a, <1>b, ResultsStay DEF TellTicket
<1>8. ASSUME NEW f \in Flushers, Enqueue(f) PROVE CellInv' /\ PlaceInv'
  BY <1>8, EnqueueKeeps
<1>9. CASE DrainAtTurnEnd
  <2>1. hand["consumer"] = <<>>
    BY <1>0, <1>9 DEF DrainAtTurnEnd
  <2>2. PlaceInv'
    BY <1>0, <1>9, <1>b, <2>1, DrainKeeps, FlusherNames DEF DrainAtTurnEnd
  <2>3. CellInv'
    BY <1>9 DEF DrainAtTurnEnd, CellInv, CellTypes, In, TailQueued, TailTaken
  <2> QED BY <2>2, <2>3
<1>10. CASE EndFlush
  <2>1. PlaceInv'
    BY <1>0, <1>10, <1>b, ResultsStay DEF EndFlush, jobVars
  <2>2. CellInv'
    BY <1>10 DEF EndFlush, CellInv, CellTypes, In, TailQueued, TailTaken
  <2> QED BY <2>1, <2>2
<1>11. CASE Sweep
  BY <1>0, <1>11, <1>a, <1>b, DrainKeeps, FlusherNames DEF Sweep
<1>12. CASE UNCHANGED vars
  BY <1>0, <1>12, <1>a, <1>b, ResultsStay DEF vars, jobVars
<1> QED
  BY <1>1, <1>2, <1>3, <1>4, <1>5, <1>6, <1>7, <1>8, <1>9, <1>10, <1>11, <1>12
     DEF JobNext, JobStep, WorkerStep

LEMMA PlaceInit == JobInit => CellInv /\ PlaceInv
<1> SUFFICES ASSUME JobInit PROVE CellInv /\ PlaceInv
  OBVIOUS
<1>1. CellInv
  BY SessionInit DEF JobInit, SessionInv
<1>2. /\ worker = [j \in Jobs |-> "polling"] /\ parked = <<>> /\ hand = [f \in Flushers |-> <<>>]
      /\ told = {} /\ at = [i \in Inputs |-> "outside"]
  BY DEF JobInit, Init
<1>3. BufferInv
  BY <1>2, NoResults, MaxParkedAssumption, FlusherNames DEF BufferInv, WorkerStates
<1>4. ASSUME NEW j \in Jobs PROVE JobPlace(j)
  <2>1. /\ Early(j) /\ at[j] = "outside" /\ Range(parked) = {} /\ hand[j] = <<>>
        /\ \A f \in Flushers : Range(hand[f]) = {}
    BY <1>2, NoResults, FlusherNames DEF Early
  <2> QED BY <2>1 DEF JobPlace
<1> QED BY <1>1, <1>3, <1>4 DEF PlaceInv

(* However three threads drain the buffer, a result is in one place.       *)
THEOREM ResultsAreKept == SweptSpec => []ResultOnce
<1>1. ASSUME PlaceInv PROVE ResultOnce
  <2>0. /\ parked \in Seq(Jobs) /\ Distinct(parked) /\ hand \in [Flushers -> Seq(Jobs)]
        /\ \A f \in Flushers : Distinct(hand[f])
    BY <1>1 DEF PlaceInv, BufferInv
  <2>1. JobTypeOK
    BY <1>1 DEF PlaceInv, BufferInv, WorkerStates, JobTypeOK
  <2>2. ASSUME NEW j \in Jobs
        PROVE  Count(j, parked) + Cardinality({f \in Flushers : Count(j, hand[f]) > 0})
               + (IF at[j] = "outside" THEN 0 ELSE 1)
               = IF worker[j] \in {"polling", "check", "park"} THEN 0 ELSE 1
    <3> DEFINE holders == {f \in Flushers : Count(j, hand[f]) > 0}
    <3>0. JobPlace(j) /\ (Early(j) <=> worker[j] \in {"polling", "check", "park"})
      BY <1>1 DEF PlaceInv, Early
    <3>1. Count(j, parked) = IF j \in Range(parked) THEN 1 ELSE 0
      BY <2>0, CountResults
    <3>2. \A f \in Flushers : Count(j, hand[f]) > 0 <=> j \in Range(hand[f])
      <4>1. ASSUME NEW f \in Flushers PROVE Count(j, hand[f]) > 0 <=> j \in Range(hand[f])
        <5>1. Count(j, hand[f]) = IF j \in Range(hand[f]) THEN 1 ELSE 0
          BY <2>0, CountResults
        <5> QED BY <5>1
      <4> QED BY <4>1
    <3>3. holders = {f \in Flushers : j \in Range(hand[f])}
      BY <3>2
    <3> HIDE DEF holders
    <3>4. CASE holders = {}
      <4>1. Cardinality(holders) = 0
        BY <3>4, FS_EmptySet
      <4>2. Early(j) => at[j] = "outside" /\ j \notin Range(parked)
        BY <3>0 DEF JobPlace
      <4>3. ~ Early(j) => \/ at[j] # "outside" /\ j \notin Range(parked)
                          \/ at[j] = "outside" /\ j \in Range(parked)
        BY <3>0, <3>3, <3>4 DEF JobPlace
      <4> QED BY <3>0, <3>1, <4>1, <4>2, <4>3 DEF holders
    <3>5. CASE holders # {}
      <4>1. PICK f \in Flushers : j \in Range(hand[f])
        BY <3>3, <3>5
      <4>2. holders = {f}
        BY <3>0, <3>3, <4>1 DEF JobPlace
      <4>3. Cardinality(holders) = 1
        BY <4>2, FS_Singleton
      <4>4. at[j] = "outside" /\ j \notin Range(parked) /\ ~ Early(j)
        BY <3>0, <4>1 DEF JobPlace
      <4> QED BY <3>0, <3>1, <4>3, <4>4 DEF holders
    <3> QED BY <3>4, <3>5
  <2> QED BY <2>1, <2>2 DEF ResultOnce
<1>2. CellInv /\ PlaceInv /\ [JobNext \/ Sweep]_vars => CellInv' /\ PlaceInv'
  BY PlaceStep
<1> QED BY <1>1, <1>2, PlaceInit, PTL DEF SweptSpec

-------------------------------------------------------------------------------
(* Until an abort a turn shows itself, and whoever looks busy has a batch  *)
(* to come.                                                                *)
Coming == holding # NoCell \/ queue # <<>> \/ consumer \in {"drain", "begin"}

Looking == \E j \in Jobs : worker[j] = "recheck"
Streamed == In("marked") \cup In("collected") \cup In("bare")
Flushing == Looking \/ Coming \/ InTurn \/ consumer = "flush"

CalmInv ==
    /\ aborts \in Nat
    /\ Undisturbed =>
        /\ ~ abortedTurn
        /\ state # "interrupting"
        /\ state = "running" <=> InTurn
        /\ holding # NoCell => queue # <<>> \/ consumer \in {"drain", "begin"}
        /\ state = "collecting" => Streamed # {} \/ Coming
        /\ parked # <<>> => Flushing \/ state = "collecting"

LEMMA PutIsQueued ==
    ASSUME queue \in Seq(Cells), NEW c, Put(c)
    PROVE  queue' # <<>>
<1>1. MaxQueue \in Nat \ {0} /\ Len(queue) \in Nat
  BY BoundsAssumption, LenProperties
<1>2. CASE RoomForOne
  <2>1. queue' = Append(queue, c)
    BY <1>2 DEF Put
  <2> QED BY <2>1
<1>3. CASE ~ RoomForOne
  <2>1. queue' = queue /\ Len(queue) # 0
    BY <1>1, <1>3 DEF Put, RoomForOne
  <2> QED BY <2>1
<1> QED BY <1>2, <1>3

LEMMA QueuedOrHeld ==
    ASSUME queue \in Seq(Cells), NEW c \in Cells, QueueInput(c)
    PROVE  /\ queue' # <<>>
           /\ \E p \in {"queued", "rejected", "looking"} : at' = Moved(c.load, p)
BY PutIsQueued DEF QueueInput, Put

(* A step after which a batch is coming, and that shows no turn falsely.   *)
LEMMA ComesCalm ==
    ASSUME CalmInv, Coming', UNCHANGED <<aborts, abortedTurn>>, Undisturbed' => Undisturbed,
           Undisturbed => /\ state' # "interrupting"
                          /\ state' = "running" <=> InTurn'
                          /\ holding' # NoCell => queue' # <<>> \/ consumer' \in {"drain", "begin"}
    PROVE  CalmInv'
BY DEF CalmInv, Coming, Flushing, Looking, InTurn

(* A step that leaves the session, its queue and its stream batch alone.   *)
LEMMA StaysCalm ==
    ASSUME CalmInv, UNCHANGED <<state, queue, holding, consumer, abortedTurn, aborts, aborter, shutdown>>,
           UNCHANGED at, parked' = parked, \A j \in Jobs : worker[j] = "recheck" => worker'[j] = "recheck"
    PROVE  CalmInv'
BY DEF CalmInv, Coming, Flushing, Looking, InTurn, Undisturbed, Streamed, In

LEMMA CalmStep ==
    ASSUME CellInv, PlaceInv, CalmInv, [JobNext \/ Sweep]_vars
    PROVE  CalmInv'
<1>0. /\ queue \in Seq(Cells) /\ batch \in Seq(Cells) /\ at \in [Inputs -> Places]
      /\ aborts \in Nat /\ holding \in Cells \cup {NoCell}
      /\ Loads(queue) = In("queued") /\ Loads(batch) = In("taken")
      /\ worker \in [Jobs -> WorkerStates]
  BY DEF CellInv, CellTypes, PlaceInv, BufferInv, CalmInv
<1>a. ASSUME UNCHANGED <<aborts, aborter>>, shutdown' = shutdown PROVE Undisturbed' <=> Undisturbed
  BY <1>a DEF Undisturbed
<1>1. ASSUME NEW i \in Inputs \ Jobs, SendInput(i), UNCHANGED jobVars PROVE CalmInv'
  <2>1. Cell({i}) \in Cells /\ QueueInput(Cell({i}))
    BY <1>1, NewCell DEF SendInput
  <2>2. queue' # <<>>
    BY <1>0, <2>1, QueuedOrHeld
  <2> QED BY <1>1, <1>a, <2>2, ComesCalm DEF SendInput, CalmInv, Coming, InTurn
<1>2. CASE FlushStream /\ UNCHANGED jobVars
  <2>1. Cell(Collected) \in Cells /\ QueueInput(Cell(Collected))
    BY <1>2, NewCell DEF FlushStream, Collected, In
  <2>2. queue' # <<>>
    BY <1>0, <2>1, QueuedOrHeld
  <2> QED BY <1>2, <1>a, <2>2, ComesCalm DEF FlushStream, CalmInv, Coming, InTurn
<1>3. ASSUME NEW i \in Inputs \ Jobs, MarkCollecting(i) \/ Collect(i), UNCHANGED jobVars
      PROVE  CalmInv'
  <2>1. PICK p \in {"marked", "collected", "bare"} : at' = Moved({i}, p)
    BY <1>3 DEF MarkCollecting, Collect
  <2>2. Streamed' # {}
    BY <1>0, <2>1 DEF Streamed, In, Moved
  <2>3. \/ state' = state
        \/ state \notin {"running", "interrupting"} /\ state' = "collecting"
    BY <1>3 DEF MarkCollecting, Collect
  <2>4. UNCHANGED <<queue, holding, consumer, abortedTurn, aborts, aborter, shutdown, parked, worker>>
    BY <1>3 DEF MarkCollecting, Collect, jobVars
  <2> QED BY <1>a, <2>2, <2>3, <2>4 DEF CalmInv, Coming, Flushing, Looking, InTurn
<1>4. CASE LookAtTail /\ UNCHANGED jobVars
  <2>1. CASE queue # <<>> /\ UNCHANGED <<queue, at, holding>>
    BY <1>4, <2>1, StaysCalm DEF LookAtTail, jobVars
  <2>2. CASE queue = <<>> /\ holding' = NoCell /\ UNCHANGED queue
    <3>1. holding # NoCell
      BY <1>4 DEF LookAtTail
    <3>2. Undisturbed => consumer \in {"drain", "begin"}
      BY <2>2, <3>1 DEF CalmInv
    <3> QED BY <1>4, <1>a, <2>2, <3>2 DEF LookAtTail, CalmInv, Coming, Flushing, Looking, InTurn
  <2>3. CASE Put(holding) /\ holding' = NoCell
    <3>1. queue' # <<>>
      BY <1>0, <2>3, PutIsQueued
    <3> QED BY <1>4, <1>a, <2>3, <3>1, ComesCalm DEF LookAtTail, CalmInv, Coming, InTurn
  <2> QED BY <1>4, <2>1, <2>2, <2>3 DEF LookAtTail
<1>5. CASE MergeIntoTail /\ UNCHANGED jobVars
  <2>1. holding # NoCell /\ holding' = NoCell
    BY <1>5 DEF MergeIntoTail, CellInv
  <2>2. queue' = queue \/ queue' = Merged(queue)
    BY <1>5 DEF MergeIntoTail
  <2>3. queue # <<>> => queue' # <<>>
    <3>1. queue # <<>> => Merged(queue) # <<>>
      <4>1. DOMAIN Merged(queue) = DOMAIN queue
        BY DEF Merged
      <4>2. queue # <<>> => DOMAIN queue # {}
        BY <1>0, ElementOfSeq, LenProperties, EmptySeq
      <4> QED BY <4>1, <4>2
    <3> QED BY <2>2, <3>1
  <2>4. Undisturbed => queue' # <<>> \/ consumer' \in {"drain", "begin"}
    BY <1>5, <2>1, <2>3 DEF CalmInv, MergeIntoTail
  <2> QED BY <1>5, <1>a, <2>1, <2>4 DEF MergeIntoTail, CalmInv, Coming, Flushing, Looking, InTurn
<1>6. CASE Wake /\ UNCHANGED jobVars
  <2>1. /\ UNCHANGED <<queue, at, holding, abortedTurn, aborts, aborter, shutdown, parked, worker>>
        /\ consumer = "idle" /\ consumer' \in {"armed", "exit"}
        /\ ~ shutdown => state' = state
    BY <1>6 DEF Wake, jobVars
  <2> QED BY <2>1 DEF CalmInv, Coming, Flushing, Looking, InTurn, Streamed, In, Undisturbed
<1>7. CASE Take /\ UNCHANGED jobVars
  <2>1. Undisturbed => state # "running"
    BY <1>7 DEF Take, CalmInv, InTurn
  <2> QED BY <1>7, <1>a, <2>1, ComesCalm DEF Take, CalmInv, Coming, InTurn
<1>8. CASE (FindNothing \/ CloseBatch) /\ UNCHANGED jobVars
  <2>1. /\ UNCHANGED <<state, queue, at, holding, abortedTurn, aborts, aborter, shutdown, parked, worker>>
        /\ \/ consumer = "armed" /\ consumer' = "idle"
           \/ consumer = "drain" /\ consumer' = "begin"
    BY <1>8 DEF FindNothing, CloseBatch, jobVars
  <2> QED BY <2>1 DEF CalmInv, Coming, Flushing, Looking, InTurn, Streamed, In, Undisturbed
<1>9. CASE (BeginTurn \/ AcquireLease \/ TurnGoesOn) /\ UNCHANGED jobVars
  <2>1. UNCHANGED <<queue, at, holding, abortedTurn, aborts, aborter, shutdown, parked, worker>>
    BY <1>9 DEF BeginTurn, AcquireLease, TurnGoesOn, BeginIteration, RequestLLM, RetryLLM,
                CallTools, Answer, EndWithoutAnswer, jobVars
  <2>2. /\ InTurn'
        /\ \/ state' = "running" /\ holding = NoCell
           \/ state' = state /\ InTurn
    BY <1>9 DEF BeginTurn, AcquireLease, TurnGoesOn, BeginIteration, RequestLLM, RetryLLM,
                CallTools, Answer, EndWithoutAnswer, LockFree, InTurn
  <2>3. InTurn => consumer \notin {"drain", "begin"}
    BY DEF InTurn
  <2>4. Undisturbed /\ holding # NoCell => queue # <<>>
    BY <2>2, <2>3 DEF CalmInv
  <2> QED BY <1>a, <2>1, <2>2, <2>4 DEF CalmInv, Flushing
<1>10. CASE FinishTurn /\ UNCHANGED jobVars
  <2>1. /\ UNCHANGED <<queue, at, holding, aborts, aborter, shutdown, parked, worker>>
        /\ holding = NoCell /\ state' \in {"idle", "cooldown"} /\ abortedTurn' = FALSE
        /\ Undisturbed => consumer' = "flush"
        /\ consumer' \in {"notify", "flush"}
    BY <1>10 DEF FinishTurn, LockFree, CalmInv, jobVars
  <2> QED BY <2>1 DEF CalmInv, Flushing, Looking, InTurn, Undisturbed
<1>11. CASE NotifyComplete /\ UNCHANGED jobVars
  <2>1. /\ UNCHANGED <<state, queue, holding, abortedTurn, aborts, aborter, shutdown, parked, worker>>
        /\ consumer = "notify" /\ consumer' = "idle" /\ at' = Moved(Loads(batch), "done")
    BY <1>11 DEF NotifyComplete, Notified, jobVars
  <2>2. Streamed' = Streamed
    <3>1. \A k \in Loads(batch) : at[k] = "taken"
      BY <1>0 DEF In
    <3> QED BY <1>0, <2>1, <3>1 DEF Streamed, Moved, In
  <2> QED BY <2>1, <2>2 DEF CalmInv, Coming, Flushing, Looking, InTurn, Undisturbed
<1>12. CASE (DropStream \/ Abort \/ Shutdown) /\ UNCHANGED jobVars
  <2>1. aborts' \in Nat /\ ~ Undisturbed'
    BY <1>0, <1>12 DEF DropStream, Abort, Shutdown, Undisturbed
  <2> QED BY <2>1 DEF CalmInv
<1>13. CASE SessionRuns
  BY <1>1, <1>2, <1>3, <1>4, <1>5, <1>6, <1>7, <1>8, <1>9, <1>10, <1>11, <1>12, <1>13
     DEF SessionRuns, SessionStep, ConsumerStep
<1>14. ASSUME NEW j \in Jobs, JobFinishes(j) \/ CheckBusy(j) \/ EndWorker(j) \/ TellTicket(j)
       PROVE  CalmInv'
  <2>1. UNCHANGED <<sessionVars, parked>> /\ \A k \in Jobs : worker[k] = "recheck" => worker'[k] = "recheck"
    BY <1>0, <1>14 DEF JobFinishes, CheckBusy, EndWorker, TellTicket
  <2> QED BY <2>1, StaysCalm DEF sessionVars
<1>15. ASSUME NEW j \in Jobs, Park(j) PROVE CalmInv'
  <2>1. UNCHANGED sessionVars /\ worker'[j] = "recheck"
    BY <1>0, <1>15 DEF Park, AfterParking
  <2>2. Flushing'
    BY <2>1 DEF Flushing, Looking
  <2> QED BY <2>1, <2>2 DEF CalmInv, Coming, Undisturbed, Streamed, In, sessionVars, InTurn, Flushing
<1>b. ASSUME UNCHANGED sessionVars, parked' = <<>> PROVE CalmInv'
  BY <1>b DEF CalmInv, Coming, Undisturbed, Streamed, In, sessionVars, InTurn, Flushing, Looking
<1>16. ASSUME NEW j \in Jobs, Recheck(j) PROVE CalmInv'
  <2>1. CASE TurnBusy
    <3>1. UNCHANGED <<sessionVars, parked>>
      BY <1>16, <2>1 DEF Recheck
    <3>2. Undisturbed => Coming \/ InTurn \/ state = "collecting"
      BY <2>1 DEF TurnBusy, CalmInv, Coming
    <3> QED BY <3>1, <3>2 DEF CalmInv, Coming, Flushing, InTurn, Undisturbed, Streamed, In, sessionVars
  <2>2. CASE ~ TurnBusy
    BY <1>16, <1>b, <2>2 DEF Recheck, Drain, LeftByDrain
  <2> QED BY <2>1, <2>2
<1>17. ASSUME NEW f \in Flushers, Enqueue(f) PROVE CalmInv'
  <2>1. hand[f] \in Seq(Jobs) /\ hand[f] # <<>> /\ QueueInput(JobCell(hand[f]))
    BY <1>17 DEF Enqueue, PlaceInv, BufferInv
  <2>2. queue' # <<>>
    BY <1>0, <2>1, JobCellFacts, QueuedOrHeld
  <2> QED BY <1>17, <1>a, <2>2, ComesCalm DEF Enqueue, CalmInv, Coming, InTurn
<1>18. CASE DrainAtTurnEnd
  <2>1. /\ UNCHANGED <<state, queue, at, holding, abortedTurn, aborts, aborter, shutdown>>
        /\ consumer = "flush" /\ consumer' = "flushing" /\ parked' = <<>>
    BY <1>18 DEF DrainAtTurnEnd, Drain, LeftByDrain
  <2> QED BY <2>1 DEF CalmInv, Coming, Undisturbed, Streamed, In, InTurn, Flushing, Looking
<1>19. CASE EndFlush
  <2>1. /\ UNCHANGED <<state, queue, at, holding, abortedTurn, aborts, aborter, shutdown, parked, worker>>
        /\ consumer = "flushing" /\ consumer' = "notify"
    BY <1>19 DEF EndFlush, jobVars
  <2> QED BY <2>1 DEF CalmInv, Coming, Flushing, Looking, InTurn, Undisturbed, Streamed, In
<1>20. CASE Sweep
  BY <1>20, <1>b DEF Sweep, Drain, LeftByDrain
<1>21. CASE UNCHANGED vars
  BY <1>21, StaysCalm DEF vars, sessionVars, jobVars
<1> QED
  BY <1>13, <1>14, <1>15, <1>16, <1>17, <1>18, <1>19, <1>20, <1>21 DEF JobNext, JobStep, WorkerStep

(* Until an abort or a removal no parked result waits for the sweep, but   *)
(* behind a bare prompt: also where the sweep never comes.                 *)
THEOREM ParkedResultsAreFetched ==
    /\ JobSpec => []ParkedHasFlusher
    /\ SweptSpec => []ParkedHasFlusher
<1> DEFINE IInv == CellInv /\ PlaceInv /\ CalmInv
<1>1. JobInit => IInv
  <2>1. JobInit => CalmInv
    BY DEF JobInit, Init, CalmInv, InTurn
  <2> QED BY <2>1, PlaceInit
<1>2. IInv /\ [JobNext \/ Sweep]_vars => IInv'
  BY PlaceStep, CalmStep
<1>3. IInv /\ [JobNext]_vars => IInv'
  BY <1>2
<1>4. IInv => ParkedHasFlusher
  <2>1. ASSUME CalmInv, Undisturbed, parked # <<>> PROVE FlushComes \/ LeftCollecting
    <3>1. CASE Flushing
      BY <3>1 DEF Flushing, Looking, Coming, FlushComes
    <3>2. CASE Coming
      BY <3>2 DEF Coming, FlushComes
    <3>3. CASE state = "collecting" /\ Streamed # {}
      BY <3>3 DEF Streamed, Collected, FlushComes, LeftCollecting
    <3> QED BY <2>1, <3>1, <3>2, <3>3 DEF CalmInv
  <2> QED BY <2>1 DEF ParkedHasFlusher
<1> HIDE DEF IInv
<1> QED BY <1>1, <1>2, <1>3, <1>4, PTL DEF JobSpec, SweptSpec

-------------------------------------------------------------------------------
LEMMA EnqueueIsAPipeStep ==
    ASSUME CellInv, PlaceInv, NEW f \in Flushers, Enqueue(f)
    PROVE  [Pipe!PipeNext]_shownAt
<1> DEFINE s == hand[f]
<1>1. /\ at \in [Inputs -> Places] /\ queue \in Seq(Cells)
      /\ s \in Seq(Jobs) /\ s # <<>> /\ QueueInput(JobCell(s))
  BY DEF CellInv, CellTypes, PlaceInv, BufferInv, Enqueue
<1>2. /\ JobCell(s) \in Cells /\ JobCell(s).load = Range(s)
      /\ Range(s) \in SUBSET Inputs /\ Range(s) \subseteq Jobs
  BY <1>1, JobCellFacts, ResultsIn
<1>3. \A j \in Range(s) : at[j] = "outside"
  BY <1>2 DEF PlaceInv, JobPlace
<1> HIDE DEF s
<1>4. PICK p \in {"queued", "rejected", "looking"} : at' = Moved(Range(s), p)
  BY <1>1, <1>2, QueuedOrHeld
<1>5. Allowed(Range(s), p) /\ p \in Places
  BY <1>3, ShownPlaces DEF Allowed, Places
<1> QED BY <1>1, <1>2, <1>4, <1>5, MoveIsAPipeStep

(* The session keeps its promise with job results among its inputs, which  *)
(* come in batches and from several threads.                               *)
THEOREM FeedbackIsAPipe == SweptSpec => Pipe!PipeInit /\ [][Pipe!PipeNext]_shownAt
<1>1. JobInit => Pipe!PipeInit
  BY ShownPlaces DEF JobInit, Init, shownAt, Pipe!PipeInit
<1>2. ASSUME CellInv, PlaceInv, [JobNext \/ Sweep]_vars
      PROVE  [Pipe!PipeNext]_shownAt
  <2>1. CASE SessionRuns
    <3>1. Next
      BY <2>1 DEF SessionRuns, Next, SessionStep
    <3> QED BY <1>2, <3>1, PipeStep
  <2>2. ASSUME NEW f \in Flushers, Enqueue(f) PROVE [Pipe!PipeNext]_shownAt
    BY <1>2, <2>2, EnqueueIsAPipeStep
  <2>3. ASSUME UNCHANGED at PROVE UNCHANGED shownAt
    BY <2>3 DEF shownAt
  <2>4. ASSUME NEW j \in Jobs, JobFinishes(j) \/ WorkerStep(j) PROVE UNCHANGED at
    BY <2>4 DEF JobFinishes, WorkerStep, CheckBusy, Park, Recheck, EndWorker, TellTicket, sessionVars
  <2>5. DrainAtTurnEnd \/ EndFlush \/ Sweep \/ UNCHANGED vars => UNCHANGED at
    BY DEF DrainAtTurnEnd, EndFlush, Sweep, vars, sessionVars
  <2> QED BY <1>2, <2>1, <2>2, <2>3, <2>4, <2>5 DEF JobNext, JobStep
<1>3. CellInv /\ PlaceInv /\ [JobNext \/ Sweep]_vars => CellInv' /\ PlaceInv'
  BY PlaceStep
<1> QED BY <1>1, <1>2, <1>3, PlaceInit, PTL DEF SweptSpec
===============================================================================
