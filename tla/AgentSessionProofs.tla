--------------------------- MODULE AgentSessionProofs ---------------------------
(***************************************************************************)
(* Each input is in one cell until its callback runs, the session is busy  *)
(* while a turn runs, an aborted turn starts no iteration more, and every  *)
(* step is one of the abstract InputPipe: for all inputs and bounds.       *)
(***************************************************************************)
EXTENDS AgentSession, FiniteSetTheorems, SequenceTheorems, WellFoundedInduction, TLAPS

-------------------------------------------------------------------------------
(* Sequences of cells.                                                     *)

(* No input is in two cells.                                               *)
Apart(cells) ==
    \A m, n \in DOMAIN cells : cells[m].load \cap cells[n].load # {} => m = n

LEMMA CellFacts ==
    ASSUME NEW c \in Cells
    PROVE  /\ c.load \subseteq Inputs /\ c.load # {} /\ c.kind \in Kinds
           /\ c.route \in Range(RouteOf) \cup {NoRoute} /\ c # NoCell
BY SentinelAssumption DEF Cells

LEMMA NewCell ==
    ASSUME NEW S \in SUBSET Inputs, S # {}
    PROVE  Cell(S) \in Cells /\ Cell(S).load = S
<1> DEFINE i == CHOOSE j \in S : TRUE
<1>1. i \in S
  OBVIOUS
<1>2. i \in Inputs
  BY <1>1
<1>3. KindOf[i] \in Kinds /\ RouteOf[i] \in Range(RouteOf)
  BY <1>2, InputsAssumption DEF Range
<1>4. Cell(S) = [kind |-> KindOf[i], route |-> RouteOf[i], load |-> S]
  BY DEF Cell
<1> HIDE DEF i
<1> QED BY <1>3, <1>4 DEF Cells

LEMMA NoCells == /\ <<>> \in Seq(Cells) /\ Len(<<>>) = 0
                 /\ Loads(<<>>) = {} /\ Apart(<<>>)
BY DEF Loads, Apart

LEMMA LoadsOfCells ==
    ASSUME NEW cells \in Seq(Cells)
    PROVE  /\ Loads(cells) \subseteq Inputs
           /\ \A n \in DOMAIN cells : /\ cells[n] \in Cells
                                      /\ cells[n].load \subseteq Loads(cells)
           /\ \A i : i \in Loads(cells) <=> \E n \in DOMAIN cells : i \in cells[n].load
           /\ DOMAIN cells = 1 .. Len(cells) /\ Len(cells) \in Nat
BY LenProperties, ElementOfSeq, CellFacts DEF Loads

LEMMA CountCells ==
    ASSUME NEW cells \in Seq(Cells), Apart(cells), NEW i \in Inputs
    PROVE  Cardinality(CellsWith(i, cells)) = IF i \in Loads(cells) THEN 1 ELSE 0
<1>1. CASE i \in Loads(cells)
  <2>1. PICK n \in DOMAIN cells : i \in cells[n].load
    BY <1>1, LoadsOfCells
  <2>2. CellsWith(i, cells) = {n}
    BY <2>1 DEF CellsWith, Apart
  <2> QED BY <1>1, <2>2, FS_Singleton
<1>2. CASE i \notin Loads(cells)
  <2>1. CellsWith(i, cells) = {}
    BY <1>2, LoadsOfCells DEF CellsWith
  <2> QED BY <1>2, <2>1, FS_EmptySet
<1> QED BY <1>1, <1>2

LEMMA AppendCell ==
    ASSUME NEW cells \in Seq(Cells), NEW c \in Cells, Apart(cells), Loads(cells) \cap c.load = {}
    PROVE  /\ Append(cells, c) \in Seq(Cells) /\ Len(Append(cells, c)) = Len(cells) + 1
           /\ Apart(Append(cells, c)) /\ Loads(Append(cells, c)) = Loads(cells) \cup c.load
           /\ \A n \in DOMAIN cells : /\ n \in DOMAIN Append(cells, c)
                                      /\ Append(cells, c)[n] = cells[n]
           /\ \E n \in DOMAIN Append(cells, c) : Append(cells, c)[n] = c
<1> DEFINE new == Append(cells, c)
           k == Len(cells) + 1
<1>1. /\ new \in Seq(Cells) /\ Len(new) = k /\ new[k] = c
      /\ \A n \in 1 .. Len(cells) : new[n] = cells[n]
  BY AppendProperties
<1>2. Len(cells) \in Nat /\ DOMAIN cells = 1 .. Len(cells) /\ DOMAIN new = 1 .. k
  BY <1>1, LenProperties
<1>3. \A n \in DOMAIN new : n = k \/ (n \in DOMAIN cells /\ new[n] = cells[n])
  BY <1>1, <1>2
<1>4. k \in DOMAIN new /\ \A n \in DOMAIN cells : n \in DOMAIN new /\ new[n] = cells[n]
  BY <1>1, <1>2
<1>5. Loads(new) = Loads(cells) \cup c.load
  BY <1>1, <1>3, <1>4 DEF Loads
<1>6. Apart(new)
  <2>1. \A n \in DOMAIN cells : cells[n].load \cap c.load = {}
    BY LoadsOfCells
  <2> HIDE DEF new, k
  <2> QED BY <1>1, <1>3, <1>4, <2>1 DEF Apart
<1> QED BY <1>1, <1>4, <1>5, <1>6

LEMMA TakeCell ==
    ASSUME NEW cells \in Seq(Cells), Apart(cells), cells # <<>>
    PROVE  /\ Head(cells) \in Cells /\ Head(cells).load \subseteq Loads(cells)
           /\ Tail(cells) \in Seq(Cells) /\ Len(Tail(cells)) = Len(cells) - 1
           /\ Apart(Tail(cells)) /\ Loads(Tail(cells)) = Loads(cells) \ Head(cells).load
           /\ \A n \in DOMAIN cells : \/ cells[n] = Head(cells)
                                      \/ \E m \in DOMAIN Tail(cells) : Tail(cells)[m] = cells[n]
<1>1. /\ Len(cells) \in Nat \ {0} /\ DOMAIN cells = 1 .. Len(cells)
      /\ Tail(cells) \in Seq(Cells) /\ Len(Tail(cells)) = Len(cells) - 1
      /\ Head(cells) = cells[1] /\ DOMAIN Tail(cells) = 1 .. Len(cells) - 1
      /\ \A m \in DOMAIN Tail(cells) : Tail(cells)[m] = cells[m + 1] /\ m + 1 \in DOMAIN cells
  BY HeadTailProperties, EmptySeq, LenProperties
<1>2. /\ 1 \in DOMAIN cells
      /\ \A n \in DOMAIN cells : n # 1 => n - 1 \in DOMAIN Tail(cells) /\ (n - 1) + 1 = n
  BY <1>1
<1>3. \A n \in DOMAIN cells : n # 1 => Tail(cells)[n - 1] = cells[n] /\ n - 1 \in DOMAIN Tail(cells)
  BY <1>1, <1>2
<1>4. Head(cells) \in Cells /\ Head(cells).load \subseteq Loads(cells)
  BY <1>1, <1>2, LoadsOfCells
<1>5. Apart(Tail(cells))
  <2>1. ASSUME NEW m \in DOMAIN Tail(cells), NEW n \in DOMAIN Tail(cells),
               Tail(cells)[m].load \cap Tail(cells)[n].load # {}
        PROVE  m = n
    <3>1. m + 1 = n + 1
      BY <1>1, <2>1 DEF Apart
    <3> QED BY <1>1, <3>1
  <2> QED BY <2>1 DEF Apart
<1>6. Loads(Tail(cells)) = Loads(cells) \ Head(cells).load
  <2>1. ASSUME NEW i, i \in Loads(Tail(cells)) PROVE i \in Loads(cells) \ Head(cells).load
    <3>1. PICK m \in DOMAIN Tail(cells) : i \in Tail(cells)[m].load
      BY <1>1, <2>1, LoadsOfCells
    <3>2. m + 1 \in DOMAIN cells /\ i \in cells[m + 1].load /\ m + 1 # 1
      BY <1>1, <3>1
    <3>3. i \notin cells[1].load
      BY <1>2, <3>2 DEF Apart
    <3> QED BY <1>1, <3>2, <3>3, LoadsOfCells
  <2>2. ASSUME NEW i, i \in Loads(cells) \ Head(cells).load PROVE i \in Loads(Tail(cells))
    <3>1. PICK n \in DOMAIN cells : i \in cells[n].load
      BY <2>2, LoadsOfCells
    <3>2. n # 1
      BY <1>1, <2>2, <3>1
    <3> QED BY <1>1, <1>3, <3>1, <3>2, LoadsOfCells
  <2> QED BY <2>1, <2>2
<1> QED BY <1>1, <1>2, <1>3, <1>4, <1>5, <1>6

LEMMA MergeCell ==
    ASSUME NEW cells \in Seq(Cells), Apart(cells), tail # {}, holding \in Cells,
           Loads(cells) \cap holding.load = {}, \E n \in DOMAIN cells : cells[n].load = tail
    PROVE  /\ Merged(cells) \in Seq(Cells) /\ Len(Merged(cells)) = Len(cells)
           /\ Apart(Merged(cells)) /\ Loads(Merged(cells)) = Loads(cells) \cup holding.load
<1> DEFINE new == Merged(cells)
<1>1. PICK k \in DOMAIN cells : cells[k].load = tail
  OBVIOUS
<1>2. \A n \in DOMAIN cells : cells[n].load = tail => n = k
  BY <1>1 DEF Apart
<1>3. DOMAIN new = DOMAIN cells /\ DOMAIN cells = 1 .. Len(cells) /\ Len(cells) \in Nat
  BY LenProperties DEF Merged
<1>4. \A n \in DOMAIN cells : cells[n] \in Cells
  BY LoadsOfCells
<1>5. new[k] = [cells[k] EXCEPT !.load = tail \cup holding.load]
  BY <1>1 DEF Merged, MergedLoad
<1>6. new[k] \in Cells /\ new[k].load = tail \cup holding.load
  <2>1. tail \cup holding.load \in (SUBSET Inputs) \ {{}}
    BY <1>1, <1>4, CellFacts
  <2> QED BY <1>1, <1>4, <1>5, <2>1 DEF Cells
<1>7. \A n \in DOMAIN cells : n # k => new[n] = cells[n]
  BY <1>2 DEF Merged
<1> HIDE DEF new
<1>8. \A n \in DOMAIN new : new[n] \in Cells
  BY <1>3, <1>4, <1>6, <1>7
<1>9. new \in Seq(Cells) /\ Len(new) = Len(cells)
  <2>1. new \in [1 .. Len(cells) -> Cells]
    BY <1>3, <1>8 DEF new, Merged
  <2> QED BY <1>3, <2>1
<1>10. Loads(new) = Loads(cells) \cup holding.load
  <2>1. ASSUME NEW i, i \in Loads(new) PROVE i \in Loads(cells) \cup holding.load
    BY <1>1, <1>3, <1>6, <1>7, <2>1 DEF Loads
  <2>2. ASSUME NEW i, i \in Loads(cells) \cup holding.load PROVE i \in Loads(new)
    BY <1>1, <1>3, <1>6, <1>7, <2>2 DEF Loads
  <2> QED BY <2>1, <2>2
<1>11. Apart(new)
  <2>1. \A n \in DOMAIN cells : cells[n].load \cap holding.load = {}
    BY LoadsOfCells
  <2> QED BY <1>1, <1>3, <1>6, <1>7, <2>1 DEF Apart
<1> QED BY <1>9, <1>10, <1>11 DEF new

-------------------------------------------------------------------------------
(* The inductive invariant: where the cells are.  The queue holds what was *)
(* accepted, the consumer's batch what was taken, a thread inside          *)
(* _merge_terminal_queue_input its own cell; the cell it found to merge    *)
(* into is still queued, or drained into a batch that has not begun.       *)
TailQueued == \E n \in DOMAIN queue : queue[n].load = tail
TailTaken == \E n \in DOMAIN batch : batch[n].load = tail

CellTypes ==
    /\ queue \in Seq(Cells) /\ Len(queue) <= MaxQueue
    /\ batch \in Seq(Cells)
    /\ at \in [Inputs -> Places]
    /\ holding \in Cells \cup {NoCell} /\ tail \subseteq Inputs

CellInv ==
    /\ CellTypes
    /\ Apart(queue) /\ Loads(queue) = In("queued")
    /\ Apart(batch) /\ Loads(batch) = In("taken")
    /\ holding # NoCell => holding.load = In("looking")
    /\ holding = NoCell => In("looking") = {} /\ tail = {}
    /\ tail # {} => TailQueued \/ (TailTaken /\ consumer \in {"drain", "begin"})

cellVars == <<queue, batch, at, holding, tail>>

LEMMA MovedFacts ==
    ASSUME at \in [Inputs -> Places], NEW S \in SUBSET Inputs, NEW p \in Places, at' = Moved(S, p)
    PROVE  /\ at' \in [Inputs -> Places]
           /\ In(p)' = In(p) \cup S
           /\ \A q \in Places : q # p => {i \in Inputs : at'[i] = q} = In(q) \ S
BY DEF Moved, In

(* A cell is put: at the tail of the queue, or not at all.                 *)
LEMMA PutFacts ==
    ASSUME CellInv, NEW c \in Cells, Put(c), c.load \cap In("queued") = {},
           c.load \cap In("taken") = {}
    PROVE  /\ queue' \in Seq(Cells) /\ Len(queue') <= MaxQueue
           /\ at' \in [Inputs -> Places]
           /\ Apart(queue') /\ Loads(queue') = In("queued")' /\ In("taken")' = In("taken")
           /\ In("looking")' = In("looking") \ c.load
           /\ \A n \in DOMAIN queue : n \in DOMAIN queue' /\ queue'[n] = queue[n]
<1>0. /\ queue \in Seq(Cells) /\ Len(queue) <= MaxQueue /\ at \in [Inputs -> Places]
      /\ Apart(queue) /\ Loads(queue) = In("queued") /\ MaxQueue \in Nat
      /\ c.load \in SUBSET Inputs /\ Len(queue) \in Nat
  BY CellFacts, BoundsAssumption, LenProperties DEF CellInv, CellTypes
<1>1. CASE RoomForOne
  <2>1. queue' = Append(queue, c) /\ at' = Moved(c.load, "queued")
    BY <1>1 DEF Put
  <2>2. Len(queue) + 1 <= MaxQueue
    BY <1>0, <1>1 DEF RoomForOne
  <2>3. /\ at' \in [Inputs -> Places] /\ In("queued")' = In("queued") \cup c.load
        /\ In("taken")' = In("taken") /\ In("looking")' = In("looking") \ c.load
    BY <1>0, <2>1, MovedFacts DEF Places, In
  <2>4. Loads(queue) \cap c.load = {}
    BY <1>0
  <2>5. /\ queue' \in Seq(Cells) /\ Len(queue') = Len(queue) + 1 /\ Apart(queue')
        /\ Loads(queue') = Loads(queue) \cup c.load
        /\ \A n \in DOMAIN queue : n \in DOMAIN queue' /\ queue'[n] = queue[n]
    BY <1>0, <2>1, <2>4, AppendCell
  <2> QED BY <1>0, <2>2, <2>3, <2>5
<1>2. CASE ~ RoomForOne
  <2>1. queue' = queue /\ at' = Moved(c.load, "rejected")
    BY <1>2 DEF Put
  <2>2. /\ at' \in [Inputs -> Places] /\ In("queued")' = In("queued")
        /\ In("taken")' = In("taken") /\ In("looking")' = In("looking") \ c.load
    BY <1>0, <2>1, MovedFacts DEF Places, In
  <2> QED BY <1>0, <2>1, <2>2
<1> QED BY <1>1, <1>2

(* queue_input of a cell whose inputs are nowhere in the session yet.      *)
LEMMA QueueInputFacts ==
    ASSUME CellInv, NEW c \in Cells, QueueInput(c), UNCHANGED <<tail, batch, consumer>>,
           c.load \cap In("queued") = {}, c.load \cap In("taken") = {}
    PROVE  CellInv'
<1>0. /\ CellTypes /\ holding = NoCell /\ In("looking") = {} /\ tail = {}
      /\ Apart(queue) /\ Loads(queue) = In("queued")
      /\ Apart(batch) /\ Loads(batch) = In("taken")
      /\ at \in [Inputs -> Places] /\ c.load \in SUBSET Inputs /\ c # NoCell
  BY CellFacts DEF CellInv, CellTypes, QueueInput, LockFree
<1>1. CASE c.kind = "terminal" /\ queue # <<>>
  <2>1. holding' = c /\ at' = Moved(c.load, "looking") /\ queue' = queue
    BY <1>1 DEF QueueInput
  <2>2. /\ at' \in [Inputs -> Places] /\ In("looking")' = c.load
        /\ In("taken")' = In("taken") /\ In("queued")' = In("queued")
    BY <1>0, <2>1, MovedFacts DEF Places, In
  <2> QED BY <1>0, <2>1, <2>2 DEF CellInv, CellTypes
<1>2. CASE ~ (c.kind = "terminal" /\ queue # <<>>)
  <2>1. Put(c) /\ holding' = holding
    BY <1>2 DEF QueueInput
  <2> QED BY <1>0, <2>1, PutFacts DEF CellInv, CellTypes
<1> QED BY <1>1, <1>2

LEMMA CellStep ==
    ASSUME CellInv, [Next]_sessionVars
    PROVE  CellInv'
<1>0. /\ CellTypes /\ Apart(queue) /\ Loads(queue) = In("queued")
      /\ Apart(batch) /\ Loads(batch) = In("taken")
      /\ queue \in Seq(Cells) /\ batch \in Seq(Cells) /\ at \in [Inputs -> Places]
      /\ holding \in Cells \cup {NoCell} /\ tail \subseteq Inputs
      /\ holding = NoCell => In("looking") = {} /\ tail = {}
      /\ tail # {} => TailQueued \/ (TailTaken /\ consumer \in {"drain", "begin"})
      /\ Len(queue) <= MaxQueue /\ Len(queue) \in Nat /\ MaxQueue \in Nat
  BY BoundsAssumption, LenProperties DEF CellInv, CellTypes
<1>1. ASSUME NEW i \in Inputs, SendInput(i) PROVE CellInv'
  <2>1. Cell({i}) \in Cells /\ Cell({i}).load = {i}
    BY NewCell
  <2>2. {i} \cap In("queued") = {} /\ {i} \cap In("taken") = {}
    BY <1>1 DEF SendInput, In
  <2> QED BY <1>1, <2>1, <2>2, QueueInputFacts DEF SendInput
<1>2. CASE FlushStream
  <2>1. Cell(Collected) \in Cells /\ Cell(Collected).load = Collected
    BY <1>2, NewCell DEF FlushStream, Collected, In
  <2>2. Collected \cap In("queued") = {} /\ Collected \cap In("taken") = {}
    BY DEF Collected, In
  <2> QED BY <1>2, <2>1, <2>2, QueueInputFacts DEF FlushStream
<1>a. ASSUME NEW S \in SUBSET Inputs, S \cap (In("queued") \cup In("taken") \cup In("looking")) = {},
             NEW p \in Places \ {"queued", "taken", "looking"}, at' = Moved(S, p),
             UNCHANGED <<queue, batch, holding, tail, consumer>>
      PROVE  CellInv'
  <2>1. /\ at' \in [Inputs -> Places] /\ In("looking")' = In("looking")
        /\ In("taken")' = In("taken") /\ In("queued")' = In("queued")
    BY <1>0, <1>a, MovedFacts DEF Places, In
  <2> QED BY <1>a, <2>1 DEF CellInv, CellTypes, TailQueued, TailTaken
<1>3. ASSUME NEW i \in Inputs, MarkCollecting(i) \/ Collect(i) PROVE CellInv'
  <2>1. {i} \cap (In("queued") \cup In("taken") \cup In("looking")) = {}
    BY <1>3 DEF MarkCollecting, Collect, In
  <2>2. PICK p \in {"marked", "collected", "bare"} : at' = Moved({i}, p)
    BY <1>3 DEF MarkCollecting, Collect
  <2>3. UNCHANGED <<queue, batch, holding, tail, consumer>>
    BY <1>3 DEF MarkCollecting, Collect
  <2> QED BY <1>a, <2>1, <2>2, <2>3 DEF Places
<1>4. CASE DropStream
  <2>1. Collected \cap (In("queued") \cup In("taken") \cup In("looking")) = {}
        /\ Collected \in SUBSET Inputs
    BY DEF Collected, In
  <2> QED BY <1>4, <1>a, <2>1 DEF DropStream, Places
<1>5. CASE LookAtTail
  <2>0. /\ holding \in Cells /\ holding.load = In("looking") /\ tail = {}
        /\ UNCHANGED <<batch, consumer>> /\ holding.load \in SUBSET Inputs
    BY <1>0, <1>5, CellFacts DEF LookAtTail, CellInv
  <2>1. CASE queue = <<>> /\ at' = Moved(holding.load, "crashed") /\ holding' = NoCell
             /\ UNCHANGED <<queue, tail>>
    <3>1. /\ at' \in [Inputs -> Places] /\ In("looking")' = {}
          /\ In("taken")' = In("taken") /\ In("queued")' = In("queued")
      BY <1>0, <2>0, <2>1, MovedFacts DEF Places, In
    <3> QED BY <1>0, <2>0, <2>1, <3>1 DEF CellInv, CellTypes
  <2>2. CASE queue # <<>> /\ tail' = Last(queue).load /\ UNCHANGED <<queue, at, holding>>
    <3>1. Len(queue) \in DOMAIN queue
      BY <1>0, <2>2, EmptySeq, LenProperties
    <3>2. queue[Len(queue)] \in Cells /\ Last(queue) = queue[Len(queue)]
      BY <1>0, <3>1, LoadsOfCells DEF Last
    <3>3. tail' \subseteq Inputs /\ TailQueued'
      BY <2>2, <3>1, <3>2, CellFacts DEF TailQueued
    <3> QED BY <1>0, <2>0, <2>2, <3>3, CellFacts DEF CellInv, CellTypes, In
  <2>3. CASE Put(holding) /\ holding' = NoCell /\ UNCHANGED tail
    <3>1. holding.load \cap In("queued") = {} /\ holding.load \cap In("taken") = {}
      BY <2>0 DEF In
    <3> QED BY <1>0, <2>0, <2>3, <3>1, PutFacts DEF CellInv, CellTypes
  <2> QED BY <1>5, <2>1, <2>2, <2>3 DEF LookAtTail
<1>6. CASE MergeIntoTail
  <2>0. /\ tail # {} /\ holding # NoCell /\ holding \in Cells /\ holding.load = In("looking")
        /\ holding' = NoCell /\ tail' = {} /\ UNCHANGED consumer
        /\ holding.load \in SUBSET Inputs
    BY <1>0, <1>6, CellFacts DEF MergeIntoTail, CellInv
  <2>1. /\ Loads(queue) \cap holding.load = {} /\ Loads(batch) \cap holding.load = {}
        /\ Loads(queue) \cap Loads(batch) = {}
    BY <1>0, <2>0 DEF In
  <2>2. /\ tail \subseteq Loads(queue) => TailQueued
        /\ tail \subseteq Loads(batch) => TailTaken
    BY <1>0, <2>0, <2>1, LoadsOfCells DEF TailQueued, TailTaken
  <2>3. CASE tail \subseteq Loads(queue) /\ queue' = Merged(queue)
             /\ at' = Moved(holding.load, "queued") /\ UNCHANGED batch
    <3>1. /\ at' \in [Inputs -> Places] /\ In("looking")' = {}
          /\ In("taken")' = In("taken") /\ In("queued")' = In("queued") \cup holding.load
      BY <1>0, <2>0, <2>3, MovedFacts DEF Places, In
    <3>2. /\ queue' \in Seq(Cells) /\ Len(queue') = Len(queue) /\ Apart(queue')
          /\ Loads(queue') = Loads(queue) \cup holding.load
      BY <1>0, <2>0, <2>1, <2>2, <2>3, MergeCell DEF TailQueued
    <3> QED BY <1>0, <2>0, <2>3, <3>1, <3>2 DEF CellInv, CellTypes
  <2>4. CASE tail \subseteq Loads(batch) /\ batch' = Merged(batch)
             /\ at' = Moved(holding.load, "taken") /\ UNCHANGED queue
    <3>1. /\ at' \in [Inputs -> Places] /\ In("looking")' = {}
          /\ In("queued")' = In("queued") /\ In("taken")' = In("taken") \cup holding.load
      BY <1>0, <2>0, <2>4, MovedFacts DEF Places, In
    <3>2. /\ batch' \in Seq(Cells) /\ Apart(batch')
          /\ Loads(batch') = Loads(batch) \cup holding.load
      BY <1>0, <2>0, <2>1, <2>2, <2>4, MergeCell DEF TailTaken
    <3> QED BY <1>0, <2>0, <2>4, <3>1, <3>2 DEF CellInv, CellTypes
  <2>5. CASE at' = Moved(holding.load, "missed") /\ UNCHANGED <<queue, batch>>
    <3>1. /\ at' \in [Inputs -> Places] /\ In("looking")' = {}
          /\ In("queued")' = In("queued") /\ In("taken")' = In("taken")
      BY <1>0, <2>0, <2>5, MovedFacts DEF Places, In
    <3> QED BY <1>0, <2>0, <2>5, <3>1 DEF CellInv, CellTypes
  <2> QED BY <1>6, <2>3, <2>4, <2>5 DEF MergeIntoTail
<1>7. CASE Take
  <2>0. /\ queue # <<>> /\ batch' = Append(batch, Head(queue)) /\ queue' = Tail(queue)
        /\ at' = Moved(Head(queue).load, "taken") /\ consumer' = "drain"
        /\ UNCHANGED <<holding, tail>> /\ consumer \in {"armed", "drain"}
    BY <1>7 DEF Take
  <2>1. /\ Head(queue) \in Cells /\ Head(queue).load \subseteq In("queued")
        /\ queue' \in Seq(Cells) /\ Len(queue') = Len(queue) - 1 /\ Apart(queue')
        /\ Loads(queue') = In("queued") \ Head(queue).load
        /\ \A n \in DOMAIN queue : \/ queue[n] = Head(queue)
                                   \/ \E m \in DOMAIN queue' : queue'[m] = queue[n]
    BY <1>0, <2>0, TakeCell
  <2>2. /\ at' \in [Inputs -> Places] /\ In("looking")' = In("looking")
        /\ In("queued")' = In("queued") \ Head(queue).load
        /\ In("taken")' = In("taken") \cup Head(queue).load
    <3>1. Head(queue).load \in SUBSET Inputs /\ Head(queue).load \cap In("looking") = {}
      BY <2>1 DEF In
    <3>2. /\ at' \in [Inputs -> Places]
          /\ In("taken")' = In("taken") \cup Head(queue).load
          /\ \A q \in Places : q # "taken" => In(q)' = In(q) \ Head(queue).load
      BY <1>0, <2>0, <3>1, MovedFacts DEF Places, In
    <3> QED BY <3>1, <3>2 DEF Places
  <2>3. /\ batch' \in Seq(Cells) /\ Apart(batch')
        /\ Loads(batch') = Loads(batch) \cup Head(queue).load
        /\ \A n \in DOMAIN batch : n \in DOMAIN batch' /\ batch'[n] = batch[n]
        /\ \E n \in DOMAIN batch' : batch'[n] = Head(queue)
    <3>1. Loads(batch) \cap Head(queue).load = {}
      BY <1>0, <2>1 DEF In
    <3> QED BY <1>0, <2>0, <2>1, <3>1, AppendCell
  <2>4. tail # {} => TailQueued' \/ TailTaken'
    <3>1. CASE TailTaken
      BY <2>0, <2>3, <3>1 DEF TailTaken
    <3>2. CASE TailQueued
      <4>1. PICK n \in DOMAIN queue : queue[n].load = tail
        BY <3>2 DEF TailQueued
      <4> QED BY <2>0, <2>1, <2>3, <4>1 DEF TailTaken, TailQueued
    <3> QED BY <1>0, <3>1, <3>2
  <2>5. Len(queue') <= MaxQueue
    BY <1>0, <2>1
  <2>6. holding' # NoCell => holding'.load = In("looking")'
    BY <2>0, <2>2 DEF CellInv
  <2> QED BY <1>0, <2>0, <2>1, <2>2, <2>3, <2>4, <2>5, <2>6 DEF CellInv, CellTypes
<1>8. CASE NotifyComplete
  <2>0. /\ at' = Moved(Loads(batch), "done") /\ batch' = <<>>
        /\ UNCHANGED <<queue, holding, tail>> /\ consumer = "notify"
    BY <1>8 DEF NotifyComplete, Notified
  <2>a. at' = Moved(In("taken"), "done") /\ In("taken") \in SUBSET Inputs
    BY <1>0, <2>0 DEF In
  <2>1. /\ at' \in [Inputs -> Places] /\ In("looking")' = In("looking")
        /\ In("queued")' = In("queued") /\ In("taken")' = {}
    <3>1. /\ at' \in [Inputs -> Places]
          /\ \A q \in Places : q # "done" => In(q)' = In(q) \ In("taken")
      BY <1>0, <2>a, MovedFacts DEF Places, In
    <3>2. In("looking") \cap In("taken") = {} /\ In("queued") \cap In("taken") = {}
      BY DEF In
    <3> QED BY <3>1, <3>2 DEF Places
  <2>2. tail # {} => TailQueued'
    BY <1>0, <2>0 DEF TailQueued
  <2>3. holding' # NoCell => holding'.load = In("looking")'
    BY <2>0, <2>1 DEF CellInv
  <2> QED BY <1>0, <2>0, <2>1, <2>2, <2>3, NoCells DEF CellInv, CellTypes
<1>9. CASE Abort
  <2>0. /\ holding = NoCell /\ at' = Moved(Loads(queue), "cleared") /\ queue' = <<>>
        /\ UNCHANGED <<batch, holding, tail>>
    BY <1>9 DEF Abort, LockFree
  <2>a. at' = Moved(In("queued"), "cleared") /\ In("queued") \in SUBSET Inputs
    BY <1>0, <2>0 DEF In
  <2>1. /\ at' \in [Inputs -> Places] /\ In("looking")' = {}
        /\ In("queued")' = {} /\ In("taken")' = In("taken")
    <3>1. /\ at' \in [Inputs -> Places]
          /\ \A q \in Places : q # "cleared" => In(q)' = In(q) \ In("queued")
      BY <1>0, <2>a, MovedFacts DEF Places, In
    <3>2. In("looking") = {} /\ In("taken") \cap In("queued") = {}
      BY <1>0, <2>0 DEF In
    <3> QED BY <3>1, <3>2 DEF Places
  <2>2. CellTypes'
    BY <1>0, <2>0, <2>1, NoCells DEF CellTypes
  <2>3. Loads(queue') = {} /\ Apart(queue')
    BY <2>0, NoCells
  <2> QED BY <1>0, <2>0, <2>1, <2>2, <2>3 DEF CellInv
<1>b. ASSUME UNCHANGED cellVars, tail = {} \/ consumer \notin {"drain", "begin"}
                                    \/ consumer' \in {"drain", "begin"}
      PROVE  CellInv'
  BY <1>b DEF cellVars, CellInv, CellTypes, In, TailQueued, TailTaken
<1>10. CASE BeginTurn
  BY <1>0, <1>10, <1>b DEF BeginTurn, LockFree, cellVars
<1>11. CASE CloseBatch
  BY <1>11, <1>b DEF CloseBatch, cellVars
<1>12. CASE Wake \/ FindNothing \/ AcquireLease \/ TurnGoesOn \/ FinishTurn \/ FlushNothing
            \/ Shutdown
  BY <1>12, <1>b
     DEF Wake, FindNothing, AcquireLease, TurnGoesOn, BeginIteration, RequestLLM, RetryLLM,
         CallTools, Answer, EndWithoutAnswer, FinishTurn, FlushNothing, Shutdown, cellVars
<1>13. CASE UNCHANGED sessionVars
  BY <1>13, <1>b DEF sessionVars, cellVars
<1> QED
  BY <1>1, <1>2, <1>3, <1>4, <1>5, <1>6, <1>7, <1>8, <1>9, <1>10, <1>11, <1>12, <1>13
     DEF Next, SessionStep, ConsumerStep

-------------------------------------------------------------------------------
(* The turn: the answers it gives, the flags that stop it, and the state   *)
(* that shows it.                                                          *)
LEMMA MaxIsIn ==
    ASSUME NEW k \in Nat, NEW S \in SUBSET (1 .. k), S # {}
    PROVE  Max(S) \in S
<1> DEFINE T == {k - x : x \in S}
<1>0. \A x \in S : x \in Nat /\ k - x \in Nat
  OBVIOUS
<1>1. T \subseteq Nat /\ T # {}
  BY <1>0
<1>2. PICK y \in T : \A z \in T : ~ (<<z, y>> \in OpToRel(<, Nat))
  BY <1>1, NatLessThanWellFounded, WFMin
<1>3. \A z \in T : y <= z
  <2> SUFFICES ASSUME NEW z \in T PROVE ~ (z < y)
    <3> HIDE DEF T
    <3>1. y \in Nat /\ \A z \in T : z \in Nat
      BY <1>1
    <3> QED BY <3>1
  <2>1. <<z, y>> \in Nat \X Nat
    BY <1>1
  <2> HIDE DEF T
  <2> QED BY <1>2, <2>1 DEF OpToRel
<1>4. PICK x \in S : y = k - x
  OBVIOUS
<1>5. \A z \in S : x >= z
  <2> SUFFICES ASSUME NEW z \in S PROVE x >= z
    OBVIOUS
  <2>1. k - x <= k - z
    BY <1>3, <1>4
  <2>2. x \in Int /\ z \in Int /\ k \in Int
    BY <1>0
  <2> HIDE DEF T
  <2> QED BY <2>1, <2>2
<1> HIDE DEF T
<1> QED BY <1>4, <1>5 DEF Max

LEMMA ServedFacts ==
    ASSUME NEW cells \in Seq(Cells)
    PROVE  ServedRoutes(cells) \subseteq Range(RouteOf)
<1>1. CASE Bound(cells) = {}
  BY <1>1 DEF ServedRoutes, PrimaryRoute
<1>2. CASE Bound(cells) # {}
  <2>1. Bound(cells) \in SUBSET (1 .. Len(cells)) /\ Len(cells) \in Nat
    BY LoadsOfCells DEF Bound
  <2>2. Max(Bound(cells)) \in Bound(cells)
    BY <1>2, <2>1, MaxIsIn
  <2>3. cells[Max(Bound(cells))].route \in Range(RouteOf) \cup {NoRoute}
    BY <2>2, LoadsOfCells, CellFacts DEF Bound
  <2> QED BY <1>2, <2>3 DEF ServedRoutes, PrimaryRoute
<1> QED BY <1>1, <1>2

TurnTypes ==
    /\ state \in States
    /\ abortFlag \in BOOLEAN /\ abortedTurn \in BOOLEAN /\ shutdown \in BOOLEAN
    /\ consumer \in {"idle", "armed", "drain", "begin", "lease", "turn", "call", "reply",
                     "finish", "flush", "notify", "exit"}
    /\ calls \in 0 .. MaxIterations /\ attempts \in 0 .. MaxAttempts
    /\ aborter \in {"ready", "abort"} /\ aborts \in 0 .. MaxAborts
    /\ stopped \in BOOLEAN /\ left \in 0 .. MaxAttempts
    /\ answered \subseteq Range(RouteOf)

(* Until an abort the state of a turn is running; what stopped a turn      *)
(* stays raised until the next one begins, and what it left to a call is   *)
(* what that call has left.                                                *)
TurnInv ==
    /\ TurnTypes
    /\ InTurn /\ aborts = 0 => state = "running"
    /\ InTurn /\ aborts = 1 => state \in {"running", "interrupting"}
    /\ InTurn /\ stopped => abortFlag
    /\ consumer = "call" => attempts < MaxAttempts
    /\ stopped /\ consumer \in {"call", "reply"} => left = MaxAttempts - attempts
    /\ aborter = "abort" => aborts < MaxAborts

turnVars == <<state, abortFlag, abortedTurn, shutdown, consumer, calls, attempts, aborter,
              aborts, stopped, left, answered>>

LEMMA TurnStep ==
    ASSUME TurnInv, CellTypes, [Next]_sessionVars
    PROVE  TurnInv'
<1>0. /\ MaxIterations \in Nat /\ MaxAborts \in Nat /\ MaxAttempts \in Nat \ {0}
      /\ batch \in Seq(Cells) /\ aborts \in Nat /\ calls \in Nat /\ attempts \in Nat
      /\ left \in 0 .. MaxAttempts
  BY BoundsAssumption DEF CellTypes, TurnInv, TurnTypes
<1>a. ASSUME UNCHANGED turnVars PROVE TurnInv'
  BY <1>a DEF turnVars, TurnInv, TurnTypes, InTurn
<1>1. ASSUME NEW i \in Inputs, SendInput(i) PROVE TurnInv'
  BY <1>1, <1>a DEF SendInput, turnVars
<1>2. ASSUME NEW i \in Inputs, MarkCollecting(i) \/ Collect(i) PROVE TurnInv'
  <2>1. \/ state' = state
        \/ state \notin {"running", "interrupting"} /\ state' = "collecting"
    BY <1>2 DEF MarkCollecting, Collect
  <2>2. UNCHANGED <<abortFlag, abortedTurn, shutdown, consumer, calls, attempts, aborter, aborts,
                    stopped, left, answered>>
    BY <1>2 DEF MarkCollecting, Collect
  <2> QED BY <2>1, <2>2 DEF TurnInv, TurnTypes, InTurn, States
<1>3. CASE FlushStream \/ LookAtTail \/ MergeIntoTail \/ UNCHANGED sessionVars
  BY <1>3, <1>a DEF FlushStream, LookAtTail, MergeIntoTail, sessionVars, turnVars
<1>4. CASE Wake
  BY <1>4 DEF Wake, TurnInv, TurnTypes, InTurn, States
<1>5. CASE Take \/ FindNothing \/ CloseBatch \/ FlushNothing \/ NotifyComplete
  BY <1>5 DEF Take, FindNothing, CloseBatch, FlushNothing, NotifyComplete, TurnInv, TurnTypes,
              InTurn
<1>6. CASE BeginTurn
  <2>1. calls' \in 0 .. MaxIterations /\ attempts' \in 0 .. MaxAttempts /\ left' \in 0 .. MaxAttempts
    BY <1>0, <1>6 DEF BeginTurn
  <2>2. abortFlag' \in BOOLEAN /\ stopped' \in BOOLEAN /\ state' \in States
    BY <1>6 DEF BeginTurn, States
  <2>3. TurnTypes'
    BY <1>6, <2>1, <2>2 DEF BeginTurn, TurnInv, TurnTypes
  <2> QED BY <1>6, <2>3 DEF BeginTurn, TurnInv
<1>7. CASE AcquireLease
  BY <1>7 DEF AcquireLease, FlagAfterClaim, TurnInv, TurnTypes, InTurn
<1>8. CASE BeginIteration
  <2>1. calls' \in 0 .. MaxIterations /\ attempts' = 0 /\ consumer = "turn" /\ consumer' = "call"
    BY <1>0, <1>8 DEF BeginIteration, MayCallLLM, TurnInv, TurnTypes
  <2>2. ~ stopped
    BY <1>8 DEF BeginIteration, MayCallLLM, TurnInv, InTurn
  <2>3. UNCHANGED <<state, abortFlag, abortedTurn, shutdown, aborter, aborts, stopped, left, answered>>
    BY <1>8 DEF BeginIteration
  <2>4. 0 \in 0 .. MaxAttempts /\ 0 < MaxAttempts
    BY <1>0
  <2> QED BY <2>1, <2>2, <2>3, <2>4 DEF TurnInv, TurnTypes, InTurn
<1>9. CASE RequestLLM
  <2>1. /\ consumer = "call" /\ consumer' = "reply" /\ attempts' = attempts + 1
        /\ left' = (IF stopped THEN left - 1 ELSE left) /\ attempts < MaxAttempts
        /\ UNCHANGED <<state, abortFlag, abortedTurn, shutdown, calls, aborter, aborts, stopped, answered>>
    BY <1>9 DEF RequestLLM, TurnInv
  <2>2. stopped => left = MaxAttempts - attempts
    BY <2>1 DEF TurnInv
  <2>3. attempts' \in 0 .. MaxAttempts /\ left' \in 0 .. MaxAttempts
    BY <1>0, <2>1, <2>2
  <2>4. stopped => left' = MaxAttempts - attempts'
    BY <1>0, <2>1, <2>2
  <2> QED BY <2>1, <2>3, <2>4 DEF TurnInv, TurnTypes, InTurn
<1>10. CASE RetryLLM \/ CallTools \/ Answer \/ EndWithoutAnswer
  <2>1. answered' \subseteq Range(RouteOf)
    BY <1>0, <1>10, ServedFacts
       DEF RetryLLM, CallTools, Answer, EndWithoutAnswer, TurnInv, TurnTypes
  <2>2. /\ UNCHANGED <<state, abortFlag, abortedTurn, shutdown, calls, attempts, aborter, aborts,
                       stopped, left>>
        /\ consumer \in {"turn", "reply"} /\ consumer' \in {"turn", "call", "finish"}
        /\ consumer' = "call" => consumer = "reply" /\ attempts < MaxAttempts
    BY <1>10 DEF RetryLLM, MayRetry, CallTools, Answer, EndWithoutAnswer
  <2> QED BY <2>1, <2>2 DEF TurnInv, TurnTypes, InTurn
<1>11. CASE FinishTurn
  BY <1>11 DEF FinishTurn, TurnInv, TurnTypes, InTurn, States
<1>12. CASE DropStream
  BY <1>12 DEF DropStream, TurnInv, TurnTypes, InTurn
<1>13. CASE Abort
  <2>1. aborts' = aborts + 1 /\ aborts' \in 0 .. MaxAborts
    BY <1>0, <1>13 DEF Abort, TurnInv
  <2>2. /\ left' \in 0 .. MaxAttempts
        /\ stopped' /\ consumer \in {"call", "reply"} => left' = MaxAttempts - attempts
    BY <1>0, <1>13 DEF Abort, Unstoppable, TurnInv, TurnTypes
  <2>3. /\ consumer' = consumer /\ state' = AbortedState /\ abortFlag' = TRUE /\ abortedTurn' = TRUE
        /\ aborter' = "ready" /\ stopped' \in BOOLEAN
        /\ UNCHANGED <<shutdown, calls, attempts, answered>>
    BY <1>13 DEF Abort, InTurn, TurnInv, TurnTypes
  <2>4. state' = IF state = "running" THEN "interrupting" ELSE "idle"
    BY <2>3 DEF AbortedState
  <2>5. TurnTypes'
    BY <2>1, <2>2, <2>3, <2>4 DEF TurnInv, TurnTypes, States
  <2>6. InTurn /\ aborts' = 1 => state' \in {"running", "interrupting"}
    BY <1>0, <2>1, <2>4 DEF TurnInv
  <2>7. aborts' # 0 /\ (InTurn' <=> InTurn) /\ (consumer = "call" => attempts < MaxAttempts)
    BY <1>0, <2>1, <2>3 DEF InTurn, TurnInv
  <2> QED BY <2>2, <2>3, <2>5, <2>6, <2>7 DEF TurnInv
<1>14. CASE Shutdown
  BY <1>14 DEF Shutdown, TurnInv, TurnTypes, InTurn
<1> QED
  BY <1>1, <1>2, <1>3, <1>4, <1>5, <1>6, <1>7, <1>8, <1>9, <1>10, <1>11, <1>12, <1>13, <1>14
     DEF Next, SessionStep, ConsumerStep, TurnGoesOn

-------------------------------------------------------------------------------
SessionInv == CellInv /\ TurnInv

LEMMA SessionInit == Init => SessionInv
<1> SUFFICES ASSUME Init PROVE SessionInv
  OBVIOUS
<1>1. /\ queue = <<>> /\ batch = <<>> /\ holding = NoCell /\ tail = {}
      /\ at = [i \in Inputs |-> "outside"] /\ MaxQueue \in Nat
  BY BoundsAssumption DEF Init
<1>2. at \in [Inputs -> Places] /\ In("queued") = {} /\ In("taken") = {} /\ In("looking") = {}
  BY <1>1 DEF Places, In
<1>3. CellTypes
  BY <1>1, <1>2, NoCells DEF CellTypes
<1>8. CellInv
  BY <1>1, <1>2, <1>3, NoCells DEF CellInv
<1>4. /\ calls \in 0 .. MaxIterations /\ attempts \in 0 .. MaxAttempts
      /\ left \in 0 .. MaxAttempts /\ aborts \in 0 .. MaxAborts
      /\ state \in States /\ aborter = "ready" /\ answered \subseteq Range(RouteOf)
  BY BoundsAssumption DEF Init, States
<1>5. /\ abortFlag = FALSE /\ abortedTurn = FALSE /\ shutdown = FALSE /\ stopped = FALSE
      /\ consumer = "idle"
  BY DEF Init
<1>6. TurnTypes
  BY <1>4, <1>5 DEF TurnTypes
<1>7. TurnInv
  BY <1>4, <1>5, <1>6 DEF TurnInv, InTurn
<1> QED BY <1>7, <1>8 DEF SessionInv

LEMMA SessionAlways == Spec => []SessionInv
<1>1. SessionInv /\ [Next]_sessionVars => SessionInv'
  BY CellStep, TurnStep DEF SessionInv, CellInv
<1> QED BY <1>1, SessionInit, PTL DEF Spec

(* An accepted input is in exactly one cell until its completion callback  *)
(* runs, whatever is merged at the tail while the consumer drains.         *)
THEOREM AcceptedIsKept == Spec => []AcceptedOnce
<1>1. ASSUME SessionInv PROVE AcceptedOnce
  <2>0. /\ CellTypes /\ TurnTypes /\ Apart(queue) /\ Apart(batch)
        /\ Loads(queue) = In("queued") /\ Loads(batch) = In("taken")
        /\ queue \in Seq(Cells) /\ batch \in Seq(Cells)
    BY <1>1 DEF SessionInv, CellInv, CellTypes, TurnInv
  <2>1. TypeOK
    BY <2>0 DEF CellTypes, TurnTypes, TypeOK
  <2>2. ASSUME NEW i \in Inputs
        PROVE  /\ Cardinality(CellsWith(i, queue)) = IF at[i] = "queued" THEN 1 ELSE 0
               /\ Cardinality(CellsWith(i, batch)) = IF at[i] = "taken" THEN 1 ELSE 0
    BY <2>0, CountCells DEF In
  <2> QED BY <2>1, <2>2 DEF AcceptedOnce
<1> QED BY <1>1, SessionAlways, PTL

(* While a turn runs or waits for the handler's lease the session shows it *)
(* as running, through one abort.                                          *)
THEOREM RunningTurnShows == Spec => []RunningTurnIsBusy
<1>1. SessionInv => RunningTurnIsBusy
  BY DEF SessionInv, TurnInv, TurnTypes, InTurn, RunningTurnIsBusy
<1> QED BY <1>1, SessionAlways, PTL

(* Once a user has aborted a turn it starts no iteration, and the LLM gets *)
(* no request but those left to a call that was past its test of the flag. *)
THEOREM AbortStopsCalls == Spec => AbortIsHeeded
<1>1. ASSUME SessionInv, Next
      PROVE  /\ calls' > calls => ~ stopped
             /\ attempts' > attempts => ~ stopped \/ left > 0
  <2>0. /\ calls \in Nat /\ attempts \in Nat /\ MaxAttempts \in Nat
        /\ InTurn /\ stopped => abortFlag
        /\ consumer = "call" => attempts < MaxAttempts
        /\ consumer = "call" /\ stopped => left = MaxAttempts - attempts
    BY <1>1, BoundsAssumption DEF SessionInv, TurnInv, TurnTypes
  <2>1. CASE BeginIteration
    <3>1. ~ stopped
      BY <2>0, <2>1 DEF BeginIteration, MayCallLLM, InTurn
    <3> QED BY <3>1
  <2>2. CASE RequestLLM
    <3>1. consumer = "call" /\ calls' = calls
      BY <2>2 DEF RequestLLM
    <3>2. stopped => left > 0
      BY <2>0, <3>1
    <3> QED BY <2>0, <3>1, <3>2
  <2>3. ASSUME UNCHANGED <<calls, attempts>> \/ (calls' = 0 /\ attempts' = 0)
        PROVE  ~ (calls' > calls) /\ ~ (attempts' > attempts)
    BY <2>0, <2>3
  <2>4. BeginTurn => calls' = 0 /\ attempts' = 0
    BY DEF BeginTurn
  <2>5. \A i \in Inputs : SendInput(i) \/ MarkCollecting(i) \/ Collect(i) => UNCHANGED <<calls, attempts>>
    BY DEF SendInput, MarkCollecting, Collect
  <2>6. FlushStream \/ LookAtTail \/ MergeIntoTail \/ DropStream \/ Abort \/ Shutdown
          => UNCHANGED <<calls, attempts>>
    BY DEF FlushStream, LookAtTail, MergeIntoTail, DropStream, Abort, Shutdown
  <2>7. Wake \/ Take \/ FindNothing \/ CloseBatch \/ AcquireLease \/ FinishTurn \/ FlushNothing
        \/ NotifyComplete => UNCHANGED <<calls, attempts>>
    BY DEF Wake, Take, FindNothing, CloseBatch, AcquireLease, FinishTurn, FlushNothing, NotifyComplete
  <2>8. RetryLLM \/ CallTools \/ Answer \/ EndWithoutAnswer => UNCHANGED <<calls, attempts>>
    BY DEF RetryLLM, CallTools, Answer, EndWithoutAnswer
  <2> QED BY <1>1, <2>1, <2>2, <2>3, <2>4, <2>5, <2>6, <2>7, <2>8
          DEF Next, SessionStep, ConsumerStep, TurnGoesOn
<1>2. SessionInv /\ [Next]_sessionVars
        => [/\ calls' > calls => ~ stopped
            /\ attempts' > attempts => ~ stopped \/ left > 0]_sessionVars
  BY <1>1
<1> QED BY <1>2, SessionAlways, PTL DEF Spec, AbortIsHeeded

-------------------------------------------------------------------------------
(* The refinement of InputPipe: every step of the session is one of the    *)
(* pipe or leaves what is shown alone.                                     *)
LEMMA ShownPlaces ==
    /\ \A p \in {"outside", "marked", "collected", "looking"} : Shown(p) = "unsent"
    /\ \A p \in {"queued", "taken"} : Shown(p) = "accepted"
    /\ \A p \in {"bare", "rejected", "crashed", "missed"} : Shown(p) = "refused"
    /\ Shown("cleared") = "withdrawn" /\ Shown("done") = "done"
BY DEF Shown

(* A set of inputs may be moved to a place if all of them show the same    *)
(* there, or what the pipe lets them become.                               *)
Allowed(S, p) ==
    \/ \A i \in S : Shown(at[i]) = Shown(p)
    \/ Shown(p) \in {"accepted", "refused"} /\ \A i \in S : Shown(at[i]) = "unsent"
    \/ Shown(p) = "done" /\ \A i \in S : Shown(at[i]) = "accepted"
    \/ Shown(p) = "withdrawn" /\ \A i \in S : Shown(at[i]) \in {"unsent", "accepted"}

LEMMA MoveIsAPipeStep ==
    ASSUME at \in [Inputs -> Places], NEW S \in SUBSET Inputs, NEW p \in Places,
           at' = Moved(S, p), Allowed(S, p)
    PROVE  [Pipe!PipeNext]_shownAt
<1>1. \A i \in Inputs : /\ shownAt[i] = Shown(at[i])
                        /\ shownAt'[i] = IF i \in S THEN Shown(p) ELSE shownAt[i]
  BY DEF shownAt, Moved
<1>2. shownAt' = [i \in Inputs |-> IF i \in S THEN Shown(p) ELSE shownAt[i]]
  BY <1>1 DEF shownAt
<1>3. CASE \A i \in S : Shown(at[i]) = Shown(p)
  <2>1. \A i \in Inputs : shownAt'[i] = shownAt[i]
    BY <1>1, <1>3
  <2> QED BY <2>1 DEF shownAt
<1>4. ASSUME ~ \A i \in S : Shown(at[i]) = Shown(p) PROVE Pipe!PipeNext
  <2>1. S \in (SUBSET Inputs) \ {{}}
    BY <1>4
  <2>2. Pipe!Accept(S) \/ Pipe!Refuse(S) \/ Pipe!Complete(S) \/ Pipe!Withdraw(S)
    BY <1>1, <1>2, <1>4
       DEF Allowed, Pipe!Accept, Pipe!Refuse, Pipe!Complete, Pipe!Withdraw, Pipe!Change
  <2> QED BY <2>1, <2>2 DEF Pipe!PipeNext
<1> QED BY <1>3, <1>4

LEMMA PipeStep == CellInv /\ [Next]_sessionVars => [Pipe!PipeNext]_shownAt
<1> SUFFICES ASSUME CellInv, [Next]_sessionVars PROVE [Pipe!PipeNext]_shownAt
  OBVIOUS
<1>0. /\ at \in [Inputs -> Places] /\ queue \in Seq(Cells) /\ batch \in Seq(Cells)
      /\ Loads(queue) = In("queued") /\ Loads(batch) = In("taken")
      /\ In("queued") \subseteq Inputs /\ In("taken") \subseteq Inputs
  BY DEF CellInv, CellTypes, In
<1>a. holding # NoCell => holding.load = In("looking") /\ In("looking") \in SUBSET Inputs
  BY DEF CellInv, In
<1>b. \A p \in Places : \A i \in In(p) : at[i] = p
  BY DEF In
<1>c. ASSUME UNCHANGED at PROVE shownAt' = shownAt
  BY <1>c DEF shownAt
<1>d. ASSUME NEW S \in SUBSET Inputs, NEW p \in {"queued", "rejected", "looking", "cleared"},
             \A i \in S : at[i] \in {"outside", "collected", "looking"}, at' = Moved(S, p)
      PROVE  [Pipe!PipeNext]_shownAt
  <2>1. \A i \in S : Shown(at[i]) = "unsent"
    BY <1>d, ShownPlaces
  <2>2. Allowed(S, p) /\ p \in Places
    BY <2>1, ShownPlaces DEF Allowed, Places
  <2> QED BY <1>0, <1>d, <2>2, MoveIsAPipeStep
<1>e. ASSUME NEW c \in Cells, Put(c),
             \A i \in c.load : at[i] \in {"outside", "collected", "looking"}
      PROVE  [Pipe!PipeNext]_shownAt
  <2>1. at' = Moved(c.load, "queued") \/ at' = Moved(c.load, "rejected")
    BY <1>e DEF Put
  <2>2. c.load \in SUBSET Inputs
    BY CellFacts
  <2> QED BY <1>d, <1>e, <2>1, <2>2
<1>f. ASSUME NEW c \in Cells, QueueInput(c),
             \A i \in c.load : at[i] \in {"outside", "collected", "looking"}
      PROVE  [Pipe!PipeNext]_shownAt
  <2>1. at' = Moved(c.load, "looking") \/ Put(c)
    BY <1>f DEF QueueInput
  <2>2. c.load \in SUBSET Inputs
    BY CellFacts
  <2> QED BY <1>d, <1>e, <1>f, <2>1, <2>2
<1>1. ASSUME NEW i \in Inputs, SendInput(i) PROVE [Pipe!PipeNext]_shownAt
  <2>1. Cell({i}) \in Cells /\ Cell({i}).load = {i} /\ QueueInput(Cell({i}))
        /\ at[i] \in {"outside", "collected", "looking"}
    BY <1>1, NewCell DEF SendInput
  <2> QED BY <1>f, <2>1
<1>2. ASSUME NEW i \in Inputs, MarkCollecting(i) \/ Collect(i) PROVE [Pipe!PipeNext]_shownAt
  <2>1. PICK p \in {"marked", "collected", "bare"} : at' = Moved({i}, p)
    BY <1>2 DEF MarkCollecting, Collect
  <2>2. Shown(at[i]) = "unsent"
    BY <1>2, ShownPlaces DEF MarkCollecting, Collect
  <2>3. Allowed({i}, p) /\ p \in Places
    BY <2>2, ShownPlaces DEF Allowed, Places
  <2> QED BY <1>0, <2>1, <2>3, MoveIsAPipeStep
<1>3. CASE FlushStream
  <2>1. Collected \in SUBSET Inputs /\ \A i \in Collected : at[i] = "collected"
    BY DEF Collected, In
  <2>2. Cell(Collected) \in Cells /\ Cell(Collected).load = Collected
        /\ QueueInput(Cell(Collected))
    BY <1>3, <2>1, NewCell DEF FlushStream
  <2> QED BY <1>f, <2>1, <2>2
<1>4. CASE LookAtTail
  <2>0. /\ holding \in Cells /\ holding.load \in SUBSET Inputs
        /\ \A i \in holding.load : at[i] = "looking"
    BY <1>4, <1>a, <1>b DEF LookAtTail, CellInv, CellTypes, Places
  <2>1. CASE at' = Moved(holding.load, "crashed")
    <3>1. Allowed(holding.load, "crashed") /\ "crashed" \in Places
      BY <2>0, ShownPlaces DEF Allowed, Places
    <3> QED BY <1>0, <2>0, <2>1, <3>1, MoveIsAPipeStep
  <2>2. CASE Put(holding)
    BY <1>e, <2>0, <2>2
  <2> QED BY <1>4, <1>c, <2>1, <2>2 DEF LookAtTail
<1>5. CASE MergeIntoTail
  <2>0. /\ holding.load \in SUBSET Inputs /\ \A i \in holding.load : at[i] = "looking"
    BY <1>5, <1>a, <1>b DEF MergeIntoTail, CellInv, Places
  <2>1. \E p \in {"queued", "taken", "missed"} : at' = Moved(holding.load, p)
    BY <1>5 DEF MergeIntoTail
  <2>2. \A p \in {"queued", "taken", "missed"} : p \in Places /\ Allowed(holding.load, p)
    BY <2>0, ShownPlaces DEF Allowed, Places
  <2> QED BY <1>0, <2>0, <2>1, <2>2, MoveIsAPipeStep
<1>6. CASE Take
  <2>1. 1 \in DOMAIN queue /\ Head(queue) = queue[1]
    BY <1>0, <1>6, EmptySeq, LenProperties DEF Take
  <2>2. Head(queue).load \subseteq In("queued")
    BY <1>0, <2>1, LoadsOfCells
  <2>3. Allowed(Head(queue).load, "taken") /\ Head(queue).load \in SUBSET Inputs
    BY <1>0, <1>b, <2>2, ShownPlaces DEF Allowed, Places
  <2>4. at' = Moved(Head(queue).load, "taken") /\ "taken" \in Places
    BY <1>6 DEF Take, Places
  <2> QED BY <1>0, <2>3, <2>4, MoveIsAPipeStep
<1>7. CASE NotifyComplete
  <2>1. at' = Moved(In("taken"), "done") /\ "done" \in Places
    BY <1>0, <1>7 DEF NotifyComplete, Notified, Places
  <2>2. Allowed(In("taken"), "done")
    BY <1>b, ShownPlaces DEF Allowed, Places
  <2> QED BY <1>0, <2>1, <2>2, MoveIsAPipeStep
<1>8. CASE DropStream
  <2>1. Collected \in SUBSET Inputs /\ (\A i \in Collected : at[i] = "collected")
        /\ at' = Moved(Collected, "cleared")
    BY <1>8 DEF Collected, In, DropStream
  <2> QED BY <1>d, <2>1
<1>9. CASE Abort
  <2>1. at' = Moved(In("queued"), "cleared") /\ "cleared" \in Places
    BY <1>0, <1>9 DEF Abort, Places
  <2>2. Allowed(In("queued"), "cleared")
    BY <1>b, ShownPlaces DEF Allowed, Places
  <2> QED BY <1>0, <2>1, <2>2, MoveIsAPipeStep
<1>10. ASSUME \/ Wake \/ FindNothing \/ CloseBatch \/ BeginTurn \/ AcquireLease \/ TurnGoesOn
              \/ FinishTurn \/ FlushNothing \/ Shutdown
              \/ UNCHANGED sessionVars
       PROVE  UNCHANGED at
  BY <1>10 DEF Wake, FindNothing, CloseBatch, BeginTurn, AcquireLease, TurnGoesOn, BeginIteration,
               RequestLLM, RetryLLM, CallTools, Answer, EndWithoutAnswer, FinishTurn, FlushNothing,
               Shutdown, sessionVars
<1> QED
  BY <1>c, <1>1, <1>2, <1>3, <1>4, <1>5, <1>6, <1>7, <1>8, <1>9, <1>10
     DEF Next, SessionStep, ConsumerStep

(* What a sender of inputs sees of a session is a run of InputPipe: an     *)
(* input is refused or accepted once, an accepted one ends processed or    *)
(* withdrawn by an abort, and nothing that has ended changes again.        *)
THEOREM SessionIsAPipe == Spec => Pipe!PipeInit /\ [][Pipe!PipeNext]_shownAt
<1>1. Init => Pipe!PipeInit
  BY ShownPlaces DEF Init, shownAt, Pipe!PipeInit
<1>2. SessionInv /\ [Next]_sessionVars => [Pipe!PipeNext]_shownAt
  BY PipeStep DEF SessionInv
<1> QED BY <1>1, <1>2, SessionAlways, PTL DEF Spec

===============================================================================
