------------------------ MODULE RobotDispatchProofs ------------------------
(***************************************************************************)
(* The dispatch of a conversation's messages, for any messages, results    *)
(* and workers, any queue and buffer and any number of deadlines, frozen   *)
(* turns and failed dispatches.  Two inductive invariants:                 *)
(*   HolderInv  at most one message or follow-up holds the generation;     *)
(*   PlaceInv   each message and result is in exactly one place, of its    *)
(*              handler or job, the queue, the buffer, a worker before its *)
(*              turn, the hand of a follow-up, and what is done with.      *)
(***************************************************************************)
EXTENDS RobotDispatch, FiniteSetTheorems, SequenceTheorems, WellFoundedInduction, TLAPS

-------------------------------------------------------------------------------
(* Lists without repetitions, and what the dispatch does with them.        *)

(* A list, read as the set of what it holds.                               *)
Reads(s) ==
    /\ Len(s) \in Nat
    /\ \A y : y \in ToSet(s) <=> \E i \in 1 .. Len(s) : y = s[i]
    /\ IsInjective(s) <=> \A i, j \in 1 .. Len(s) : s[i] = s[j] => i = j

LEMMA ListReads ==
    ASSUME NEW S, NEW s \in Seq(S)
    PROVE  /\ Reads(s) /\ ToSet(s) \subseteq S /\ \A i \in 1 .. Len(s) : s[i] \in S
           /\ s # <<>> <=> \E y : y \in ToSet(s)
<1>1. Len(s) \in Nat /\ DOMAIN s = 1 .. Len(s) /\ \A i \in 1 .. Len(s) : s[i] \in S
  BY LenProperties, ElementOfSeq
<1>2. s # <<>> <=> 1 \in 1 .. Len(s)
  OBVIOUS
<1>3. \A i \in 1 .. Len(s) : s # <<>>
  OBVIOUS
<1> QED BY <1>1, <1>2, <1>3 DEF ToSet, IsInjective, Reads

(* A list whose every entry is one of another list's.                      *)
LEMMA ListWithin ==
    ASSUME NEW S, NEW s \in Seq(S), NEW t \in Seq(S),
           \A i \in 1 .. Len(s) : \E j \in 1 .. Len(t) : s[i] = t[j]
    PROVE  \A y \in ToSet(s) : y \in ToSet(t)
<1> SUFFICES ASSUME NEW y \in ToSet(s) PROVE y \in ToSet(t)
  OBVIOUS
<1>1. \E i \in 1 .. Len(s) : y = s[i]
  BY ListReads DEF Reads
<1>2. \E j \in 1 .. Len(t) : y = t[j]
  BY <1>1
<1> QED BY <1>2, ListReads DEF Reads

LEMMA EmptyList ==
    ASSUME NEW S
    PROVE  <<>> \in Seq(S) /\ ToSet(<<>>) = {} /\ IsInjective(<<>>) /\ Len(<<>>) = 0
<1>1. <<>> \in Seq(S) /\ Len(<<>>) = 0
  OBVIOUS
<1>2. \A i : i \notin 1 .. Len(<<>>)
  BY <1>1
<1>3. Reads(<<>>)
  BY <1>1, ListReads
<1> QED BY <1>1, <1>2, <1>3 DEF Reads

LEMMA AppendList ==
    ASSUME NEW S, NEW s \in Seq(S), NEW x \in S
    PROVE  /\ Append(s, x) \in Seq(S) /\ Len(Append(s, x)) = Len(s) + 1 /\ Append(s, x) # <<>>
           /\ ToSet(Append(s, x)) = ToSet(s) \cup {x}
           /\ IsInjective(s) /\ x \notin ToSet(s) => IsInjective(Append(s, x))
<1> DEFINE t == Append(s, x)
<1>1. /\ t \in Seq(S) /\ Len(t) = Len(s) + 1 /\ t # <<>> /\ t[Len(s) + 1] = x
      /\ \A i \in 1 .. Len(s) : t[i] = s[i]
  BY AppendProperties
<1>2. Len(s) \in Nat /\ \A i \in 1 .. Len(t) : i \in 1 .. Len(s) \/ i = Len(s) + 1
  BY <1>1, ListReads DEF Reads
<1>3. \A i \in 1 .. Len(s) : i \in 1 .. Len(t) /\ Len(s) + 1 \in 1 .. Len(t)
  BY <1>1, <1>2
<1>4. Len(s) + 1 \in 1 .. Len(t)
  BY <1>1, <1>2
<1>r. Reads(s) /\ Reads(t)
  BY <1>1, ListReads
<1> HIDE DEF t
<1>5. \A y \in ToSet(t) : y \in ToSet(s) \cup {x}
  BY <1>r, <1>1, <1>2 DEF Reads
<1>6. \A y \in ToSet(s) \cup {x} : y \in ToSet(t)
  BY <1>r, <1>1, <1>3, <1>4 DEF Reads
<1>7. IsInjective(s) /\ x \notin ToSet(s) => IsInjective(t)
  BY <1>r, <1>1, <1>2 DEF Reads
<1> QED BY <1>1, <1>5, <1>6, <1>7 DEF t

LEMMA TailList ==
    ASSUME NEW S, NEW s \in Seq(S), s # <<>>
    PROVE  /\ Tail(s) \in Seq(S) /\ Head(s) \in S /\ Len(Tail(s)) = Len(s) - 1
           /\ ToSet(s) = ToSet(Tail(s)) \cup {Head(s)}
           /\ IsInjective(s) => IsInjective(Tail(s)) /\ Head(s) \notin ToSet(Tail(s))
<1> DEFINE t == Tail(s)
<1>1. /\ t \in Seq(S) /\ Head(s) \in S /\ Len(t) = Len(s) - 1 /\ Head(s) = s[1]
      /\ \A i \in 1 .. Len(t) : t[i] = s[i + 1]
  BY HeadTailProperties
<1>2. /\ 1 \in 1 .. Len(s) /\ \A i \in 1 .. Len(t) : i + 1 \in 1 .. Len(s) /\ i + 1 # 1
      /\ \A i \in 1 .. Len(s) : i = 1 \/ (i - 1 \in 1 .. Len(t) /\ i = (i - 1) + 1)
  BY <1>1, ListReads DEF Reads
<1>r. Reads(s) /\ Reads(t)
  BY <1>1, ListReads
<1> HIDE DEF t
<1>3. \A y \in ToSet(s) : y \in ToSet(t) \cup {Head(s)}
  <2>1. ASSUME NEW i \in 1 .. Len(s) PROVE s[i] = Head(s) \/ \E j \in 1 .. Len(t) : s[i] = t[j]
    <3>1. CASE i = 1
      BY <1>1, <3>1
    <3>2. CASE i - 1 \in 1 .. Len(t) /\ i = (i - 1) + 1
      BY <1>1, <3>2
    <3> QED BY <1>2, <3>1, <3>2
  <2> QED BY <1>r, <2>1 DEF Reads
<1>4. \A y \in ToSet(t) \cup {Head(s)} : y \in ToSet(s)
  BY <1>r, <1>1, <1>2 DEF Reads
<1>5. ASSUME IsInjective(s) PROVE IsInjective(t) /\ Head(s) \notin ToSet(t)
  <2>d. \A i, j \in 1 .. Len(s) : s[i] = s[j] => i = j
    BY <1>r, <1>5 DEF Reads
  <2>1. \A i, j \in 1 .. Len(t) : t[i] = t[j] => i + 1 = j + 1
    BY <2>d, <1>1, <1>2
  <2>2. \A i, j \in 1 .. Len(t) : i + 1 = j + 1 => i = j
    OBVIOUS
  <2>3. IsInjective(t)
    BY <1>r, <2>1, <2>2 DEF Reads
  <2>4. \A i \in 1 .. Len(t) : t[i] # Head(s)
    BY <2>d, <1>1, <1>2
  <2> QED BY <1>r, <2>3, <2>4 DEF Reads
<1> QED BY <1>1, <1>3, <1>4, <1>5 DEF t

LEMMA JoinList ==
    ASSUME NEW S, NEW s \in Seq(S), NEW t \in Seq(S)
    PROVE  /\ s \o t \in Seq(S) /\ ToSet(s \o t) = ToSet(s) \cup ToSet(t)
           /\ IsInjective(s) /\ IsInjective(t) /\ ToSet(s) \cap ToSet(t) = {} => IsInjective(s \o t)
<1> DEFINE u == s \o t
<1>1. /\ u \in Seq(S) /\ Len(u) = Len(s) + Len(t)
      /\ \A i \in 1 .. Len(s) + Len(t) : u[i] = IF i <= Len(s) THEN s[i] ELSE t[i - Len(s)]
  BY ConcatProperties
<1>2. Len(s) \in Nat /\ Len(t) \in Nat
  BY ListReads DEF Reads
<1>r. Reads(s) /\ Reads(t) /\ Reads(u)
  BY <1>1, ListReads
<1> HIDE DEF u
<1>3. \A i \in 1 .. Len(s) : i \in 1 .. Len(u) /\ u[i] = s[i]
  BY <1>1, <1>2
<1>4. \A i \in 1 .. Len(t) : i + Len(s) \in 1 .. Len(u) /\ u[i + Len(s)] = t[i]
  <2> SUFFICES ASSUME NEW i \in 1 .. Len(t)
               PROVE  i + Len(s) \in 1 .. Len(u) /\ u[i + Len(s)] = t[i]
    OBVIOUS
  <2>1. /\ i + Len(s) \in 1 .. Len(s) + Len(t) /\ ~ (i + Len(s) <= Len(s))
        /\ (i + Len(s)) - Len(s) = i
    BY <1>2
  <2> QED BY <1>1, <2>1
<1>5. \A i \in 1 .. Len(u) : \/ i \in 1 .. Len(s) /\ u[i] = s[i]
                             \/ i - Len(s) \in 1 .. Len(t) /\ u[i] = t[i - Len(s)]
  BY <1>1, <1>2
<1>6. \A y \in ToSet(u) : y \in ToSet(s) \cup ToSet(t)
  <2>1. \A i \in 1 .. Len(u) : \/ \E j \in 1 .. Len(s) : u[i] = s[j]
                               \/ \E j \in 1 .. Len(t) : u[i] = t[j]
    BY <1>5
  <2> QED BY <1>r, <2>1 DEF Reads
<1>7. \A y \in ToSet(s) : y \in ToSet(u)
  <2>1. \A i \in 1 .. Len(s) : \E j \in 1 .. Len(u) : s[i] = u[j]
    BY <1>3
  <2> QED BY <1>1, <2>1, ListWithin
<1>8. \A y \in ToSet(t) : y \in ToSet(u)
  <2>1. \A i \in 1 .. Len(t) : \E j \in 1 .. Len(u) : t[i] = u[j]
    BY <1>4
  <2> QED BY <1>1, <2>1, ListWithin
<1>9. ASSUME IsInjective(s), IsInjective(t), ToSet(s) \cap ToSet(t) = {} PROVE IsInjective(u)
  <2> SUFFICES ASSUME NEW i \in 1 .. Len(u), NEW j \in 1 .. Len(u), u[i] = u[j] PROVE i = j
    BY <1>r, <1>1 DEF Reads
  <2>s. \A k, l \in 1 .. Len(s) : s[k] = s[l] => k = l
    BY <1>r, <1>9 DEF Reads
  <2>t. \A k, l \in 1 .. Len(t) : t[k] = t[l] => k = l
    BY <1>r, <1>9 DEF Reads
  <2>n. \A k \in 1 .. Len(s), l \in 1 .. Len(t) : s[k] # t[l]
    <3>1. ASSUME NEW k \in 1 .. Len(s), NEW l \in 1 .. Len(t)
          PROVE  s[k] \in ToSet(s) /\ t[l] \in ToSet(t)
      BY <1>r DEF Reads
    <3> QED BY <3>1, <1>9
  <2>1. CASE i \in 1 .. Len(s) /\ u[i] = s[i] /\ j \in 1 .. Len(s) /\ u[j] = s[j]
    BY <2>s, <2>1
  <2>2. CASE /\ i - Len(s) \in 1 .. Len(t) /\ u[i] = t[i - Len(s)]
             /\ j - Len(s) \in 1 .. Len(t) /\ u[j] = t[j - Len(s)]
    <3>1. i - Len(s) = j - Len(s)
      BY <2>t, <2>2
    <3> QED BY <1>2, <3>1
  <2>3. CASE \/ i \in 1 .. Len(s) /\ u[i] = s[i] /\ j - Len(s) \in 1 .. Len(t) /\ u[j] = t[j - Len(s)]
             \/ j \in 1 .. Len(s) /\ u[j] = s[j] /\ i - Len(s) \in 1 .. Len(t) /\ u[i] = t[i - Len(s)]
    BY <2>n, <2>3
  <2> QED BY <1>5, <2>1, <2>2, <2>3
<1> QED BY <1>1, <1>6, <1>7, <1>8, <1>9 DEF u

LEMMA SplitList ==
    ASSUME NEW S, NEW s \in Seq(S), NEW n \in 0 .. Len(s)
    PROVE  LET left == SubSeq(s, 1, n)
               right == SubSeq(s, n + 1, Len(s))
           IN  /\ right \in Seq(S) /\ Len(right) = Len(s) - n
               /\ ToSet(left) \cup ToSet(right) = ToSet(s)
               /\ IsInjective(s) => IsInjective(right) /\ ToSet(left) \cap ToSet(right) = {}
<1> DEFINE left == SubSeq(s, 1, n)
           right == SubSeq(s, n + 1, Len(s))
<1>1. Len(s) \in Nat /\ n \in Nat /\ n <= Len(s) /\ \A i \in 1 .. Len(s) : s[i] \in S
  BY ListReads DEF Reads
<1>2. left \in Seq(S) /\ Len(left) = n /\ \A i \in 1 .. n : left[i] = s[i]
  <2>1. /\ left \in Seq(S) /\ Len(left) = IF 1 <= n THEN n - 1 + 1 ELSE 0
        /\ \A i \in 1 .. n - 1 + 1 : left[i] = s[1 + i - 1]
    BY <1>1, SubSeqProperties
  <2> HIDE DEF left
  <2> QED BY <1>1, <2>1
<1>3. /\ right \in Seq(S) /\ Len(right) = Len(s) - n
      /\ \A i \in 1 .. Len(s) - n : right[i] = s[n + i]
  <2>1. /\ right \in Seq(S)
        /\ Len(right) = IF n + 1 <= Len(s) THEN Len(s) - (n + 1) + 1 ELSE 0
        /\ \A i \in 1 .. Len(s) - (n + 1) + 1 : right[i] = s[(n + 1) + i - 1]
    BY <1>1, SubSeqProperties
  <2> HIDE DEF right
  <2>2. \A i \in 1 .. Len(s) - n : i \in 1 .. Len(s) - (n + 1) + 1 /\ (n + 1) + i - 1 = n + i
    BY <1>1
  <2>3. Len(right) = Len(s) - n
    BY <1>1, <2>1
  <2> QED BY <2>1, <2>2, <2>3
<1>r. Reads(s) /\ Reads(left) /\ Reads(right)
  BY <1>1, <1>2, <1>3, ListReads
<1> HIDE DEF left, right
<1>4. \A i \in 1 .. Len(s) : \/ i \in 1 .. Len(left) /\ s[i] = left[i]
                             \/ i - n \in 1 .. Len(right) /\ s[i] = right[i - n]
  BY <1>1, <1>2, <1>3
<1>5. \A i \in 1 .. Len(left) : i \in 1 .. Len(s) /\ left[i] = s[i]
  BY <1>1, <1>2
<1>6. \A i \in 1 .. Len(right) : n + i \in 1 .. Len(s) /\ right[i] = s[n + i]
  BY <1>1, <1>3
<1>7. \A y \in ToSet(s) : y \in ToSet(left) \/ y \in ToSet(right)
  <2>1. \A i \in 1 .. Len(s) : \/ \E j \in 1 .. Len(left) : s[i] = left[j]
                               \/ \E j \in 1 .. Len(right) : s[i] = right[j]
    BY <1>4
  <2>2. ASSUME NEW y \in ToSet(s) PROVE y \in ToSet(left) \/ y \in ToSet(right)
    <3>1. PICK i \in 1 .. Len(s) : y = s[i]
      BY <1>r DEF Reads
    <3>2. (\E j \in 1 .. Len(left) : y = left[j]) \/ (\E j \in 1 .. Len(right) : y = right[j])
      BY <2>1, <3>1
    <3> QED BY <1>r, <3>2 DEF Reads
  <2> QED BY <2>2
<1>8. \A y \in ToSet(left) : y \in ToSet(s)
  <2>1. \A i \in 1 .. Len(left) : \E j \in 1 .. Len(s) : left[i] = s[j]
    BY <1>5
  <2> QED BY <1>2, <2>1, ListWithin
<1>9. \A y \in ToSet(right) : y \in ToSet(s)
  <2>1. \A i \in 1 .. Len(right) : \E j \in 1 .. Len(s) : right[i] = s[j]
    BY <1>6
  <2> QED BY <1>3, <2>1, ListWithin
<1>10. ASSUME IsInjective(s) PROVE IsInjective(right) /\ ToSet(left) \cap ToSet(right) = {}
  <2>d. \A i, j \in 1 .. Len(s) : s[i] = s[j] => i = j
    BY <1>r, <1>10 DEF Reads
  <2>1. \A i, j \in 1 .. Len(right) : right[i] = right[j] => i = j
    <3> SUFFICES ASSUME NEW i \in 1 .. Len(right), NEW j \in 1 .. Len(right), right[i] = right[j]
                 PROVE  i = j
      OBVIOUS
    <3>1. n + i = n + j
      BY <2>d, <1>6
    <3> QED BY <1>1, <3>1
  <2>2. \A i \in 1 .. Len(left), j \in 1 .. Len(right) : left[i] # right[j]
    <3> SUFFICES ASSUME NEW i \in 1 .. Len(left), NEW j \in 1 .. Len(right), left[i] = right[j]
                 PROVE  FALSE
      OBVIOUS
    <3>1. i = n + j
      BY <2>d, <1>5, <1>6
    <3> QED BY <1>1, <1>2, <3>1
  <2>3. IsInjective(right)
    BY <1>r, <2>1 DEF Reads
  <2>4. \A y \in ToSet(left) : y \notin ToSet(right)
    BY <1>r, <2>2 DEF Reads
  <2> QED BY <2>3, <2>4
<1> QED BY <1>3, <1>7, <1>8, <1>9, <1>10 DEF left, right

LEMMA OverRange ==
    ASSUME NEW S, NEW s \in Seq(S), NEW limit \in Nat
    PROVE  Over(s, limit) \in 0 .. Len(s)
BY ListReads DEF Reads, Over

(* The recursion of Selected, one entry after the other.                   *)
Step(s, S, f, n) ==
    IF n = 0 THEN <<>> ELSE IF s[n] \in S THEN Append(f[n - 1], s[n]) ELSE f[n - 1]

(* Whatever holds of 0 and passes from each number to the next holds of    *)
(* all: told of the set of the numbers it does not hold of.                *)
LEMMA NoFirstFailure ==
    ASSUME NEW T \in SUBSET Nat, 0 \notin T, \A n \in Nat : n + 1 \in T => n \in T
    PROVE  T = {}
<1> SUFFICES ASSUME T # {} PROVE FALSE
  OBVIOUS
<1>1. PICK k \in T : \A n \in T : ~ (<<n, k>> \in OpToRel(<, Nat))
  BY NatLessThanWellFounded, WFMin
<1>2. k - 1 \in Nat /\ (k - 1) + 1 = k /\ k - 1 < k
  OBVIOUS
<1>3. k - 1 \in T
  BY <1>2
<1>4. <<k - 1, k>> \in OpToRel(<, Nat)
  BY <1>2 DEF OpToRel
<1> QED BY <1>1, <1>3, <1>4

LEMMA PickedExists ==
    ASSUME NEW U, NEW s \in Seq(U), NEW S
    PROVE  \E f : f = [n \in 0 .. Len(s) |-> Step(s, S, f, n)]
<1> DEFINE T == {n \in Nat : ~ \E f : f = [i \in 0 .. n |-> Step(s, S, f, i)]}
<1>1. 0 \notin T
  <2>1. [i \in 0 .. 0 |-> <<>>] = [i \in 0 .. 0 |-> Step(s, S, [j \in 0 .. 0 |-> <<>>], i)]
    BY DEF Step
  <2> QED BY <2>1
<1>2. ASSUME NEW n \in Nat, n \notin T PROVE n + 1 \notin T
  <2>1. PICK f : f = [i \in 0 .. n |-> Step(s, S, f, i)]
    BY <1>2
  <2> DEFINE g == [i \in 0 .. n + 1 |-> IF i = n + 1 THEN Step(s, S, f, i) ELSE f[i]]
  <2>2. ASSUME NEW i \in 0 .. n + 1 PROVE g[i] = Step(s, S, g, i)
    <3>1. i # 0 => i - 1 \in 0 .. n /\ i - 1 # n + 1 /\ i - 1 \in 0 .. n + 1
      OBVIOUS
    <3>2. i # 0 => g[i - 1] = f[i - 1]
      BY <3>1
    <3>3. Step(s, S, g, i) = Step(s, S, f, i)
      BY <3>2 DEF Step
    <3>4. i # n + 1 => i \in 0 .. n /\ f[i] = Step(s, S, f, i)
      BY <2>1
    <3> QED BY <3>3, <3>4
  <2>3. g = [i \in 0 .. n + 1 |-> g[i]]
    OBVIOUS
  <2> HIDE DEF g
  <2>4. g = [i \in 0 .. n + 1 |-> Step(s, S, g, i)]
    BY <2>2, <2>3
  <2> QED BY <2>4
<1>3. T \in SUBSET Nat
  OBVIOUS
<1> HIDE DEF T
<1>4. T = {}
  BY <1>1, <1>2, <1>3, NoFirstFailure
<1>5. Len(s) \in Nat
  BY LenProperties
<1> QED BY <1>4, <1>5 DEF T

LEMMA SelectedList ==
    ASSUME NEW U, NEW s \in Seq(U), NEW S
    PROVE  /\ Selected(s, S) \in Seq(U) /\ ToSet(Selected(s, S)) = ToSet(s) \cap S
           /\ IsInjective(s) => IsInjective(Selected(s, S))
<1> DEFINE f == CHOOSE g : g = [n \in 0 .. Len(s) |-> Step(s, S, g, n)]
           upto(n) == {s[i] : i \in 1 .. n}
           Good(n) == /\ f[n] \in Seq(U) /\ ToSet(f[n]) = upto(n) \cap S
                      /\ IsInjective(s) => IsInjective(f[n])
           T == {n \in Nat : n <= Len(s) /\ ~ Good(n)}
<1>0. Len(s) \in Nat /\ Reads(s) /\ \A i \in 1 .. Len(s) : s[i] \in U
  BY ListReads DEF Reads
<1>1. Selected(s, S) = f[Len(s)]
  BY DEF Selected, Step
<1>2. f = [n \in 0 .. Len(s) |-> Step(s, S, f, n)]
  BY PickedExists
<1> HIDE DEF f
<1>3. \A n \in 0 .. Len(s) : f[n] = Step(s, S, f, n)
  BY <1>2
<1>4. 0 \notin T
  <2>1. f[0] = <<>> /\ upto(0) = {}
    BY <1>0, <1>3 DEF Step
  <2> QED BY <2>1, EmptyList
<1>5. ASSUME NEW n \in Nat, n + 1 <= Len(s), Good(n) PROVE Good(n + 1)
  <2>1. /\ n + 1 \in 0 .. Len(s) /\ n + 1 # 0 /\ (n + 1) - 1 = n /\ n + 1 \in 1 .. Len(s)
    BY <1>0, <1>5
  <2>2. f[n + 1] = IF s[n + 1] \in S THEN Append(f[n], s[n + 1]) ELSE f[n]
    BY <1>3, <2>1 DEF Step
  <2>3. upto(n + 1) = upto(n) \cup {s[n + 1]}
    <3>1. \A i \in 1 .. n + 1 : i \in 1 .. n \/ i = n + 1
      OBVIOUS
    <3>2. \A i \in 1 .. n : i \in 1 .. n + 1
      OBVIOUS
    <3> QED BY <2>1, <3>1, <3>2
  <2>4. IsInjective(s) => s[n + 1] \notin upto(n)
    <3>1. \A i \in 1 .. n : i \in 1 .. Len(s) /\ i # n + 1
      BY <1>0, <1>5
    <3> QED BY <1>0, <2>1, <3>1 DEF Reads
  <2> HIDE DEF upto
  <2>5. CASE s[n + 1] \in S
    <3>1. f[n + 1] = Append(f[n], s[n + 1]) /\ s[n + 1] \in U
      BY <1>0, <2>1, <2>2, <2>5
    <3>2. /\ Append(f[n], s[n + 1]) \in Seq(U)
          /\ ToSet(Append(f[n], s[n + 1])) = ToSet(f[n]) \cup {s[n + 1]}
          /\ IsInjective(f[n]) /\ s[n + 1] \notin ToSet(f[n]) => IsInjective(Append(f[n], s[n + 1]))
      BY <1>5, <3>1, AppendList
    <3> QED BY <1>5, <2>3, <2>4, <2>5, <3>1, <3>2
  <2>6. CASE s[n + 1] \notin S
    BY <1>5, <2>2, <2>3, <2>6
  <2> QED BY <2>5, <2>6
<1>6. \A n \in Nat : n + 1 \in T => n \in T
  <2> HIDE DEF Good
  <2> QED BY <1>0, <1>5
<1>7. T \in SUBSET Nat
  OBVIOUS
<1>8. T = {}
  <2> HIDE DEF T
  <2> QED BY <1>4, <1>6, <1>7, NoFirstFailure
<1>9. Good(Len(s))
  <2> HIDE DEF Good
  <2> QED BY <1>0, <1>8
<1>10. upto(Len(s)) = ToSet(s)
  BY <1>0 DEF Reads
<1> QED BY <1>1, <1>9, <1>10

-------------------------------------------------------------------------------
(* The controller: who holds its generation.                               *)

Controllers ==
    [holders : SUBSET (Jobs \cup Feeders), sleeping : BOOLEAN, hold : {"none", "on", "past"},
     window : {"none", "open", "past"}]

OneTurn == \A x, y \in ctl.holders \cap (Msgs \cup Feeders) : x = y

HolderInv == ctl \in Controllers /\ OneTurn

(* What the controller's operations make of it: no new holder.             *)
NoNewHolder(c, d) == d \in Controllers /\ d.holders \subseteq c.holders

LEMMA ControllerSteps ==
    ASSUME NEW c \in Controllers, NEW x, NEW direct \in BOOLEAN
    PROVE  /\ NoNewHolder(c, c) /\ NoNewHolder(c, Slept(c)) /\ NoNewHolder(c, Settled(c))
           /\ NoNewHolder(c, Remembered(c, x)) /\ NoNewHolder(c, Cleared(c, x))
           /\ NoNewHolder(c, Extended(c)) /\ NoNewHolder(c, Released(c))
           /\ NoNewHolder(c, Gated(c, direct))
           /\ NoNewHolder(c, [c EXCEPT !.hold = "past"])
           /\ NoNewHolder(c, [c EXCEPT !.window = "past"])
           /\ NoNewHolder(c, [c EXCEPT !.holders = @ \ {x}])
<1>0. /\ c.holders \in SUBSET (Jobs \cup Feeders) /\ c.sleeping \in BOOLEAN
      /\ c.hold \in {"none", "on", "past"} /\ c.window \in {"none", "open", "past"}
      /\ c = [holders |-> c.holders, sleeping |-> c.sleeping, hold |-> c.hold, window |-> c.window]
  BY DEF Controllers
<1>1. /\ Slept(c) \in Controllers /\ Slept(c).holders = {} /\ ~ (Slept(c).holders # {})
  BY DEF Slept, Controllers
<1>2. /\ NoNewHolder(c, c) /\ NoNewHolder(c, Slept(c)) /\ NoNewHolder(c, Settled(c))
      /\ NoNewHolder(c, Cleared(c, x))
  BY <1>1 DEF NoNewHolder, Settled, Cleared
<1>3. /\ NoNewHolder(c, Remembered(c, x)) /\ NoNewHolder(c, Extended(c))
      /\ NoNewHolder(c, Released(c)) /\ NoNewHolder(c, [c EXCEPT !.hold = "past"])
      /\ NoNewHolder(c, [c EXCEPT !.window = "past"])
      /\ NoNewHolder(c, [c EXCEPT !.holders = @ \ {x}])
  BY DEF NoNewHolder, Remembered, Extended, Released, Controllers
<1>4. NoNewHolder(c, Woken(c, direct))
  <2> DEFINE w == IF direct /\ c.sleeping
                  THEN [c EXCEPT !.sleeping = FALSE, !.holders = {}] ELSE c
  <2>1. w \in Controllers /\ w.holders \subseteq c.holders
    BY DEF Controllers
  <2>2. Slept(w) = Slept(c)
    BY DEF Slept
  <2>3. Woken(c, direct) = Settled(w)
    BY DEF Woken
  <2> HIDE DEF w
  <2> QED BY <1>1, <2>1, <2>2, <2>3 DEF NoNewHolder, Settled
<1>5. NoNewHolder(c, Gated(c, direct))
  <2> DEFINE w == Woken(c, direct)
  <2>1. w \in Controllers /\ w.holders \subseteq c.holders
    BY <1>4 DEF NoNewHolder
  <2>2. Gated(c, direct) = IF Awake(w) \/ direct THEN w ELSE [w EXCEPT !.sleeping = TRUE]
    BY DEF Gated
  <2> HIDE DEF w
  <2>3. /\ [w EXCEPT !.sleeping = TRUE] \in Controllers
        /\ [w EXCEPT !.sleeping = TRUE].holders \subseteq c.holders
    BY <2>1 DEF Controllers
  <2> QED BY <2>1, <2>2, <2>3 DEF NoNewHolder
<1> QED BY <1>2, <1>3, <1>5

(* A step leaves no new holder, adds the result of a job of a turn that    *)
(* holds, or gives the generation to one turn alone.                       *)
LEMMA HolderStep ==
    ASSUME ctl \in Controllers, Next
    PROVE  /\ ctl' \in Controllers
           /\ \/ ctl'.holders \subseteq ctl.holders \cup Results
              \/ \E x : ctl'.holders = {x}
<1> DEFINE Goal == /\ ctl' \in Controllers
                   /\ \/ ctl'.holders \subseteq ctl.holders \cup Results
                      \/ \E x : ctl'.holders = {x}
<1> SUFFICES Goal
  OBVIOUS
<1>1. ASSUME NoNewHolder(ctl, ctl') PROVE Goal
  BY <1>1 DEF NoNewHolder
<1>2. \A x : /\ NoNewHolder(ctl, ctl) /\ NoNewHolder(ctl, Slept(ctl)) /\ NoNewHolder(ctl, Settled(ctl))
             /\ NoNewHolder(ctl, Remembered(ctl, x)) /\ NoNewHolder(ctl, Cleared(ctl, x))
             /\ NoNewHolder(ctl, Extended(ctl)) /\ NoNewHolder(ctl, Released(ctl))
             /\ NoNewHolder(ctl, [ctl EXCEPT !.hold = "past"])
             /\ NoNewHolder(ctl, [ctl EXCEPT !.window = "past"])
             /\ NoNewHolder(ctl, Without(x))
  BY ControllerSteps DEF Without
<1>3. ASSUME NEW t \in Msgs \cup Feeders, NEW next, Begin(t, next) PROVE Goal
  <2>1. ctl' = [sleeping |-> FALSE, hold |-> "on", window |-> "none", holders |-> {t}]
    BY <1>3 DEF Begin, Begun
  <2> QED BY <2>1 DEF Controllers, Jobs
<1>4. ASSUME NEW m \in Msgs, Handle(m) PROVE Goal
  <2>1. CASE Arrive(m)
    <3>1. \A direct \in BOOLEAN : NoNewHolder(ctl, Gated(ctl, direct))
      BY ControllerSteps
    <3>2. CASE m \in Direct
      <4>1. ctl' = Gated(ctl, TRUE)
        BY <2>1, <3>2 DEF Arrive, Gated, Woken
      <4> QED BY <1>1, <3>1, <4>1
    <3>3. CASE m \notin Direct
      <4>1. ctl' = Gated(ctl, FALSE)
        BY <2>1, <3>3 DEF Arrive, Gated, Woken
      <4> QED BY <1>1, <3>1, <4>1
    <3> QED BY <3>2, <3>3
  <2>2. CASE Peek(m) \/ PeekQueue(m) \/ Look(m) \/ LookQueue(m) \/ Park(m) \/ Enqueue(m)
    BY <1>1, <1>2, <2>2 DEF Peek, PeekQueue, Look, LookQueue, Park, Enqueue, controls
  <2>3. CASE QueueFull(m)
    BY <1>1, <1>2, <2>3 DEF QueueFull
  <2> QED BY <1>3, <1>4, <2>1, <2>2, <2>3 DEF Handle
<1>5. ASSUME NEW t \in Feeders, FollowUp(t) PROVE Goal
  <2>1. CASE Drain(t)
    BY <1>1, <1>2, <2>1 DEF Drain, controls
  <2>2. CASE Feed(t) \/ Return(t)
    BY <1>1, <1>2, <2>2 DEF Feed, Return
  <2> QED BY <1>3, <1>5, <2>1, <2>2 DEF FollowUp
<1>6. ASSUME NEW w \in Workers, Work(w) PROVE Goal
  <2>1. CASE Take(w) \/ Track(w) \/ TurnEnds(w) \/ TurnStops(w)
    BY <1>1, <1>2, <2>1 DEF Take, Track, TurnEnds, TurnStops, controls
  <2>2. CASE Guard(w)
    BY <1>1, <1>2, <2>2 DEF Guard
  <2>3. CASE Requeue(w) \/ Hold(w) \/ Release(w) \/ Untrack(w)
    BY <1>1, <1>2, <2>3 DEF Requeue, Hold, Release, Untrack
  <2>4. CASE ApplyResult(w)
    BY <1>1, <1>2, <2>4 DEF ApplyResult
  <2>5. CASE ReportError(w)
    <3> DEFINE c == Asked(job[w])
    <3>1. c \in Controllers /\ c.holders \subseteq ctl.holders
      BY <1>2 DEF NoNewHolder, Asked
    <3>2. ctl' = Cleared(c, job[w])
      BY <2>5 DEF ReportError
    <3> HIDE DEF c
    <3>3. NoNewHolder(c, Cleared(c, job[w]))
      BY <3>1, ControllerSteps
    <3> QED BY <1>1, <3>1, <3>2, <3>3 DEF NoNewHolder
  <2> QED BY <1>5, <1>6, <2>1, <2>2, <2>3, <2>4, <2>5 DEF Work, Feeders
<1>7. ASSUME NEW w \in Workers, Act(w) \/ Freeze(w) \/ Thaw(w) PROVE Goal
  <2>1. CASE Send(w) \/ Sleep(w) \/ Freeze(w) \/ Thaw(w)
    BY <1>1, <1>2, <2>1 DEF Send, Asked, Sleep, Freeze, Thaw, controls
  <2>2. ASSUME NEW r \in Results, Register(w, r) PROVE Goal
    <3>1. CASE ctl' = ctl
      BY <1>1, <1>2, <3>1
    <3>2. CASE ctl' = [ctl EXCEPT !.holders = @ \cup {r}]
      BY <3>2 DEF Controllers, Jobs
    <3> QED BY <2>2, <3>1, <3>2 DEF Register
  <2> QED BY <1>7, <2>1, <2>2 DEF Act
<1>8. ASSUME NEW r \in Results, JobEnds(r) \/ EnqueueResult(r) PROVE Goal
  BY <1>1, <1>2, <1>8 DEF JobEnds, EnqueueResult, controls
<1>9. ASSUME NEW t \in Feeders, FeedFails(t) \/ FeedRefused(t) \/ FollowUpFails(t) PROVE Goal
  BY <1>1, <1>2, <1>9 DEF FeedFails, FeedRefused, FollowUpFails, controls
<1>10. ASSUME Watch PROVE Goal
  <2>1. CASE Pass \/ Look(Watchdog) \/ LookQueue(Watchdog)
    BY <1>1, <1>2, <2>1 DEF Pass, Look, LookQueue, controls
  <2> QED BY <1>5, <1>10, <2>1 DEF Watch, Feeders
<1>11. ASSUME Lapse PROVE Goal
  BY <1>1, <1>2, <1>11 DEF Lapse
<1> QED BY <1>4, <1>6, <1>7, <1>8, <1>9, <1>10, <1>11 DEF Next

LEMMA HolderInvHolds == Spec => []HolderInv
<1>1. Init => HolderInv
  BY DEF Init, New, HolderInv, OneTurn, Controllers
<1>2. HolderInv /\ [Next]_vars => HolderInv'
  <2> SUFFICES ASSUME HolderInv, [Next]_vars PROVE HolderInv'
    OBVIOUS
  <2>1. CASE UNCHANGED vars
    BY <2>1 DEF HolderInv, OneTurn, vars, controls
  <2>2. CASE Next
    <3>1. ctl' \in Controllers /\ (\/ ctl'.holders \subseteq ctl.holders \cup Results
                                   \/ \E x : ctl'.holders = {x})
      BY <2>2, HolderStep DEF HolderInv
    <3>2. Results \cap (Msgs \cup Feeders) = {}
      BY MsgsAssumption, ThreadsAssumption DEF Feeders
    <3> QED BY <3>1, <3>2 DEF HolderInv, OneTurn
  <2> QED BY <2>1, <2>2
<1> QED BY <1>1, <1>2, PTL DEF Spec

(* At most one turn of the conversation may answer, for every value of     *)
(* the constants: whoever holds the generation, of the messages and of the *)
(* follow-ups on their way only one does (_begin_reply_context_dispatch).  *)
THEOREM OneTurnAnswers == Spec => []OneMayReply
<1>1. HolderInv => OneMayReply
  BY DEF HolderInv, OneTurn, OneMayReply, InFlight
<1> QED BY <1>1, HolderInvHolds, PTL

-------------------------------------------------------------------------------
(* Where a message or a result is: with its handler or its job, in the    *)
(* queue, in the buffer, with a worker that has not begun its turn or in   *)
(* the hand of a follow-up, or done with.                                  *)
Early == {"taken", "guard", "requeue"}
Holding == {"begin", "feed", "return"}

Outside == {j \in Jobs : pc[j] \notin {"accepted", "refused"}}
Queued == ToSet(queue)
Parked == ToSet(buffer)
Own(t) == ToSet(hand[t]) \cup {j \in Jobs : t \in Workers /\ pc[t] \in Early /\ job[t] = j}
Done == {m \in Msgs : turns[m] > 0} \cup fed \cup lost

AtMostOnePlace(j) ==
    /\ j \in Outside => j \notin Queued \cup Parked \cup Done
    /\ j \in Queued => j \notin Parked \cup Done
    /\ j \in Parked => j \notin Done
    /\ \A t \in Feeders : j \in Own(t) => j \notin Outside \cup Queued \cup Parked \cup Done
    /\ \A t, u \in Feeders : j \in Own(t) /\ j \in Own(u) => t = u

SomePlace(m) ==
    m \in Outside \cup Queued \cup Parked \cup Done \/ \E t \in Feeders : m \in Own(t)

Places ==
    /\ \A j \in Jobs : AtMostOnePlace(j)
    /\ \A m \in Msgs : SomePlace(m)
    /\ \A m \in Msgs : turns[m] = 1 => m \notin fed

Once ==
    /\ IsInjective(queue) /\ IsInjective(buffer)
    /\ \A t \in Feeders : IsInjective(hand[t])

Labels ==
    {"out", "ignored", "peek", "peekqueue", "look", "lookqueue", "park", "begin", "enqueue", "full",
     "accepted", "refused", "running", "result", "idle", "taken", "guard", "requeue", "turn", "apply", "hold", "report",
     "release", "untrack", "drain", "feed", "return"}

Threads ==
    /\ active \subseteq alive /\ frozen \subseteq alive /\ alive \subseteq Workers
    /\ pc \in [Feeders \cup Jobs -> Labels]
    /\ job \in [Workers -> Jobs \cup {NoJob}]
    /\ \A w \in Workers : /\ job[w] = NoJob <=> pc[w] = "idle"
                          /\ pc[w] # "idle" => w \in alive
                          /\ pc[w] = "requeue" => job[w] \in Msgs

Books ==
    /\ queue \in Seq(Jobs) /\ Len(queue) <= QueueSize
    /\ buffer \in Seq(Msgs)
    /\ hand \in [Feeders -> Seq(Msgs)]
    /\ \A t \in Feeders : hand[t] # <<>> <=> pc[t] \in Holding
    /\ turns \in [Msgs -> 0 .. 1]
    /\ fed \subseteq Msgs /\ lost \subseteq Msgs /\ replies \subseteq Results

PlaceInv == Threads /\ Books /\ Once /\ Places

LEMMA SubsetOfSize ==
    ASSUME NEW S, IsFiniteSet(S), NEW n \in 0 .. Cardinality(S)
    PROVE  \E U \in SUBSET S : Cardinality(U) = n
<1> DEFINE T == {k \in Nat : k <= Cardinality(S) /\ ~ \E U \in SUBSET S : Cardinality(U) = k}
<1>0. Cardinality(S) \in Nat
  BY FS_CardinalityType
<1>1. 0 \notin T
  <2>1. {} \in SUBSET S /\ Cardinality({}) = 0
    BY FS_EmptySet
  <2> QED BY <2>1
<1>2. \A k \in Nat : k + 1 \in T => k \in T
  <2> SUFFICES ASSUME NEW k \in Nat, k + 1 <= Cardinality(S), NEW U \in SUBSET S, Cardinality(U) = k
               PROVE  \E V \in SUBSET S : Cardinality(V) = k + 1
    BY <1>0
  <2>1. IsFiniteSet(U) /\ U # S
    BY <1>0, FS_Subset
  <2>2. PICK x \in S : x \notin U
    BY <2>1
  <2>3. Cardinality(U \cup {x}) = k + 1 /\ U \cup {x} \in SUBSET S
    BY <2>1, <2>2, FS_AddElement
  <2> QED BY <2>3
<1>3. T \in SUBSET Nat
  OBVIOUS
<1> HIDE DEF T
<1>4. T = {}
  BY <1>1, <1>2, <1>3, NoFirstFailure
<1> QED BY <1>0, <1>4 DEF T

(* Replacements come from the workers not started yet.                     *)
LEMMA GrownTypes ==
    ASSUME alive \subseteq Workers, NEW n \in Nat
    PROVE  alive \subseteq Grown(n) /\ Grown(n) \subseteq Workers
<1> DEFINE spare == Workers \ alive
           room == IF n < Cardinality(spare) THEN n ELSE Cardinality(spare)
<1>1. IsFiniteSet(spare) /\ Cardinality(spare) \in Nat
  BY ThreadsAssumption, FS_Difference, FS_CardinalityType
<1>2. \E new \in SUBSET spare : Cardinality(new) = room
  <2>1. room \in 0 .. Cardinality(spare)
    BY <1>1
  <2> HIDE DEF room, spare
  <2> QED BY <1>1, <2>1, SubsetOfSize
<1>3. (CHOOSE new \in SUBSET spare : Cardinality(new) = room) \in SUBSET spare
  <2> HIDE DEF room, spare
  <2> QED BY <1>2
<1> QED BY <1>3 DEF Grown

LEMMA PassTypes ==
    ASSUME Threads, Pass
    PROVE  alive \subseteq alive' /\ alive' \subseteq Workers
<1>1. IsFiniteSet(Stuck)
  <2>1. Stuck \in SUBSET Workers
    BY DEF Threads, Stuck
  <2> QED BY <2>1, ThreadsAssumption, FS_Subset
<1>2. PICK n \in Nat : n = Cardinality(Stuck)
  BY <1>1, FS_CardinalityType
<1>3. alive' = Grown(n)
  BY <1>2 DEF Pass
<1>4. alive \subseteq Grown(n) /\ Grown(n) \subseteq Workers
  BY <1>2, GrownTypes DEF Threads
<1> QED BY <1>3, <1>4

LEMMA ThreadsStep == Threads /\ Books /\ Next => Threads'
<1> SUFFICES ASSUME Threads, Books, Next PROVE Threads'
  OBVIOUS
<1>0. /\ \A t \in Feeders \cup Jobs : pc[t] \in Labels
      /\ DOMAIN pc = Feeders \cup Jobs
      /\ Workers \subseteq Feeders /\ Watchdog \in Feeders /\ Watchdog \notin Workers
      /\ Msgs \subseteq Jobs /\ Results \subseteq Jobs /\ Workers \cap Jobs = {}
      /\ NoJob \notin Jobs
  BY ThreadsAssumption, NoJobAssumption DEF Threads, Feeders, Jobs
(* A thread of no job's goes on: its handlers, results and the watchdog.   *)
<1>1. ASSUME NEW t \in Feeders \cup Jobs, t \notin Workers, NEW label \in Labels, Goto(t, label),
             UNCHANGED <<job, active, alive, frozen>>
      PROVE  Threads'
  BY <1>0, <1>1 DEF Threads, Goto, Labels
(* A worker goes on with its job.                                          *)
<1>2. ASSUME NEW w \in Workers, NEW label \in Labels \ {"idle", "requeue"}, Goto(w, label),
             pc[w] # "idle", active' \subseteq active \cup {w}, UNCHANGED <<job, alive, frozen>>
      PROVE  Threads'
  BY <1>0, <1>2 DEF Threads, Goto, Labels
<1>3. ASSUME UNCHANGED <<pc, job, active, alive>>, frozen' \subseteq alive
      PROVE  Threads'
  BY <1>3 DEF Threads
<1>4. ASSUME NEW m \in Msgs, Handle(m) PROVE Threads'
  <2>1. m \in Feeders \cup Jobs /\ m \notin Workers
    BY <1>0
  <2>2. UNCHANGED <<job, active, alive, frozen>>
    BY <1>4 DEF Handle, Arrive, Peek, PeekQueue, Look, LookQueue, Park, Begin, Enqueue, QueueFull,
                    threads
  <2>3. CASE Arrive(m)
    BY <1>1, <2>1, <2>2, <2>3 DEF Arrive, Labels
  <2>4. CASE Peek(m) \/ PeekQueue(m) \/ Look(m) \/ LookQueue(m)
    BY <1>1, <2>1, <2>2, <2>4 DEF Peek, PeekQueue, Look, LookQueue, Busy, Free, Labels
  <2>5. CASE Park(m) \/ Begin(m, "enqueue") \/ Enqueue(m) \/ QueueFull(m)
    BY <1>1, <2>1, <2>2, <2>5 DEF Park, Begin, Enqueue, QueueFull, Labels
  <2> QED BY <1>4, <2>3, <2>4, <2>5 DEF Handle
<1>5. ASSUME NEW t \in Feeders,
             FollowUp(t) \/ FeedFails(t) \/ FeedRefused(t) \/ FollowUpFails(t)
      PROVE  Threads'
  <2>1. /\ UNCHANGED <<job, active, alive, frozen>>
        /\ pc[t] \in {"drain", "begin", "feed", "return"}
        /\ \E label \in {"begin", "feed", "return", IF t = Watchdog THEN "idle" ELSE "report"}
                        \cup {Back(t)} : Goto(t, label)
    BY <1>5 DEF FollowUp, FeedFails, FeedRefused, FollowUpFails, Drain, Begin, Feed, Return,
                threads
  <2>2. CASE t \in Workers
    BY <1>0, <1>2, <2>1, <2>2 DEF Back, Labels
  <2>3. CASE t \notin Workers
    BY <1>0, <1>1, <1>5, <2>1, <2>3 DEF Back, Labels, Feeders
  <2> QED BY <2>2, <2>3
<1>6. ASSUME NEW w \in Workers, Work(w) PROVE Threads'
  <2>1. CASE Take(w)
    <3>1. Head(queue) \in Jobs
      BY <2>1, TailList DEF Books, Take
    <3>2. w \in alive
      BY <2>1 DEF Take, IdleWorkers
    <3> QED BY <1>0, <2>1, <3>1, <3>2 DEF Labels, Threads, Take, Goto, threads
  <2>2. CASE Track(w)
    BY <1>2, <2>2 DEF Labels, Track, threads
  <2>3. CASE Guard(w)
    <3>1. CASE Passes(job[w])
      BY <1>2, <2>3, <3>1 DEF Labels, Guard, threads
    <3>2. CASE ~ Passes(job[w])
      <4>1. job[w] \in Msgs
        BY <1>0, <2>3, <3>2 DEF Guard, Passes, Threads, Jobs
      <4> QED BY <1>0, <2>3, <3>2, <4>1 DEF Labels, Guard, threads, Threads, Goto
    <3> QED BY <3>1, <3>2
  <2>4. CASE Requeue(w) \/ Hold(w) \/ Release(w) \/ ReportError(w) \/ ApplyResult(w)
    BY <1>2, <2>4 DEF Labels, Requeue, Hold, Release, ReportError, ApplyResult, threads
  <2>5. CASE TurnEnds(w) \/ TurnStops(w)
    BY <1>2, <2>5 DEF Labels, TurnEnds, TurnStops, InTurn, threads
  <2>6. CASE Untrack(w)
    BY <1>0, <2>6 DEF Labels, Untrack, Threads, Goto, threads
  <2> QED BY <1>0, <1>5, <1>6, <2>1, <2>2, <2>3, <2>4, <2>5, <2>6 DEF Work
<1>7. ASSUME NEW w \in Workers, Act(w) \/ Freeze(w) \/ Thaw(w) PROVE Threads'
  <2>1. CASE Send(w) \/ Sleep(w) \/ Thaw(w)
    BY <1>3, <2>1 DEF Labels, Send, Sleep, Thaw, threads, Threads
  <2>2. CASE Freeze(w)
    BY <1>3, <2>2 DEF Freeze, InTurn, Threads
  <2>3. ASSUME NEW r \in Results, Register(w, r) PROVE Threads'
    BY <1>0, <1>1, <2>3 DEF Labels, Register, threads
  <2> QED BY <1>7, <2>1, <2>2, <2>3 DEF Act
<1>8. ASSUME NEW r \in Results, JobEnds(r) \/ EnqueueResult(r) PROVE Threads'
  BY <1>0, <1>1, <1>8 DEF Labels, JobEnds, EnqueueResult, threads
<1>9. ASSUME Watch PROVE Threads'
  <2>1. CASE Pass
    <3>1. alive \subseteq alive' /\ alive' \subseteq Workers
      BY <2>1, PassTypes
    <3> QED BY <1>0, <2>1, <3>1 DEF Pass, Threads, Goto, Labels
  <2>2. CASE Look(Watchdog) \/ LookQueue(Watchdog)
    BY <1>0, <1>1, <2>2 DEF Labels, Look, LookQueue, Busy, Free, threads
  <2> QED BY <1>0, <1>5, <1>9, <2>1, <2>2 DEF Watch
<1>10. ASSUME Lapse PROVE Threads'
  BY <1>3, <1>10 DEF Labels, Lapse, threads, Threads
<1> QED BY <1>4, <1>5, <1>6, <1>7, <1>8, <1>9, <1>10 DEF Next

LEMMA Names ==
    /\ Workers \subseteq Feeders /\ Watchdog \in Feeders /\ Watchdog \notin Workers
    /\ Msgs \subseteq Jobs /\ Results \subseteq Jobs /\ Feeders \cap Jobs = {}
    /\ Msgs \cap Results = {} /\ Direct \subseteq Msgs /\ NoJob \notin Jobs
BY MsgsAssumption, ThreadsAssumption, NoJobAssumption DEF Feeders, Jobs

(* What the lists of the books hold.                                       *)
LEMMA BookLists ==
    ASSUME Books
    PROVE  /\ Queued \subseteq Jobs /\ Parked \subseteq Msgs /\ Done \subseteq Msgs
           /\ \A t \in Feeders : ToSet(hand[t]) \subseteq Msgs
           /\ \A t \in Feeders : pc[t] \notin Holding => hand[t] = <<>> /\ ToSet(hand[t]) = {}
<1>1. ToSet(queue) \subseteq Jobs /\ ToSet(buffer) \subseteq Msgs
  BY ListReads DEF Books
<1>2. \A t \in Feeders : ToSet(hand[t]) \subseteq Msgs
  BY ListReads DEF Books
<1>3. \A t \in Feeders : pc[t] \notin Holding => hand[t] = <<>> /\ ToSet(hand[t]) = {}
  BY EmptyList DEF Books
<1> QED BY <1>1, <1>2, <1>3 DEF Books, Queued, Parked, Done

(* A thread owns what it owned when its hand, its job and its part of the  *)
(* loop are the same.                                                      *)
Undisturbed(t) ==
    /\ hand'[t] = hand[t]
    /\ t \in Workers => /\ pc'[t] \in Early <=> pc[t] \in Early
                        /\ pc[t] \in Early => job'[t] = job[t]

LEMMA OwnSame ==
    ASSUME NEW t \in Feeders, Undisturbed(t)
    PROVE  Own(t)' = Own(t)
BY DEF Own, Undisturbed

(* Nothing moves: the lists are the same, and only one thread goes on,     *)
(* within its part of the loop.                                            *)
LEMMA Unmoved ==
    ASSUME Threads, Books, Once, Places, UNCHANGED <<queue, buffer, hand, turns, fed, lost>>,
           replies' \subseteq Results,
           NEW t \in Feeders \cup Jobs, NEW label, Goto(t, label),
           t \in Jobs => {pc[t], label} \cap {"accepted", "refused"} = {},
           t \in Workers => /\ pc[t] \in Early <=> label \in Early
                            /\ pc[t] \in Early => job' = job
                            /\ \A w \in Workers \ {t} : job'[w] = job[w],
           t \notin Workers => job' = job,
           t \in Feeders => (pc[t] \in Holding <=> label \in Holding)
    PROVE  Books' /\ Once' /\ Places'
<1>1. \A x \in Feeders \cup Jobs : pc'[x] = IF x = t THEN label ELSE pc[x]
  BY DEF Threads, Goto
<1>2. Books'
  BY <1>1, Names DEF Books
<1>3. Once'
  BY DEF Once
<1>4. /\ Queued' = Queued /\ Parked' = Parked /\ Done' = Done
      /\ Outside' = Outside
  BY <1>1, Names DEF Queued, Parked, Done, Outside
<1>5. \A u \in Feeders : Own(u)' = Own(u)
  <2> SUFFICES ASSUME NEW u \in Feeders PROVE Undisturbed(u)
    BY OwnSame
  <2> QED BY <1>1, Names DEF Undisturbed
<1>6. Places'
  BY <1>4, <1>5 DEF Places, AtMostOnePlace, SomePlace
<1> QED BY <1>2, <1>3, <1>6

LEMMA Standing ==
    ASSUME Threads, Books, Once, Places,
           UNCHANGED <<queue, buffer, hand, turns, fed, lost, pc, job, replies>>
    PROVE  Books' /\ Once' /\ Places'
<1>1. Books' /\ Once'
  BY DEF Books, Once
<1>2. /\ Queued' = Queued /\ Parked' = Parked /\ Done' = Done
      /\ Outside' = Outside
  BY DEF Queued, Parked, Done, Outside
<1>3. \A u \in Feeders : Own(u)' = Own(u)
  BY DEF Own
<1> QED BY <1>1, <1>2, <1>3 DEF Places, AtMostOnePlace, SomePlace

LEMMA ParkStep ==
    ASSUME PlaceInv, NEW m \in Msgs, Park(m)
    PROVE  Books' /\ Once' /\ Places'
<1> DEFINE all == Append(buffer, m)
           over == Over(all, BufferLimit)
           out == ToSet(SubSeq(all, 1, over))
<1>0. /\ pc[m] = "park" /\ pc' = [pc EXCEPT ![m] = "accepted"]
      /\ buffer' = SubSeq(all, over + 1, Len(all)) /\ lost' = lost \cup out
      /\ UNCHANGED <<queue, hand, job, turns, fed, replies>>
  BY DEF Park, Goto
<1>1. \A x \in Feeders \cup Jobs : pc'[x] = IF x = m THEN "accepted" ELSE pc[x]
  BY <1>0, Names DEF PlaceInv, Threads
<1>2. m \in Outside /\ m \notin Queued \cup Parked \cup Done /\ \A t \in Feeders : m \notin Own(t)
  BY <1>0, Names DEF Outside, PlaceInv, Places, AtMostOnePlace
<1>3. /\ all \in Seq(Msgs) /\ ToSet(all) = Parked \cup {m} /\ IsInjective(all)
  BY <1>2, AppendList DEF PlaceInv, Books, Once, Parked
<1> HIDE DEF all
<1>4. over \in 0 .. Len(all)
  BY <1>3, OverRange, BoundsAssumption
<1> HIDE DEF over
<1>5. /\ buffer' \in Seq(Msgs) /\ IsInjective(buffer') /\ out \cup ToSet(buffer') = Parked \cup {m}
      /\ out \cap ToSet(buffer') = {}
  BY <1>0, <1>3, <1>4, SplitList
<1> HIDE DEF out
<1>6. /\ Queued' = Queued /\ Outside' = Outside \ {m} /\ out \cup Parked' = Parked \cup {m}
      /\ out \cap Parked' = {} /\ Done' = Done \cup out
  BY <1>0, <1>1, <1>5, Names DEF Queued, Outside, Parked, Done
<1>7. \A u \in Feeders : Own(u)' = Own(u)
  <2> SUFFICES ASSUME NEW u \in Feeders PROVE Undisturbed(u)
    BY OwnSame
  <2> QED BY <1>0, <1>1, Names DEF Undisturbed
<1>8. Books'
  <2>1. Parked \subseteq Msgs
    BY BookLists DEF PlaceInv
  <2> QED BY <1>0, <1>1, <1>5, <2>1, Names DEF Books, PlaceInv
<1>9. Once'
  BY <1>0, <1>5 DEF Once, PlaceInv
<1>10. Places'
  <2>1. ASSUME NEW j \in Jobs PROVE AtMostOnePlace(j)'
    <3>1. AtMostOnePlace(j)
      BY DEF PlaceInv, Places
    <3> QED BY <1>2, <1>6, <1>7, <3>1 DEF AtMostOnePlace
  <2>2. ASSUME NEW j \in Msgs PROVE SomePlace(j)'
    <3>1. SomePlace(j)
      BY DEF PlaceInv, Places
    <3> QED BY <1>2, <1>6, <1>7, <3>1 DEF SomePlace
  <2>3. \A j \in Msgs : turns'[j] = 1 => j \notin fed'
    BY <1>0 DEF PlaceInv, Places
  <2> QED BY <2>1, <2>2, <2>3 DEF Places
<1> QED BY <1>8, <1>9, <1>10

LEMMA EnqueueStep ==
    ASSUME PlaceInv, NEW x \in Jobs, pc[x] \in Labels \ {"accepted", "refused"},
           Len(queue) < QueueSize, queue' = Append(queue, x), Goto(x, "accepted"),
           UNCHANGED <<buffer, hand, job, turns, fed, lost, replies>>
    PROVE  Books' /\ Once' /\ Places'
<1>1. \A y \in Feeders \cup Jobs : pc'[y] = IF y = x THEN "accepted" ELSE pc[y]
  BY Names DEF PlaceInv, Threads, Goto
<1>2. x \in Outside /\ x \notin Queued \cup Parked \cup Done /\ \A t \in Feeders : x \notin Own(t)
  BY Names DEF Outside, PlaceInv, Places, AtMostOnePlace
<1>3. /\ queue' \in Seq(Jobs) /\ Len(queue') = Len(queue) + 1 /\ IsInjective(queue')
      /\ ToSet(queue') = Queued \cup {x}
  BY <1>2, AppendList DEF PlaceInv, Books, Once, Queued
<1>4. /\ Queued' = Queued \cup {x} /\ Outside' = Outside \ {x}
      /\ Parked' = Parked /\ Done' = Done
  BY <1>1, <1>3, Names DEF Queued, Outside, Parked, Done
<1>5. \A u \in Feeders : Own(u)' = Own(u)
  <2> SUFFICES ASSUME NEW u \in Feeders PROVE Undisturbed(u)
    BY OwnSame
  <2> QED BY <1>1, Names DEF Undisturbed
<1>6. Books'
  <2>1. Len(queue) \in Nat /\ QueueSize \in Nat
    BY ListReads, BoundsAssumption DEF PlaceInv, Books, Reads
  <2>2. Len(queue') <= QueueSize
    BY <1>3, <2>1
  <2> QED BY <1>1, <1>3, <2>2, Names DEF Books, PlaceInv
<1>7. Once'
  BY <1>3 DEF Once, PlaceInv
<1>8. Places'
  <2>1. ASSUME NEW j \in Jobs PROVE AtMostOnePlace(j)'
    <3>1. AtMostOnePlace(j)
      BY DEF PlaceInv, Places
    <3> QED BY <1>2, <1>4, <1>5, <3>1 DEF AtMostOnePlace
  <2>2. ASSUME NEW j \in Msgs PROVE SomePlace(j)'
    <3>1. SomePlace(j)
      BY DEF PlaceInv, Places
    <3> QED BY <1>2, <1>4, <1>5, <3>1 DEF SomePlace
  <2> QED BY <2>1, <2>2 DEF Places, PlaceInv
<1> QED BY <1>6, <1>7, <1>8

LEMMA QueueFullStep ==
    ASSUME PlaceInv, NEW m \in Msgs, QueueFull(m)
    PROVE  Books' /\ Once' /\ Places'
<1>0. /\ pc[m] = "full" /\ Goto(m, "refused") /\ lost' = lost \cup {m}
      /\ UNCHANGED <<queue, buffer, hand, job, turns, fed, replies>>
  BY DEF QueueFull
<1>1. \A y \in Feeders \cup Jobs : pc'[y] = IF y = m THEN "refused" ELSE pc[y]
  BY <1>0, Names DEF PlaceInv, Threads, Goto
<1>2. m \in Outside /\ m \notin Queued \cup Parked \cup Done /\ \A t \in Feeders : m \notin Own(t)
  BY <1>0, Names DEF Outside, PlaceInv, Places, AtMostOnePlace
<1>3. /\ Queued' = Queued /\ Outside' = Outside \ {m} /\ Parked' = Parked /\ Done' = Done \cup {m}
  BY <1>0, <1>1, Names DEF Queued, Outside, Parked, Done
<1>4. \A u \in Feeders : Own(u)' = Own(u)
  <2> SUFFICES ASSUME NEW u \in Feeders PROVE Undisturbed(u)
    BY OwnSame
  <2> QED BY <1>0, <1>1, Names DEF Undisturbed
<1>5. Books' /\ Once'
  BY <1>0, <1>1, Names DEF Books, Once, PlaceInv
<1>6. Places'
  <2>1. ASSUME NEW j \in Jobs PROVE AtMostOnePlace(j)'
    <3>1. AtMostOnePlace(j)
      BY DEF PlaceInv, Places
    <3> QED BY <1>2, <1>3, <1>4, <3>1 DEF AtMostOnePlace
  <2>2. ASSUME NEW j \in Msgs PROVE SomePlace(j)'
    <3>1. SomePlace(j)
      BY DEF PlaceInv, Places
    <3> QED BY <1>2, <1>3, <1>4, <3>1 DEF SomePlace
  <2> QED BY <1>0, <2>1, <2>2 DEF Places, PlaceInv
<1> QED BY <1>5, <1>6

(* The head of the queue becomes the worker's own.                         *)
LEMMA TakeStep ==
    ASSUME PlaceInv, NEW w \in Workers, Take(w)
    PROVE  Books' /\ Once' /\ Places'
<1> DEFINE x == Head(queue)
<1>0. /\ pc[w] = "idle" /\ Goto(w, "taken") /\ job' = [job EXCEPT ![w] = x] /\ queue # <<>>
      /\ queue' = Tail(queue) /\ UNCHANGED <<buffer, hand, turns, fed, lost, replies>>
  BY DEF Take, IdleWorkers, history
<1>1. \A y \in Feeders \cup Jobs : pc'[y] = IF y = w THEN "taken" ELSE pc[y]
  BY <1>0, Names DEF PlaceInv, Threads, Goto
<1>2. /\ queue' \in Seq(Jobs) /\ Len(queue') = Len(queue) - 1 /\ IsInjective(queue') /\ x \in Jobs
      /\ Queued = ToSet(queue') \cup {x} /\ x \notin ToSet(queue')
  BY <1>0, TailList DEF PlaceInv, Books, Once, Queued
<1> HIDE DEF x
<1>3. /\ Queued' = Queued \ {x} /\ x \in Queued /\ Outside' = Outside /\ Parked' = Parked
      /\ Done' = Done
  BY <1>0, <1>1, <1>2, Names DEF Queued, Outside, Parked, Done
<1>4. x \notin Outside \cup Parked \cup Done /\ \A t \in Feeders : x \notin Own(t)
  BY <1>2, <1>3 DEF PlaceInv, Places, AtMostOnePlace
<1>5. Own(w)' = {x} /\ \A u \in Feeders \ {w} : Own(u)' = Own(u)
  <2>1. ToSet(hand'[w]) = {}
    BY <1>0, Names, BookLists DEF PlaceInv, Holding
  <2>2. job'[w] = x /\ pc'[w] \in Early /\ \A v \in Workers \ {w} : job'[v] = job[v]
    BY <1>0, <1>1, <1>2, Names DEF PlaceInv, Threads, Early
  <2>3. ASSUME NEW u \in Feeders \ {w} PROVE Own(u)' = Own(u)
    <3>1. Undisturbed(u)
      BY <1>0, <1>1, <2>2, Names DEF Undisturbed
    <3> QED BY <3>1, OwnSame
  <2> QED BY <1>2, <2>1, <2>2, <2>3 DEF Own
<1>6. Books'
  <2>1. Len(queue) \in Nat /\ QueueSize \in Nat /\ Len(queue) <= QueueSize
    BY ListReads, BoundsAssumption DEF PlaceInv, Books, Reads
  <2>2. Len(queue') <= QueueSize
    BY <1>2, <2>1
  <2> QED BY <1>0, <1>1, <1>2, <2>2, Names DEF Books, PlaceInv, Holding
<1>7. Once'
  BY <1>0, <1>2 DEF Once, PlaceInv
<1>8. Places'
  <2>0. w \in Feeders
    BY Names
  <2>1. ASSUME NEW j \in Jobs PROVE AtMostOnePlace(j)'
    <3>1. AtMostOnePlace(j)
      BY DEF PlaceInv, Places
    <3> QED BY <1>3, <1>4, <1>5, <2>0, <3>1 DEF AtMostOnePlace
  <2>2. ASSUME NEW j \in Msgs PROVE SomePlace(j)'
    <3>1. SomePlace(j)
      BY DEF PlaceInv, Places
    <3>2. Own(w) = {}
      <4>1. ToSet(hand[w]) = {} /\ pc[w] \notin Early
        BY <1>0, <2>0, BookLists DEF PlaceInv, Holding, Early
      <4> QED BY <4>1 DEF Own
    <3> QED BY <1>3, <1>4, <1>5, <2>0, <3>1, <3>2 DEF SomePlace
  <2> QED BY <1>0, <2>1, <2>2 DEF Places, PlaceInv
<1> QED BY <1>6, <1>7, <1>8

(* The guard lets the job into its turn: it is the worker's no more.       *)
LEMMA GuardStep ==
    ASSUME PlaceInv, NEW w \in Workers, Guard(w), Passes(job[w])
    PROVE  Books' /\ Once' /\ Places'
<1> DEFINE x == job[w]
<1>0. /\ pc[w] = "guard" /\ Goto(w, "turn") /\ turns' = Given(x)
      /\ UNCHANGED <<queue, buffer, hand, job, fed, lost, replies>>
  BY DEF Guard
<1>1. \A y \in Feeders \cup Jobs : pc'[y] = IF y = w THEN "turn" ELSE pc[y]
  BY <1>0, Names DEF PlaceInv, Threads, Goto
<1>2. x \in Jobs /\ Own(w) = {x} /\ w \in Feeders
  <2>1. x \in Jobs
    BY <1>0 DEF PlaceInv, Threads
  <2>2. ToSet(hand[w]) = {}
    BY <1>0, Names, BookLists DEF PlaceInv, Holding
  <2> QED BY <1>0, <2>1, <2>2, Names DEF Own, Early
<1> HIDE DEF x
<1>3. /\ x \notin Outside \cup Queued \cup Parked \cup Done
      /\ \A t \in Feeders \ {w} : x \notin Own(t)
  BY <1>2 DEF PlaceInv, Places, AtMostOnePlace
<1>4. /\ turns' \in [Msgs -> 0 .. 1]
      /\ \A m \in Msgs : turns'[m] = IF m = x THEN 1 ELSE turns[m]
  <2>1. CASE x \in Msgs
    <3>1. turns[x] = 0
      BY <1>3, <2>1 DEF Done, PlaceInv, Books
    <3>2. turns' = [turns EXCEPT ![x] = @ + 1]
      BY <1>0, <2>1 DEF Given
    <3> QED BY <2>1, <3>1, <3>2 DEF PlaceInv, Books
  <2>2. CASE x \notin Msgs
    BY <1>0, <2>2 DEF Given, PlaceInv, Books
  <2> QED BY <2>1, <2>2
<1>5. /\ Queued' = Queued /\ Outside' = Outside /\ Parked' = Parked
      /\ Done' = Done \cup ({x} \cap Msgs)
  <2>1. Done' = Done \cup ({x} \cap Msgs)
    BY <1>0, <1>4 DEF Done
  <2> QED BY <1>0, <1>1, <2>1, Names DEF Queued, Outside, Parked
<1>6. Own(w)' = {} /\ \A u \in Feeders \ {w} : Own(u)' = Own(u)
  <2>1. ToSet(hand'[w]) = {}
    BY <1>0, Names, BookLists DEF PlaceInv, Holding
  <2>2. ASSUME NEW u \in Feeders \ {w} PROVE Own(u)' = Own(u)
    <3>1. Undisturbed(u)
      BY <1>0, <1>1, Names DEF Undisturbed
    <3> QED BY <3>1, OwnSame
  <2> QED BY <1>1, <1>2, <2>1, <2>2 DEF Own, Early
<1>7. Books' /\ Once'
  BY <1>0, <1>1, <1>4, Names DEF Books, Once, PlaceInv, Holding
<1>8. Places'
  <2>1. ASSUME NEW j \in Jobs PROVE AtMostOnePlace(j)'
    <3>1. AtMostOnePlace(j)
      BY DEF PlaceInv, Places
    <3> QED BY <1>2, <1>3, <1>5, <1>6, <3>1 DEF AtMostOnePlace
  <2>2. ASSUME NEW j \in Msgs PROVE SomePlace(j)'
    <3>1. SomePlace(j)
      BY DEF PlaceInv, Places
    <3> QED BY <1>2, <1>3, <1>5, <1>6, <3>1 DEF SomePlace
  <2>3. ASSUME NEW j \in Msgs, turns'[j] = 1 PROVE j \notin fed'
    BY <1>0, <1>3, <1>4, <2>3 DEF Places, PlaceInv, Done
  <2> QED BY <2>1, <2>2, <2>3 DEF Places
<1> QED BY <1>7, <1>8

(* A skipped message goes from its worker to the front of the buffer.      *)
LEMMA RequeueStep ==
    ASSUME PlaceInv, NEW w \in Workers, Requeue(w)
    PROVE  Books' /\ Once' /\ Places'
<1> DEFINE x == job[w]
<1>0. /\ pc[w] = "requeue" /\ Goto(w, "drain") /\ buffer' = <<x>> \o buffer
      /\ UNCHANGED <<queue, hand, job, turns, fed, lost, replies>>
  BY DEF Requeue, history
<1>1. \A y \in Feeders \cup Jobs : pc'[y] = IF y = w THEN "drain" ELSE pc[y]
  BY <1>0, Names DEF PlaceInv, Threads, Goto
<1>2. x \in Msgs /\ Own(w) = {x} /\ w \in Feeders
  <2>1. x \in Msgs
    BY <1>0 DEF PlaceInv, Threads
  <2>2. ToSet(hand[w]) = {}
    BY <1>0, Names, BookLists DEF PlaceInv, Holding
  <2> QED BY <1>0, <2>1, <2>2, Names DEF Own, Early
<1> HIDE DEF x
<1>3. /\ x \notin Outside \cup Queued \cup Parked \cup Done
      /\ \A t \in Feeders \ {w} : x \notin Own(t)
  BY <1>2, Names DEF PlaceInv, Places, AtMostOnePlace
<1>4. /\ buffer' \in Seq(Msgs) /\ IsInjective(buffer') /\ ToSet(buffer') = {x} \cup Parked
  <2>1. PICK e : e = <<>>
    OBVIOUS
  <2>2. PICK one : one = <<x>>
    OBVIOUS
  <2>3. one = Append(e, x) /\ buffer' = one \o buffer
    BY <1>0, <2>1, <2>2
  <2>4. e \in Seq(Msgs) /\ ToSet(e) = {} /\ IsInjective(e)
    BY <2>1, EmptyList
  <2>5. one \in Seq(Msgs) /\ ToSet(one) = {x} /\ IsInjective(one)
    BY <1>2, <2>3, <2>4, AppendList
  <2>6. ToSet(one) \cap ToSet(buffer) = {}
    BY <1>3, <2>5 DEF Parked
  <2>7. /\ one \o buffer \in Seq(Msgs) /\ IsInjective(one \o buffer)
        /\ ToSet(one \o buffer) = ToSet(one) \cup ToSet(buffer)
    BY <2>5, <2>6, JoinList DEF PlaceInv, Books, Once
  <2> QED BY <2>3, <2>5, <2>7 DEF Parked
<1>5. /\ Queued' = Queued /\ Outside' = Outside /\ Parked' = Parked \cup {x} /\ Done' = Done
  BY <1>0, <1>1, <1>4, Names DEF Queued, Outside, Parked, Done
<1>6. Own(w)' = {} /\ \A u \in Feeders \ {w} : Own(u)' = Own(u)
  <2>1. ToSet(hand'[w]) = {}
    BY <1>0, Names, BookLists DEF PlaceInv, Holding
  <2>2. ASSUME NEW u \in Feeders \ {w} PROVE Own(u)' = Own(u)
    <3>1. Undisturbed(u)
      BY <1>0, <1>1, Names DEF Undisturbed
    <3> QED BY <3>1, OwnSame
  <2> QED BY <1>1, <1>2, <2>1, <2>2 DEF Own, Early
<1>7. Books' /\ Once'
  BY <1>0, <1>1, <1>4, Names DEF Books, Once, PlaceInv, Holding
<1>8. Places'
  <2>1. ASSUME NEW j \in Jobs PROVE AtMostOnePlace(j)'
    <3>1. AtMostOnePlace(j)
      BY DEF PlaceInv, Places
    <3> QED BY <1>2, <1>3, <1>5, <1>6, <3>1 DEF AtMostOnePlace
  <2>2. ASSUME NEW j \in Msgs PROVE SomePlace(j)'
    <3>1. SomePlace(j)
      BY DEF PlaceInv, Places
    <3> QED BY <1>2, <1>3, <1>5, <1>6, <3>1 DEF SomePlace
  <2> QED BY <1>0, <2>1, <2>2 DEF Places, PlaceInv
<1> QED BY <1>7, <1>8

(* A follow-up empties the buffer into its hand, but for what its filter   *)
(* drops.                                                                  *)
LEMMA DrainStep ==
    ASSUME PlaceInv, NEW t \in Feeders, Drain(t)
    PROVE  Books' /\ Once' /\ Places'
<1> DEFINE kept == IF t \in only THEN Direct ELSE Msgs
           picked == Selected(buffer, kept)
           label == IF picked = <<>> THEN Back(t) ELSE "begin"
<1>0. /\ pc[t] = "drain" /\ Goto(t, label) /\ buffer' = <<>>
      /\ hand' = [hand EXCEPT ![t] = picked] /\ lost' = lost \cup (Parked \ kept)
      /\ UNCHANGED <<queue, job, turns, fed, replies>>
  <2>1. hand' = [hand EXCEPT ![t] = picked]
    BY DEF Drain
  <2>2. hand'[t] = picked
    BY <2>1 DEF PlaceInv, Books
  <2> QED BY <2>1, <2>2 DEF Drain, Parked
<1>1. /\ \A y \in Feeders \cup Jobs : pc'[y] = IF y = t THEN label ELSE pc[y]
      /\ label \in Holding <=> picked # <<>>
      /\ label \notin Early
  <2>1. Goto(t, label)
    BY <1>0
  <2>2. label \in Holding <=> picked # <<>>
    BY DEF Back, Holding
  <2>3. label \notin Early
    BY DEF Back, Early
  <2> HIDE DEF label
  <2> QED BY <2>1, <2>2, <2>3, Names DEF PlaceInv, Threads, Goto
<1>2. /\ picked \in Seq(Msgs) /\ IsInjective(picked) /\ ToSet(picked) = Parked \cap kept
  BY SelectedList DEF PlaceInv, Books, Once, Parked
<1> HIDE DEF picked, label, kept
<1>3. /\ Queued' = Queued /\ Outside' = Outside /\ Parked' = {} /\ Done' = Done \cup (Parked \ kept)
  BY <1>0, <1>1, EmptyList, Names DEF Queued, Outside, Parked, Done
<1>4. Own(t) = {} /\ Own(t)' = Parked \cap kept /\ \A u \in Feeders \ {t} : Own(u)' = Own(u)
  <2>1. ToSet(hand[t]) = {}
    BY <1>0, BookLists DEF PlaceInv, Holding
  <2>2. hand'[t] = picked
    BY <1>0 DEF PlaceInv, Books
  <2>3. ASSUME NEW u \in Feeders \ {t} PROVE Own(u)' = Own(u)
    <3>1. Undisturbed(u)
      BY <1>0, <1>1, Names DEF Undisturbed, PlaceInv, Books
    <3> QED BY <3>1, OwnSame
  <2> QED BY <1>0, <1>1, <1>2, <2>1, <2>2, <2>3 DEF Own, Early
<1>5. Parked \subseteq Msgs
  BY BookLists DEF PlaceInv
<1>6. Books'
  <2>1. buffer' \in Seq(Msgs) /\ lost' \subseteq Msgs
    BY <1>0, <1>5, EmptyList DEF PlaceInv, Books
  <2>2. hand' \in [Feeders -> Seq(Msgs)]
    BY <1>0, <1>2 DEF PlaceInv, Books
  <2>3. \A u \in Feeders : hand'[u] # <<>> <=> pc'[u] \in Holding
    BY <1>0, <1>1 DEF PlaceInv, Books
  <2> QED BY <1>0, <2>1, <2>2, <2>3 DEF Books, PlaceInv
<1>7. Once'
  <2>1. IsInjective(buffer')
    BY <1>0, EmptyList
  <2>2. \A u \in Feeders : IsInjective(hand'[u])
    BY <1>0, <1>2 DEF PlaceInv, Books, Once
  <2> QED BY <1>0, <2>1, <2>2 DEF Once, PlaceInv
<1>8. Places'
  <2>1. ASSUME NEW j \in Jobs PROVE AtMostOnePlace(j)'
    <3>1. AtMostOnePlace(j)
      BY DEF PlaceInv, Places
    <3>2. CASE j \in Parked
      <4>1. j \notin Outside \cup Queued \cup Done /\ \A u \in Feeders : j \notin Own(u)
        BY <3>1, <3>2 DEF AtMostOnePlace
      <4> QED BY <1>3, <1>4, <3>2, <4>1 DEF AtMostOnePlace
    <3>3. CASE j \notin Parked
      BY <1>3, <1>4, <3>1, <3>3 DEF AtMostOnePlace
    <3> QED BY <3>2, <3>3
  <2>2. ASSUME NEW j \in Msgs PROVE SomePlace(j)'
    <3>1. SomePlace(j)
      BY DEF PlaceInv, Places
    <3> QED BY <1>3, <1>4, <3>1 DEF SomePlace
  <2>3. \A j \in Msgs : turns'[j] = 1 => j \notin fed'
    BY <1>0 DEF PlaceInv, Places
  <2> QED BY <2>1, <2>2, <2>3 DEF Places
<1> QED BY <1>6, <1>7, <1>8

(* What leaves the hand of a follow-up is done with: shown to the session  *)
(* or lost.                                                                *)
LEMMA LeavesHand ==
    ASSUME PlaceInv, NEW t \in Feeders, NEW label, label \notin Early, label \notin Holding,
           pc[t] \in {"begin", "feed"}, pc' = [pc EXCEPT ![t] = label],
           hand' = [hand EXCEPT ![t] = <<>>],
           fed' \subseteq fed \cup ToSet(hand[t]),
           fed' \cup lost' = (fed \cup lost) \cup ToSet(hand[t]),
           UNCHANGED <<queue, buffer, job, turns, replies>>
    PROVE  Books' /\ Once' /\ Places'
<1> DEFINE batch == ToSet(hand[t])
<1>1. \A y \in Feeders \cup Jobs : pc'[y] = IF y = t THEN label ELSE pc[y]
  BY Names DEF PlaceInv, Threads
<1>2. hand'[t] = <<>> /\ ToSet(hand'[t]) = {} /\ batch \subseteq Msgs
  BY EmptyList, BookLists DEF PlaceInv, Books
<1>0. fed' \subseteq fed \cup batch /\ fed' \cup lost' = (fed \cup lost) \cup batch
  OBVIOUS
<1> HIDE DEF batch
<1>3. /\ Queued' = Queued /\ Outside' = Outside /\ Parked' = Parked /\ Done' = Done \cup batch
  BY <1>0, <1>1, Names DEF Queued, Outside, Parked, Done
<1>4. Own(t) = batch /\ Own(t)' = {} /\ \A u \in Feeders \ {t} : Own(u)' = Own(u)
  <2>1. ASSUME NEW u \in Feeders \ {t} PROVE Own(u)' = Own(u)
    <3>1. Undisturbed(u)
      BY <1>1, Names DEF Undisturbed, PlaceInv, Books
    <3> QED BY <3>1, OwnSame
  <2> QED BY <1>1, <1>2, <2>1 DEF Own, Early, batch
<1>5. Books' /\ Once'
  <2>1. /\ hand' \in [Feeders -> Seq(Msgs)]
        /\ \A u \in Feeders : hand'[u] # <<>> <=> pc'[u] \in Holding
        /\ \A u \in Feeders : IsInjective(hand'[u])
    BY <1>1, EmptyList DEF PlaceInv, Books, Once
  <2> QED BY <1>0, <1>2, <2>1 DEF Books, Once, PlaceInv
<1>6. Places'
  <2>1. ASSUME NEW j \in Jobs PROVE AtMostOnePlace(j)'
    <3>1. AtMostOnePlace(j)
      BY DEF PlaceInv, Places
    <3> QED BY <1>3, <1>4, <3>1 DEF AtMostOnePlace
  <2>2. ASSUME NEW j \in Msgs PROVE SomePlace(j)'
    <3>1. SomePlace(j)
      BY DEF PlaceInv, Places
    <3> QED BY <1>3, <1>4, <3>1 DEF SomePlace
  <2>3. ASSUME NEW j \in Msgs, turns'[j] = 1 PROVE j \notin fed'
    <3>1. j \in Done /\ j \notin fed
      BY <2>3 DEF Done, PlaceInv, Places
    <3>2. j \notin batch
      BY <1>4, <3>1, Names DEF PlaceInv, Places, AtMostOnePlace
    <3> QED BY <1>0, <3>1, <3>2
  <2> QED BY <2>1, <2>2, <2>3 DEF Places
<1> QED BY <1>5, <1>6

(* A batch shows its last messages, and leaves the others out.             *)
LEMMA FeedStep ==
    ASSUME PlaceInv, NEW t \in Feeders, Feed(t)
    PROVE  Books' /\ Once' /\ Places'
<1> DEFINE over == Over(hand[t], BatchLimit)
           F == ToSet(SubSeq(hand[t], over + 1, Len(hand[t])))
           L == ToSet(SubSeq(hand[t], 1, over))
<1>0. /\ pc[t] \in {"begin", "feed"} /\ pc' = [pc EXCEPT ![t] = Back(t)]
      /\ hand' = [hand EXCEPT ![t] = <<>>]
      /\ fed' = fed \cup F /\ lost' = lost \cup L
      /\ UNCHANGED <<queue, buffer, job, turns, replies>>
  BY DEF Feed, Goto
<1>1. Back(t) \notin Holding /\ Back(t) \notin Early
  BY DEF Back, Holding, Early
<1>2. F \cup L = ToSet(hand[t])
  <2>1. hand[t] \in Seq(Msgs)
    BY DEF PlaceInv, Books
  <2>2. over \in 0 .. Len(hand[t])
    BY <2>1, OverRange, BoundsAssumption
  <2> HIDE DEF over
  <2> QED BY <2>1, <2>2, SplitList
<1> HIDE DEF F, L
<1>3. /\ fed' \subseteq fed \cup ToSet(hand[t])
      /\ fed' \cup lost' = (fed \cup lost) \cup ToSet(hand[t])
  BY <1>0, <1>2
<1> QED BY <1>0, <1>1, <1>3, LeavesHand

(* A batch that is refused, or that an error takes along, is lost.         *)
LEMMA LoseStep ==
    ASSUME PlaceInv, NEW t \in Feeders, FeedRefused(t) \/ FollowUpFails(t)
    PROVE  Books' /\ Once' /\ Places'
<1>1. PICK label \in {Back(t), "idle", "report"} : pc' = [pc EXCEPT ![t] = label]
  BY DEF FeedRefused, FollowUpFails, Goto
<1>2. label \notin Holding /\ label \notin Early
  BY DEF Back, Holding, Early
<1>3. /\ pc[t] \in {"begin", "feed"} /\ hand' = [hand EXCEPT ![t] = <<>>]
      /\ fed' = fed /\ lost' = lost \cup ToSet(hand[t])
      /\ UNCHANGED <<queue, buffer, job, turns, replies>>
  BY DEF FeedRefused, FollowUpFails
<1>4. /\ fed' \subseteq fed \cup ToSet(hand[t])
      /\ fed' \cup lost' = (fed \cup lost) \cup ToSet(hand[t])
  BY <1>3
<1> QED BY <1>1, <1>2, <1>3, <1>4, LeavesHand

LEMMA ReturnStep ==
    ASSUME PlaceInv, NEW t \in Feeders, Return(t)
    PROVE  Books' /\ Once' /\ Places'
<1> DEFINE batch == ToSet(hand[t])
<1>0. /\ pc[t] = "return" /\ Goto(t, Back(t)) /\ hand' = [hand EXCEPT ![t] = <<>>]
      /\ buffer' = hand[t] \o buffer
      /\ UNCHANGED <<queue, fed, job, turns, lost, replies>>
  BY DEF Return, history
<1>1. /\ \A y \in Feeders \cup Jobs : pc'[y] = IF y = t THEN Back(t) ELSE pc[y]
      /\ Back(t) \notin Holding /\ Back(t) \notin Early
  BY <1>0, Names DEF PlaceInv, Threads, Goto, Back, Holding, Early
<1>2. hand'[t] = <<>> /\ ToSet(hand'[t]) = {} /\ batch \subseteq Msgs
  BY <1>0, EmptyList, BookLists DEF PlaceInv, Books
<1>3. Own(t) = batch
  BY <1>0 DEF Own, Early
<1>4. /\ buffer' \in Seq(Msgs) /\ IsInjective(buffer') /\ ToSet(buffer') = batch \cup Parked
  <2>1. batch \cap Parked = {}
    BY <1>2, <1>3, Names DEF PlaceInv, Places, AtMostOnePlace
  <2> QED BY <1>0, <2>1, JoinList DEF PlaceInv, Books, Once, Parked
<1> HIDE DEF batch
<1>5. /\ Queued' = Queued /\ Outside' = Outside /\ Parked' = Parked \cup batch /\ Done' = Done
  BY <1>0, <1>1, <1>4, Names DEF Queued, Outside, Parked, Done
<1>6. Own(t)' = {} /\ \A u \in Feeders \ {t} : Own(u)' = Own(u)
  <2>1. ASSUME NEW u \in Feeders \ {t} PROVE Own(u)' = Own(u)
    <3>1. Undisturbed(u)
      BY <1>0, <1>1, Names DEF Undisturbed, PlaceInv, Books
    <3> QED BY <3>1, OwnSame
  <2> QED BY <1>0, <1>1, <1>2, <2>1 DEF Own
<1>7. Books' /\ Once'
  <2>1. /\ hand' \in [Feeders -> Seq(Msgs)]
        /\ \A u \in Feeders : hand'[u] # <<>> <=> pc'[u] \in Holding
        /\ \A u \in Feeders : IsInjective(hand'[u])
    BY <1>0, <1>1, EmptyList DEF PlaceInv, Books, Once
  <2> QED BY <1>0, <1>4, <2>1 DEF Books, Once, PlaceInv
<1>8. Places'
  <2>1. ASSUME NEW j \in Jobs PROVE AtMostOnePlace(j)'
    <3>1. AtMostOnePlace(j)
      BY DEF PlaceInv, Places
    <3> QED BY <1>3, <1>5, <1>6, <3>1 DEF AtMostOnePlace
  <2>2. ASSUME NEW j \in Msgs PROVE SomePlace(j)'
    <3>1. SomePlace(j)
      BY DEF PlaceInv, Places
    <3> QED BY <1>3, <1>5, <1>6, <3>1 DEF SomePlace
  <2> QED BY <1>0, <2>1, <2>2 DEF Places, PlaceInv
<1> QED BY <1>7, <1>8

LEMMA PlaceInit == Init => PlaceInv
<1> SUFFICES ASSUME Init PROVE PlaceInv
  OBVIOUS
<1>1. Threads
  BY Names, ThreadsAssumption DEF Init, Threads, Labels
<1>2. /\ Books /\ Once
  <2>1. queue = <<>> /\ buffer = <<>> /\ \A t \in Feeders : hand[t] = <<>> /\ pc[t] = "idle"
    BY DEF Init
  <2>2. QueueSize \in Nat /\ Len(queue) = 0 /\ hand \in [Feeders -> Seq(Msgs)]
    BY BoundsAssumption, EmptyList DEF Init
  <2>3. /\ queue \in Seq(Jobs) /\ buffer \in Seq(Msgs)
        /\ IsInjective(queue) /\ IsInjective(buffer) /\ \A t \in Feeders : IsInjective(hand[t])
    BY <2>1, EmptyList
  <2> QED BY <2>1, <2>2, <2>3 DEF Init, Books, Once, Holding
<1>3. Places
  <2>1. Queued = {} /\ Parked = {} /\ Done = {}
    BY EmptyList DEF Init, Queued, Parked, Done
  <2>2. Outside = Jobs
    BY Names DEF Init, Outside
  <2>3. \A t \in Feeders : Own(t) = {}
    BY EmptyList, Names DEF Init, Own, Early
  <2> QED BY <2>1, <2>2, <2>3, Names DEF Places, AtMostOnePlace, SomePlace, Init
<1> QED BY <1>1, <1>2, <1>3 DEF PlaceInv

LEMMA PlaceStep == PlaceInv /\ Next => PlaceInv'
<1> DEFINE Goal == Books' /\ Once' /\ Places'
<1> SUFFICES ASSUME PlaceInv, Next PROVE Goal
  BY ThreadsStep DEF PlaceInv
<1>0. Threads /\ Books /\ Once /\ Places /\ replies \subseteq Results
  BY DEF PlaceInv, Books
(* The handler of a message goes on.                                       *)
<1>1. ASSUME NEW j \in Jobs, NEW label, Goto(j, label), {pc[j], label} \cap {"accepted", "refused"} = {},
             UNCHANGED <<queue, buffer, hand, turns, fed, lost, job>>, replies' \subseteq Results
      PROVE  Goal
  <2>1. j \notin Feeders /\ j \notin Workers
    BY Names
  <2> QED BY <1>0, <1>1, <2>1, Unmoved
(* A thread goes on within its part of the loop.                           *)
<1>2. ASSUME NEW t \in Feeders, NEW label, Goto(t, label),
             pc[t] \in Early <=> label \in Early, pc[t] \in Holding <=> label \in Holding,
             UNCHANGED <<queue, buffer, hand, turns, fed, lost, job, replies>>
      PROVE  Goal
  <2>1. t \notin Jobs
    BY Names
  <2> QED BY <1>0, <1>2, <2>1, Unmoved
<1>3. ASSUME NEW m \in Msgs, Handle(m) PROVE Goal
  <2>0. m \in Jobs /\ m \notin Feeders
    BY Names
  <2>1. CASE Arrive(m)
    <3>1. PICK label \in {"peek", "begin", "ignored"} : Goto(m, label)
      BY <2>1 DEF Arrive
    <3> QED BY <1>0, <1>1, <2>0, <2>1, <3>1 DEF Arrive
  <2>2. CASE Peek(m) \/ PeekQueue(m) \/ Look(m) \/ LookQueue(m)
    <3>1. PICK label \in {"peekqueue", "look", "lookqueue", "park", "begin"} : Goto(m, label)
      BY <2>0, <2>2, Names DEF Peek, PeekQueue, Look, LookQueue, Busy, Free
    <3> QED BY <1>0, <1>1, <2>0, <2>2, <3>1 DEF Peek, PeekQueue, Look, LookQueue, history
  <2>3. CASE Park(m)
    BY <2>3, ParkStep
  <2>4. CASE Begin(m, "enqueue")
    BY <1>0, <1>1, <2>0, <2>4 DEF Begin, history
  <2>5. CASE Enqueue(m)
    <3>1. CASE Len(queue) < QueueSize
      BY <2>0, <2>5, <3>1, EnqueueStep DEF Enqueue, history, Labels
    <3>2. CASE ~ (Len(queue) < QueueSize)
      BY <1>0, <1>1, <2>0, <2>5, <3>2 DEF Enqueue, history
    <3> QED BY <3>1, <3>2
  <2>6. CASE QueueFull(m)
    BY <2>6, QueueFullStep
  <2> QED BY <1>3, <2>1, <2>2, <2>3, <2>4, <2>5, <2>6 DEF Handle
<1>4. ASSUME NEW t \in Feeders,
             FollowUp(t) \/ FeedFails(t) \/ FeedRefused(t) \/ FollowUpFails(t)
      PROVE  Goal
  <2>1. CASE Begin(t, "feed")
    BY <1>2, <2>1 DEF Begin, history, Early, Holding
  <2>2. CASE FeedFails(t)
    BY <1>2, <2>2 DEF FeedFails, history, Early, Holding
  <2> QED BY <1>4, <2>1, <2>2, DrainStep, FeedStep, LoseStep, ReturnStep DEF FollowUp
<1>5. ASSUME NEW w \in Workers, Work(w) PROVE Goal
  <2>0. w \in Feeders /\ w \notin Jobs
    BY Names
  <2>1. CASE Take(w)
    BY <2>1, TakeStep
  <2>2. CASE Track(w)
    BY <1>2, <2>0, <2>2 DEF Track, history, Early, Holding
  <2>3. CASE Guard(w)
    <3>1. CASE Passes(job[w])
      BY <2>3, <3>1, GuardStep
    <3>2. CASE ~ Passes(job[w])
      BY <1>2, <2>0, <2>3, <3>2 DEF Guard, Early, Holding
    <3> QED BY <3>1, <3>2
  <2>4. CASE Requeue(w)
    BY <2>4, RequeueStep
  <2>5. CASE TurnEnds(w) \/ TurnStops(w)
    <3>1. PICK label \in {"apply", "hold", "report"} : Goto(w, label)
      BY <2>5 DEF TurnEnds, TurnStops
    <3>2. pc[w] = "turn" /\ UNCHANGED <<queue, buffer, hand, turns, fed, lost, job, replies>>
      BY <2>5 DEF TurnEnds, TurnStops, InTurn, history
    <3> QED BY <1>2, <2>0, <3>1, <3>2 DEF Early, Holding
  <2>6. CASE ApplyResult(w) \/ Hold(w) \/ ReportError(w) \/ Release(w)
    <3>1. PICK label \in {"hold", "drain", "release", "untrack"} : Goto(w, label)
      BY <2>6 DEF ApplyResult, Hold, ReportError, Release
    <3>2. /\ pc[w] \in {"apply", "hold", "report", "release"}
          /\ UNCHANGED <<queue, buffer, hand, turns, fed, lost, job, replies>>
      BY <2>6 DEF ApplyResult, Hold, ReportError, Release, history
    <3> QED BY <1>2, <2>0, <3>1, <3>2 DEF Early, Holding
  <2>7. CASE Untrack(w)
    <3>1. /\ pc[w] = "untrack" /\ Goto(w, "idle") /\ job' = [job EXCEPT ![w] = NoJob]
          /\ UNCHANGED <<queue, buffer, hand, turns, fed, lost, replies>>
      BY <2>7 DEF Untrack, history
    <3>2. \A v \in Workers \ {w} : job'[v] = job[v]
      BY <1>0, <3>1 DEF Threads
    <3> QED BY <1>0, <2>0, <3>1, <3>2, Unmoved DEF Early, Holding
  <2> QED BY <1>4, <1>5, <2>0, <2>1, <2>2, <2>3, <2>4, <2>5, <2>6, <2>7 DEF Work
<1>6. ASSUME NEW w \in Workers, Act(w) \/ Freeze(w) \/ Thaw(w) PROVE Goal
  <2>1. CASE Send(w) \/ Sleep(w) \/ Freeze(w) \/ Thaw(w)
    BY <1>0, <2>1, Standing DEF Send, Sleep, Freeze, Thaw, history
  <2>2. ASSUME NEW r \in Results, Register(w, r) PROVE Goal
    BY <1>0, <1>1, <2>2, Names DEF Register, history
  <2> QED BY <1>6, <2>1, <2>2 DEF Act
<1>7. ASSUME NEW r \in Results, JobEnds(r) \/ EnqueueResult(r) PROVE Goal
  <2>0. r \in Jobs
    BY Names
  <2>1. CASE JobEnds(r)
    BY <1>0, <1>1, <2>0, <2>1 DEF JobEnds, history
  <2>2. CASE EnqueueResult(r)
    BY <2>0, <2>2, EnqueueStep DEF EnqueueResult, history, Labels
  <2> QED BY <1>7, <2>1, <2>2
<1>8. ASSUME Watch PROVE Goal
  <2>0. Watchdog \in Feeders
    BY Names
  <2>1. CASE Pass \/ Look(Watchdog) \/ LookQueue(Watchdog)
    <3>1. /\ pc[Watchdog] \in {"idle", "look", "lookqueue"}
          /\ UNCHANGED <<queue, buffer, hand, turns, fed, lost, job, replies>>
      BY <2>1 DEF Pass, Look, LookQueue, history
    <3>2. PICK label \in {"idle", "look", "lookqueue", "drain"} : Goto(Watchdog, label)
      BY <2>1 DEF Pass, Look, LookQueue, Busy, Free
    <3> QED BY <1>2, <2>0, <3>1, <3>2 DEF Early, Holding
  <2> QED BY <1>4, <1>8, <2>0, <2>1 DEF Watch
<1>9. ASSUME Lapse PROVE Goal
  BY <1>0, <1>9, Standing DEF Lapse, history
<1> QED BY <1>3, <1>4, <1>5, <1>6, <1>7, <1>8, <1>9 DEF Next

LEMMA PlaceInvHolds == Spec => []PlaceInv
<1>1. PlaceInv /\ [Next]_vars => PlaceInv'
  <2>1. ASSUME PlaceInv, UNCHANGED vars PROVE PlaceInv'
    <3>1. Threads'
      BY <2>1 DEF PlaceInv, Threads, vars, threads
    <3> QED BY <2>1, <3>1, Standing DEF PlaceInv, vars, history
  <2> QED BY <2>1, PlaceStep
<1> QED BY <1>1, PlaceInit, PTL DEF Spec

(* The .log holds what handlers wrote and what a follow-up is done with.   *)
LogInv == logged \subseteq free \cup fed \cup lost

LEMMA LogStep == PlaceInv /\ LogInv /\ Next => LogInv'
<1> SUFFICES ASSUME PlaceInv, LogInv, Next PROVE LogInv'
  OBVIOUS
<1>1. ASSUME UNCHANGED log, fed \subseteq fed', lost \subseteq lost' PROVE LogInv'
  BY <1>1 DEF LogInv, log
<1>2. ASSUME UNCHANGED history PROVE LogInv'
  BY <1>2 DEF LogInv, history, log
<1>3. ASSUME NEW m, WriteLog(m), UNCHANGED <<fed, lost>> PROVE LogInv'
  BY <1>3 DEF LogInv, WriteLog
<1>4. ASSUME NEW m \in Msgs, Handle(m) PROVE LogInv'
  <2>1. CASE Arrive(m)
    BY <1>1, <1>3, <2>1 DEF Arrive
  <2>2. CASE PeekQueue(m)
    BY <1>1, <1>3, <2>2 DEF PeekQueue
  <2>3. CASE Park(m) \/ QueueFull(m)
    BY <1>1, <2>3 DEF Park, QueueFull
  <2>4. CASE Peek(m) \/ Look(m) \/ LookQueue(m) \/ Begin(m, "enqueue") \/ Enqueue(m)
    BY <1>2, <2>4 DEF Peek, Look, LookQueue, Begin, Enqueue
  <2> QED BY <1>4, <2>1, <2>2, <2>3, <2>4 DEF Handle
<1>5. ASSUME NEW t \in Feeders,
             FollowUp(t) \/ FeedFails(t) \/ FeedRefused(t) \/ FollowUpFails(t)
      PROVE  LogInv'
  <2>1. CASE Drain(t) \/ FollowUpFails(t)
    BY <1>1, <2>1 DEF Drain, FollowUpFails
  <2>2. CASE Feed(t)
    <3> DEFINE over == Over(hand[t], BatchLimit)
               F == ToSet(SubSeq(hand[t], over + 1, Len(hand[t])))
               L == ToSet(SubSeq(hand[t], 1, over))
    <3>1. /\ fed' = fed \cup F /\ lost' = lost \cup L /\ logged' = logged \cup ToSet(hand[t])
          /\ free' = free
      BY <2>2 DEF Feed
    <3>2. F \cup L = ToSet(hand[t])
      <4>1. hand[t] \in Seq(Msgs)
        BY DEF PlaceInv, Books
      <4>2. over \in 0 .. Len(hand[t])
        BY <4>1, OverRange, BoundsAssumption
      <4> HIDE DEF over
      <4> QED BY <4>1, <4>2, SplitList
    <3> HIDE DEF F, L
    <3> QED BY <3>1, <3>2 DEF LogInv
  <2>3. CASE FeedRefused(t)
    BY <2>3 DEF FeedRefused, LogInv
  <2>4. CASE Begin(t, "feed") \/ Return(t) \/ FeedFails(t)
    BY <1>2, <2>4 DEF Begin, Return, FeedFails
  <2> QED BY <1>5, <2>1, <2>2, <2>3, <2>4 DEF FollowUp
<1>6. ASSUME NEW w \in Workers, Work(w) \/ Act(w) \/ Freeze(w) \/ Thaw(w) PROVE LogInv'
  <2>1. CASE Guard(w)
    BY <1>1, <2>1 DEF Guard
  <2>2. CASE \/ Take(w) \/ Track(w) \/ Requeue(w) \/ TurnEnds(w) \/ TurnStops(w)
             \/ ApplyResult(w) \/ Hold(w) \/ ReportError(w) \/ Release(w) \/ Untrack(w)
    BY <1>2, <2>2 DEF Take, Track, Requeue, TurnEnds, TurnStops, ApplyResult, Hold, ReportError,
                      Release, Untrack
  <2>3. CASE Act(w) \/ Freeze(w) \/ Thaw(w)
    BY <1>2, <2>3 DEF Act, Send, Sleep, Register, Freeze, Thaw
  <2> QED BY <1>5, <1>6, <2>1, <2>2, <2>3, Names DEF Work
<1>7. ASSUME NEW r \in Results, JobEnds(r) \/ EnqueueResult(r) PROVE LogInv'
  BY <1>2, <1>7 DEF JobEnds, EnqueueResult
<1>8. ASSUME Watch PROVE LogInv'
  <2>1. CASE Pass \/ Look(Watchdog) \/ LookQueue(Watchdog)
    BY <1>2, <2>1 DEF Pass, Look, LookQueue
  <2> QED BY <1>5, <1>8, <2>1, Names DEF Watch
<1>9. ASSUME Lapse PROVE LogInv'
  BY <1>2, <1>9 DEF Lapse
<1> QED BY <1>4, <1>5, <1>6, <1>7, <1>8, <1>9 DEF Next

LEMMA LogInvHolds == Spec => []LogInv
<1>1. Init => LogInv
  BY DEF Init, LogInv
<1>2. PlaceInv /\ LogInv /\ [Next]_vars => LogInv'
  <2>1. ASSUME LogInv, UNCHANGED vars PROVE LogInv'
    BY <2>1 DEF LogInv, vars, history, log
  <2> QED BY <2>1, LogStep
<1> QED BY <1>1, <1>2, PlaceInvHolds, PTL DEF Spec

(* No message is the input of two turns, nor waits for another; while it   *)
(* waits for a follow-up only its own handler can have logged it           *)
(* (GivenOnce).                                                            *)
THEOREM EachTurnOnce == Spec => []GivenOnce
<1>1. PlaceInv /\ LogInv => GivenOnce
  <2> SUFFICES ASSUME PlaceInv, LogInv, NEW m \in Msgs
               PROVE  /\ turns[m] <= 1
                      /\ turns[m] = 1 => m \notin fed
                      /\ Answered(m) \/ m \in lost => ~ Waits(m)
                      /\ Batched(m) /\ m \in logged => m \in free
    BY DEF GivenOnce
  <2>1. turns[m] \in 0 .. 1 /\ (turns[m] = 1 => m \notin fed)
    BY DEF PlaceInv, Books, Places
  <2>2. ASSUME Answered(m) \/ m \in lost PROVE ~ Waits(m)
    <3>1. m \in Done
      BY <2>2 DEF Answered, Done
    <3>2. m \notin Queued \cup Parked /\ \A t \in Feeders : m \notin Own(t)
      BY <3>1, Names DEF PlaceInv, Places, AtMostOnePlace
    <3> QED BY <3>2, Names DEF Waits, Working, Queued, Parked, Own, Early
  <2>3. ASSUME Batched(m), m \in logged PROVE m \in free
    <3>1. m \notin fed /\ m \notin lost
      BY <2>2, <2>3 DEF Batched, Waits, Answered
    <3> QED BY <2>3, <3>1 DEF LogInv
  <2> QED BY <2>1, <2>2, <2>3
<1> QED BY <1>1, PlaceInvHolds, LogInvHolds, PTL

(* Every message accepted is given to a turn, waits for one, or was dropped *)
(* by a rule of the code (NothingVanishes).                                 *)
THEOREM NoMessageVanishes == Spec => []NothingVanishes
<1>1. PlaceInv /\ HolderInv => NothingVanishes
  <2> SUFFICES ASSUME PlaceInv, HolderInv PROVE NothingVanishes
    OBVIOUS
  <2>1. TypeOK
    <3>1. ToSet(queue) \subseteq Jobs /\ ToSet(buffer) \subseteq Msgs /\ DOMAIN pc = Feeders \cup Jobs
      BY ListReads DEF PlaceInv, Books, Threads
    <3> QED BY <3>1 DEF TypeOK, PlaceInv, Books, Threads, HolderInv, Controllers, Holding
  <2>2. ASSUME NEW m \in Msgs, pc[m] = "accepted" PROVE Waits(m) \/ Answered(m) \/ m \in lost
    <3>1. m \notin Outside
      BY <2>2 DEF Outside
    <3>2. SomePlace(m)
      BY DEF PlaceInv, Places
    <3>3. CASE m \in Queued \cup Parked
      BY <3>3 DEF Waits, Queued, Parked
    <3>4. CASE m \in Done
      BY <3>4 DEF Done, Answered
    <3>5. ASSUME NEW t \in Feeders, m \in Own(t) PROVE Waits(m)
      BY <3>5 DEF Own, Waits, Working, Early
    <3> QED BY <3>1, <3>2, <3>3, <3>4, <3>5 DEF SomePlace
  <2> QED BY <2>1, <2>2 DEF NothingVanishes
<1> QED BY <1>1, PlaceInvHolds, HolderInvHolds, PTL
==============================================================================
