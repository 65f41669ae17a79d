----------------------- MODULE AggregatedMetricProofs -----------------------
(***************************************************************************)
(* Proofs about AggregatedMetric, for every buffer size and any set of     *)
(* readers.  TypeOK /\ EverySampleAccounted is inductive, and under it      *)
(* every step of the ring buffer is a step of the abstract SampleWindow.   *)
(* The loops over a window (the sum, the minimum and the maximum) are      *)
(* recursive functions; what they compute is shown by taking a smallest    *)
(* counterexample.                                                         *)
(***************************************************************************)
EXTENDS AggregatedMetric, FiniteSetTheorems, NaturalsInduction,
        WellFoundedInduction, SequenceTheorems, TLAPS

(* Advancing an index wraps from the last slot to slot 0.                  *)
LEMMA SuccWraps ==
  ASSUME NEW i \in Slots
  PROVE  Succ(i) = IF i = BufferSize THEN 0 ELSE i + 1
  BY AggregatedMetricAssumption DEF Succ, size, Slots

(* Distances between slots never exceed the buffer size; moving the end    *)
(* one slot on adds one unless it reaches the start, and the head stands   *)
(* right behind the tail only when the buffer is full.                     *)
LEMMA DistanceGrows ==
  ASSUME NEW t \in Slots, NEW h \in Slots
  PROVE  /\ Distance(t, h) \in 0..BufferSize
         /\ Succ(h) # t => Distance(t, Succ(h)) = Distance(t, h) + 1
         /\ Succ(h) = t => /\ Distance(t, h) = BufferSize
                           /\ Distance(Succ(t), Succ(h)) = BufferSize
         /\ Distance(h, h) = 0
<1>1. /\ Succ(h) = IF h = BufferSize THEN 0 ELSE h + 1
      /\ Succ(t) = IF t = BufferSize THEN 0 ELSE t + 1
  BY SuccWraps
<1> QED BY <1>1, AggregatedMetricAssumption DEF Distance, size, Slots

(* Every slot index stays inside the buffer.                               *)
LEMMA TypeStep == TypeOK /\ [Next]_vars => TypeOK'
<1> SUFFICES ASSUME TypeOK, [Next]_vars PROVE TypeOK'
  OBVIOUS
<1> USE AggregatedMetricAssumption DEF TypeOK
<1>1. ASSUME NEW v \in Values, add(v) PROVE TypeOK'
  <2>1. \A i \in Slots : Succ(i) \in Slots
    BY SuccWraps DEF Slots
  <2>2. buffer' \in [Slots -> Int] /\ head' \in Slots
    BY <1>1, <2>1 DEF add
  <2>3. tails' \in [Readers -> Slots]
    BY <1>1, <2>1 DEF add
  <2>4. lostSamples' \in [Readers -> Nat] /\ added' \in [Readers -> Nat]
    BY <1>1 DEF add
  <2> QED BY <2>2, <2>3, <2>4
<1>2. ASSUME NEW r \in Readers, collect(r) PROVE TypeOK'
  BY <1>2 DEF collect
<1>3. CASE UNCHANGED vars
  BY <1>3 DEF vars
<1> QED BY <1>1, <1>2, <1>3 DEF Next

(* add() and collect() keep the account of every reader.                   *)
LEMMA AccountStep ==
  TypeOK /\ EverySampleAccounted /\ [Next]_vars => EverySampleAccounted'
<1> SUFFICES ASSUME TypeOK, EverySampleAccounted, [Next]_vars,
                    NEW r \in Readers
             PROVE  LET n == Distance(tails'[r], head') IN
                      /\ added'[r] = n + lostSamples'[r]
                      /\ n <= BufferSize
                      /\ lostSamples'[r] > 0 => n = BufferSize
  BY DEF EverySampleAccounted, Distance, size
<1> DEFINE n == Distance(tails[r], head)
           Goal == LET m == Distance(tails'[r], head') IN
                      /\ added'[r] = m + lostSamples'[r]
                      /\ m <= BufferSize
                      /\ lostSamples'[r] > 0 => m = BufferSize
<1>1. /\ tails[r] \in Slots /\ head \in Slots /\ lostSamples[r] \in Nat
      /\ added[r] = n + lostSamples[r] /\ n <= BufferSize
      /\ lostSamples[r] > 0 => n = BufferSize
  BY DEF TypeOK, EverySampleAccounted
<1>2. n \in 0..BufferSize
  BY <1>1, DistanceGrows
<1>3. ASSUME NEW v \in Values, add(v) PROVE Goal
  <2>1. head' = Succ(head) /\ added'[r] = added[r] + 1
    BY <1>3 DEF add, TypeOK
  <2>2. CASE Overrun(r)
    <3>1. tails'[r] = Succ(tails[r]) /\ lostSamples'[r] = lostSamples[r] + 1
      BY <1>3, <2>2 DEF add, TypeOK
    <3>2. n = BufferSize /\ Distance(tails'[r], head') = BufferSize
      BY <1>1, <2>1, <2>2, <3>1, DistanceGrows DEF Overrun
    <3> HIDE DEF n
    <3> QED BY <1>1, <1>2, <2>1, <3>1, <3>2, AggregatedMetricAssumption
  <2>3. CASE ~Overrun(r)
    <3>1. tails'[r] = tails[r] /\ lostSamples'[r] = lostSamples[r]
      BY <1>3, <2>3 DEF add, TypeOK
    <3>2. Distance(tails'[r], head') = n + 1
      BY <1>1, <2>1, <2>3, <3>1, DistanceGrows DEF Overrun
    <3>3. Distance(tails'[r], head') <= BufferSize
      <4>1. Succ(head) \in Slots
        BY <1>1, SuccWraps, AggregatedMetricAssumption DEF Slots
      <4> QED BY <1>1, <2>1, <3>1, <4>1, DistanceGrows, AggregatedMetricAssumption
    <3> HIDE DEF n
    <3> QED BY <1>1, <1>2, <2>1, <3>1, <3>2, <3>3, AggregatedMetricAssumption
  <2> QED BY <2>2, <2>3
<1>4. ASSUME NEW q \in Readers, collect(q) PROVE Goal
  <2>1. CASE q = r
    <3>1. /\ tails'[r] = head /\ head' = head /\ added'[r] = 0
          /\ lostSamples'[r] = 0
      BY <1>4, <2>1 DEF collect, TypeOK
    <3>2. Distance(tails'[r], head') = 0
      BY <1>1, <3>1, DistanceGrows
    <3> QED BY <3>1, <3>2, AggregatedMetricAssumption
  <2>2. CASE q # r
    <3>1. /\ tails'[r] = tails[r] /\ head' = head /\ added'[r] = added[r]
          /\ lostSamples'[r] = lostSamples[r]
      BY <1>4, <2>2 DEF collect, TypeOK
    <3> QED BY <1>1, <3>1
  <2> QED BY <2>1, <2>2
<1>5. CASE UNCHANGED vars
  BY <1>1, <1>5 DEF vars
<1> QED BY <1>3, <1>4, <1>5 DEF Next

(* No sample disappears: between two collect() calls of a reader, what was *)
(* added is in its window or counted as lost, for every buffer size.       *)
THEOREM SamplesAccounted == Spec => [](TypeOK /\ EverySampleAccounted)
<1>1. Init => TypeOK /\ EverySampleAccounted
  BY AggregatedMetricAssumption
  DEF Init, TypeOK, EverySampleAccounted, Slots, Distance, size
<1>2. TypeOK /\ EverySampleAccounted /\ [Next]_vars
        => (TypeOK /\ EverySampleAccounted)'
  BY TypeStep, AccountStep
<1> QED BY <1>1, <1>2, PTL DEF Spec

-----------------------------------------------------------------------------
(* The window of a reader, slot by slot                                    *)

(* The slot i positions after another one.                                 *)
SlotAfter(t, i) == (t + i) % size

LEMMA SlotsInOrder ==
  ASSUME NEW t \in Slots, NEW i \in 0..BufferSize
  PROVE  /\ SlotAfter(t, i) = IF t + i <= BufferSize THEN t + i ELSE t + i - size
         /\ SlotAfter(t, i) \in Slots
<1>1. /\ BufferSize \in Nat /\ size = BufferSize + 1 /\ t \in 0..BufferSize
      /\ t + i \in Nat /\ t + i < 2 * size /\ size \in Nat
  BY AggregatedMetricAssumption DEF size, Slots
<1>2. (t + i) % size = IF t + i < size THEN t + i ELSE t + i - size
  BY ONLY <1>1
<1> QED
  BY <1>1, <1>2 DEF SlotAfter, Slots

LEMMA SlotUnderHead ==
  ASSUME NEW t \in Slots, NEW h \in Slots, NEW i \in 0..BufferSize
  PROVE  SlotAfter(t, i) = h <=> i = Distance(t, h)
<1>1. BufferSize \in Nat /\ size = BufferSize + 1 /\ t \in 0..BufferSize /\ h \in 0..BufferSize
  BY AggregatedMetricAssumption DEF size, Slots
<1>2. SlotAfter(t, i) = IF t + i <= BufferSize THEN t + i ELSE t + i - size
  BY SlotsInOrder
<1> QED
  BY <1>1, <1>2 DEF Distance

LEMMA SlotFromNext ==
  ASSUME NEW t \in Slots, NEW i \in 1..BufferSize
  PROVE  SlotAfter(Succ(t), i - 1) = SlotAfter(t, i)
<1>1. BufferSize \in Nat /\ size = BufferSize + 1 /\ t \in 0..BufferSize
  BY AggregatedMetricAssumption DEF size, Slots
<1>2. Succ(t) = (IF t = BufferSize THEN 0 ELSE t + 1) /\ Succ(t) \in Slots
  BY <1>1, SuccWraps DEF Slots
<1>3. i \in 0..BufferSize /\ i - 1 \in 0..BufferSize
  BY <1>1
<1>4. SlotAfter(Succ(t), i - 1) = IF Succ(t) + (i - 1) <= BufferSize THEN Succ(t) + (i - 1)
                                  ELSE Succ(t) + (i - 1) - size
  BY <1>2, <1>3, SlotsInOrder
<1>5. SlotAfter(t, i) = IF t + i <= BufferSize THEN t + i ELSE t + i - size
  BY <1>3, SlotsInOrder
<1> QED
  BY <1>1, <1>2, <1>4, <1>5

AllButFirst(a) == [i \in 1..BufferSize |-> a[i + 1]]

LEMMA NewestOf ==
  ASSUME NEW s \in Seq(Int), NEW v \in Int
  PROVE  /\ Len(s) < BufferSize => W!Newest(Append(s, v)) = Append(s, v)
         /\ Len(s) = BufferSize
              => W!Newest(Append(s, v)) = AllButFirst(Append(s, v))
<1> DEFINE a == Append(s, v)
<1>1. a \in Seq(Int) /\ Len(a) = Len(s) + 1 /\ Len(s) \in Nat /\ BufferSize \in Nat
  BY AggregatedMetricAssumption
<1> HIDE DEF a
<1>2. CASE Len(s) < BufferSize
  <2>1. W!Newest(a) = SubSeq(a, Len(a) - Len(a) + 1, Len(a))
    <3>1. ~ (Len(a) > BufferSize)
      BY <1>1, <1>2
    <3> QED
      BY <3>1 DEF W!Newest
  <2>2. Len(a) - Len(a) + 1 = 1
    BY <1>1
  <2>3. SubSeq(a, 1, Len(a)) = a
    BY <1>1
  <2> QED
    BY <1>1, <1>2, <2>1, <2>2, <2>3 DEF a
<1>3. CASE Len(s) = BufferSize
  <2>1. W!Newest(a) = SubSeq(a, Len(a) - BufferSize + 1, Len(a))
    <3>1. Len(a) > BufferSize
      BY <1>1, <1>3
    <3> QED
      BY <3>1 DEF W!Newest
  <2>2. Len(a) - BufferSize + 1 = 2 /\ Len(a) = BufferSize + 1
    BY <1>1, <1>3
  <2>3. SubSeq(a, 2, BufferSize + 1) = [i \in 1..BufferSize |-> a[i + 1]]
    BY <1>1, <1>3
  <2> QED
    <3>1. ~ (Len(s) < BufferSize)
      BY <1>1, <1>3
    <3> QED
      BY <3>1, <2>1, <2>2, <2>3 DEF a, AllButFirst
<1> QED
  BY <1>2, <1>3

(* The contents of the n slots from one on.                                *)
Contents(b, t, n) == [i \in 1..n |-> b[(t + i - 1) % size]]

LEMMA ContentsInOrder ==
  ASSUME NEW b \in [Slots -> Int], NEW t \in Slots, NEW n \in 0..BufferSize
  PROVE  /\ Contents(b, t, n) \in [1..n -> Int] /\ Contents(b, t, n) \in Seq(Int)
         /\ Len(Contents(b, t, n)) = n
         /\ \A i \in 1..n : Contents(b, t, n)[i] = b[SlotAfter(t, i - 1)]
<1>1. BufferSize \in Nat /\ n \in Nat /\ t \in Int
  BY AggregatedMetricAssumption DEF Slots
<1>2. \A i \in 1..n : /\ (t + i - 1) % size = SlotAfter(t, i - 1)
                      /\ SlotAfter(t, i - 1) \in Slots
  <2> SUFFICES ASSUME NEW i \in 1..n
               PROVE  /\ (t + i - 1) % size = SlotAfter(t, i - 1)
                      /\ SlotAfter(t, i - 1) \in Slots
    OBVIOUS
  <2>1. i \in Int /\ i - 1 \in 0..BufferSize
    BY <1>1
  <2>2. t + i - 1 = t + (i - 1)
    BY ONLY <1>1, <2>1
  <2> QED
    BY <2>1, <2>2, SlotsInOrder DEF SlotAfter
<1>3. PICK w : w = Contents(b, t, n)
  OBVIOUS
<1>4. w = [i \in 1..n |-> b[(t + i - 1) % size]]
  BY <1>3 DEF Contents
<1>5. w \in [1..n -> Int] /\ \A i \in 1..n : w[i] = b[SlotAfter(t, i - 1)]
  BY <1>2, <1>4
<1>6. w \in Seq(Int) /\ Len(w) = n
  BY ONLY <1>1, <1>5
<1> QED
  BY <1>3, <1>5, <1>6

(* Only a full window has its tail right behind the head.                  *)
LEMMA OverrunIsFull ==
  ASSUME TypeOK, NEW r \in Readers
  PROVE  Overrun(r) <=> Distance(tails[r], head) = BufferSize
<1>1. tails[r] \in Slots /\ head \in Slots /\ BufferSize \in Nat
  BY AggregatedMetricAssumption DEF TypeOK
<1>2. Succ(head) \in Slots
  BY <1>1, SuccWraps DEF Slots
<1>3. Distance(tails[r], Succ(head)) \in 0..BufferSize
  BY <1>1, <1>2, DistanceGrows
<1>4. Distance(tails[r], head) \in 0..BufferSize
  BY <1>1, DistanceGrows
<1>5. Succ(head) # tails[r] => Distance(tails[r], Succ(head)) = Distance(tails[r], head) + 1
  BY <1>1, DistanceGrows
<1>6. Succ(head) = tails[r] => Distance(tails[r], head) = BufferSize
  BY <1>1, DistanceGrows
<1> QED
  BY <1>1, <1>3, <1>4, <1>5, <1>6 DEF Overrun

(* add() slides every reader's window by the new sample.                   *)
LEMMA AddSlides ==
  ASSUME TypeOK, TypeOK', NEW v \in Values, add(v), NEW r \in Readers
  PROVE  /\ Window(r)' = W!Newest(Append(Window(r), v))
         /\ Len(Window(r)) = BufferSize <=> Overrun(r)
<1>1. PICK t \in Slots, h \in Slots, n \in 0..BufferSize, b \in [Slots -> Int] :
        t = tails[r] /\ h = head /\ n = Distance(t, h) /\ b = buffer
  <2>1. tails[r] \in Slots /\ head \in Slots /\ buffer \in [Slots -> Int]
    BY DEF TypeOK
  <2> QED
    BY <2>1, DistanceGrows
<1>2. PICK w : w = Contents(b, t, n)
  OBVIOUS
<1>3. /\ Window(r) = w /\ w \in [1..n -> Int] /\ w \in Seq(Int) /\ Len(w) = n
      /\ \A i \in 1..n : w[i] = b[SlotAfter(t, i - 1)]
  <2>1. Window(r) = w
    BY <1>1, <1>2 DEF Window, Contents
  <2> QED
    BY <1>2, <2>1, ContentsInOrder
<1>4. Overrun(r) <=> n = BufferSize
  BY <1>1, OverrunIsFull
<1>5. v \in Int /\ BufferSize \in Nat /\ n \in Nat
  BY AggregatedMetricAssumption
<1>6. head' = Succ(h) /\ buffer' = [b EXCEPT ![h] = v]
      /\ tails'[r] = IF Overrun(r) THEN Succ(t) ELSE t
  BY <1>1 DEF add
<1>7. PICK c \in [Slots -> Int] : c = buffer'
  BY DEF TypeOK
<1>8. \A j \in 0..BufferSize : c[SlotAfter(t, j)] = IF j = n THEN v ELSE b[SlotAfter(t, j)]
  BY <1>1, <1>6, <1>7, SlotsInOrder, SlotUnderHead
<1>9. PICK a : a = Append(w, v)
  OBVIOUS
<1>10. a \in [1..(n + 1) -> Int] /\ \A i \in 1..(n + 1) : a[i] = IF i = n + 1 THEN v ELSE w[i]
  <2>1. /\ a \in Seq(Int) /\ Len(a) = n + 1 /\ a[n + 1] = v
        /\ \A i \in 1..n : a[i] = w[i]
    BY <1>3, <1>5, <1>9, AppendProperties
  <2>2. a \in [1..(n + 1) -> Int]
    BY <2>1, LenProperties
  <2>3. \A i \in 1..(n + 1) : i # n + 1 => i \in 1..n
    BY <1>5
  <2> QED
    BY <2>1, <2>2, <2>3
<1>11. \A j \in 0..BufferSize : j <= n => c[SlotAfter(t, j)] = a[j + 1]
  <2> SUFFICES ASSUME NEW j \in 0..BufferSize, j <= n
               PROVE  c[SlotAfter(t, j)] = a[j + 1]
    OBVIOUS
  <2>1. j + 1 \in 1..(n + 1) /\ (j = n <=> j + 1 = n + 1) /\ j \in Int /\ j + 1 - 1 = j
    BY <1>5
  <2>2. a[j + 1] = IF j = n THEN v ELSE w[j + 1]
    BY <1>10, <2>1
  <2>3. j # n => j + 1 \in 1..n
    BY <1>5
  <2>4. j # n => w[j + 1] = b[SlotAfter(t, j)]
    BY <1>3, <2>1, <2>3
  <2> QED
    BY <1>8, <2>2, <2>4
<1>12. CASE Overrun(r)
  <2>1. /\ n = BufferSize /\ tails'[r] = Succ(t) /\ Succ(t) \in Slots
        /\ Distance(Succ(t), Succ(h)) = BufferSize
    <3>1. n = BufferSize /\ tails'[r] = Succ(t) /\ Succ(h) = t
      BY <1>1, <1>4, <1>6, <1>12 DEF Overrun
    <3>2. Succ(t) \in Slots
      BY <1>5, SuccWraps DEF Slots
    <3>3. Distance(Succ(t), Succ(h)) = BufferSize
      BY <3>1, DistanceGrows
    <3> QED
      BY <3>1, <3>2, <3>3
  <2>2. PICK u : u = Contents(c, Succ(t), BufferSize)
    OBVIOUS
  <2>3. /\ u \in [1..BufferSize -> Int]
        /\ \A i \in 1..BufferSize : u[i] = c[SlotAfter(Succ(t), i - 1)]
    BY <1>5, <2>1, <2>2, ContentsInOrder
  <2>4. Window(r)' = u
    BY <1>6, <1>7, <2>1, <2>2 DEF Window, Contents, Distance
  <2>5. \A i \in 1..BufferSize : u[i] = a[i + 1]
    <3> SUFFICES ASSUME NEW i \in 1..BufferSize PROVE u[i] = a[i + 1]
      OBVIOUS
    <3>1. i \in 0..BufferSize /\ i <= n
      BY <1>5, <2>1
    <3> QED
      BY <3>1, <1>11, <2>3, SlotFromNext
  <2>6. u = [i \in 1..BufferSize |-> a[i + 1]]
    BY <2>3, <2>5
  <2>7. W!Newest(a) = AllButFirst(a)
    BY <1>3, <1>5, <1>9, <2>1, NewestOf
  <2> QED
    BY <1>3, <1>9, <1>12, <2>1, <2>4, <2>6, <2>7 DEF AllButFirst
<1>13. CASE ~Overrun(r)
  <2>1. n < BufferSize /\ tails'[r] = t /\ Distance(t, Succ(h)) = n + 1 /\ n + 1 \in 0..BufferSize
    <3>1. n # BufferSize /\ n < BufferSize /\ tails'[r] = t
      BY <1>4, <1>5, <1>6, <1>13
    <3>2. Succ(h) # t
      BY <1>1, <1>13 DEF Overrun
    <3>3. Distance(t, Succ(h)) = n + 1
      BY <1>1, <3>2, DistanceGrows
    <3> QED
      BY <1>5, <3>1, <3>3
  <2>2. PICK u : u = Contents(c, t, n + 1)
    OBVIOUS
  <2>3. /\ u \in [1..(n + 1) -> Int]
        /\ \A i \in 1..(n + 1) : u[i] = c[SlotAfter(t, i - 1)]
    BY <1>5, <2>1, <2>2, ContentsInOrder
  <2>4. Window(r)' = u
    BY <1>6, <1>7, <2>1, <2>2 DEF Window, Contents, Distance
  <2>5. \A i \in 1..(n + 1) : u[i] = a[i]
    <3> SUFFICES ASSUME NEW i \in 1..(n + 1) PROVE u[i] = a[i]
      OBVIOUS
    <3>1. i - 1 \in 0..BufferSize /\ i - 1 <= n /\ i - 1 + 1 = i
      BY <1>5, <2>1
    <3> QED
      BY <3>1, <1>11, <2>3
  <2>6. u = a
    BY <1>10, <2>3, <2>5
  <2>7. W!Newest(a) = a
    BY <1>3, <1>5, <1>9, <2>1, NewestOf
  <2> QED
    BY <1>3, <1>9, <1>13, <2>1, <2>4, <2>6, <2>7, <1>4
<1> QED
  BY <1>12, <1>13

(* The refinement's step for add().                                        *)
LEMMA AddImplements ==
  ASSUME TypeOK, TypeOK', EverySampleAccounted, NEW v \in Values, add(v)
  PROVE  W!Add(v)
<1>1. [r \in Readers |-> Window(r)]' =
        [r \in Readers |-> W!Newest(Append([q \in Readers |-> Window(q)][r], v))]
  BY AddSlides
<1>2. lostSamples' = [r \in Readers |-> lostSamples[r]
             + (IF Len([q \in Readers |-> Window(q)][r]) = BufferSize THEN 1 ELSE 0)]
  <2>1. \A r \in Readers : lostSamples[r] + 0 = lostSamples[r]
    BY DEF TypeOK
  <2>2. \A r \in Readers :
          (IF Overrun(r) THEN lostSamples[r] + 1 ELSE lostSamples[r]) =
          lostSamples[r] + (IF Len([q \in Readers |-> Window(q)][r]) = BufferSize THEN 1 ELSE 0)
    BY <2>1, AddSlides
  <2> QED
    BY <2>2 DEF add
<1> QED
  BY <1>1, <1>2 DEF add, W!Add

-----------------------------------------------------------------------------
(* A nonempty set of numbers has a smallest one. *)
LEMMA SmallestIsIn ==
  ASSUME NEW S, S \subseteq Nat, S # {}
  PROVE  \E m \in S : \A k \in S : m <= k
<1> DEFINE R == OpToRel(<, Nat)
<1>1. \A x, y \in Nat : x < y => <<x, y>> \in R
  BY DEF OpToRel
<1>2. IsWellFoundedOn(R, Nat)
  BY NatLessThanWellFounded
<1> HIDE DEF R
<1>3. PICK m \in S : \A k \in S : <<k, m>> \notin R
  BY ONLY <1>2, WFMin, S # {}, S \subseteq Nat
<1>4. \A k \in S : m <= k
  <2> SUFFICES ASSUME NEW k \in S PROVE m <= k
    OBVIOUS
  <2>1. k \in Nat /\ m \in Nat /\ <<k, m>> \notin R
    BY <1>3
  <2>2. ~ (k < m)
    BY <2>1, <1>1, Zenon
  <2> QED
    BY <2>1, <2>2
<1> QED
  BY <1>3, <1>4

-----------------------------------------------------------------------------
(* The sum over a sequence, which FoldSeq takes in any order *)

Chosen(s) == CHOOSE x \in s : TRUE
SumFrom(f, g, s) == IF s = {} THEN 0 ELSE f[Chosen(s)] + g[s \ {Chosen(s)}]
IsSum(f, D, g) == g = [s \in SUBSET D |-> SumFrom(f, g, s)]
SumOver(f, D) == CHOOSE g : IsSum(f, D, g)

LEMMA FoldIsSum ==
  ASSUME NEW w
  PROVE  W!FoldSeq(+, 0, w) = SumOver(w, DOMAIN w)[DOMAIN w]
  BY DEF W!FoldSeq, W!FoldFunction, W!FoldFunctionOnSet, W!MapThenFoldSet, SumOver, IsSum,
         SumFrom, Chosen

LEMMA Subsets ==
  ASSUME NEW D, IsFiniteSet(D), NEW s \in SUBSET D
  PROVE  /\ IsFiniteSet(s) /\ Cardinality(s) \in 0..Cardinality(D)
         /\ Cardinality(D) \in Nat
         /\ \A x \in s : Cardinality(s \ {x}) = Cardinality(s) - 1
         /\ s # {} => Chosen(s) \in s
         /\ Cardinality(s) = 0 <=> s = {}
<1>1. Cardinality(D) \in Nat
  BY FS_CardinalityType
<1>2. IsFiniteSet(s) /\ Cardinality(s) <= Cardinality(D)
  BY FS_Subset
<1>3. Cardinality(s) \in Nat
  BY <1>2, FS_CardinalityType
<1>4. \A x \in s : Cardinality(s \ {x}) = Cardinality(s) - 1
  BY <1>2, FS_RemoveElement
<1>5. s # {} => Chosen(s) \in s
  BY DEF Chosen
<1>6. Cardinality(s) = 0 <=> s = {}
  BY <1>2, FS_EmptySet
<1> QED
  BY <1>1, <1>2, <1>3, <1>4, <1>5, <1>6

LEMMA SumExists ==
  ASSUME NEW D, IsFiniteSet(D), NEW f
  PROVE  \E g : IsSum(f, D, g)
<1> DEFINE Small(n) == {s \in SUBSET D : Cardinality(s) <= n}
           E(n) == \E g : g = [s \in Small(n) |-> SumFrom(f, g, s)]
           Bad == {n \in Nat : ~E(n)}
<1>1. E(0)
  <2> DEFINE g == [s \in Small(0) |-> 0]
  <2>1. \A s \in Small(0) : s = {}
    BY Subsets
  <2>2. g = [s \in Small(0) |-> SumFrom(f, g, s)]
    BY <2>1 DEF SumFrom
  <2> QED
    BY <2>2
<1>2. ASSUME NEW n \in Nat, E(n) PROVE E(n + 1)
  <2>1. PICK g : g = [s \in Small(n) |-> SumFrom(f, g, s)]
    BY <1>2
  <2> DEFINE h == [s \in Small(n + 1) |-> SumFrom(f, g, s)]
  <2>2. \A s \in Small(n) : h[s] = g[s]
    <3> SUFFICES ASSUME NEW s \in Small(n) PROVE h[s] = g[s]
      OBVIOUS
    <3>1. s \in Small(n + 1)
      BY Subsets
    <3>2. h[s] = SumFrom(f, g, s)
      BY <3>1
    <3>3. g[s] = SumFrom(f, g, s)
      BY <2>1
    <3> QED
      BY <3>2, <3>3
  <2>3. \A s \in Small(n + 1) : SumFrom(f, h, s) = SumFrom(f, g, s)
    <3> SUFFICES ASSUME NEW s \in Small(n + 1) PROVE SumFrom(f, h, s) = SumFrom(f, g, s)
      OBVIOUS
    <3> HIDE DEF h
    <3>1. s # {} => s \ {Chosen(s)} \in SUBSET D /\ Cardinality(s \ {Chosen(s)}) <= n
      BY Subsets
    <3>2. s # {} => h[s \ {Chosen(s)}] = g[s \ {Chosen(s)}]
      BY <3>1, <2>2
    <3> QED
      BY <3>2 DEF SumFrom
  <2>4. h = [s \in Small(n + 1) |-> SumFrom(f, h, s)]
    BY <2>3
  <2> QED
    BY <2>4
<1>3. Bad = {}
  <2> SUFFICES ASSUME Bad # {} PROVE FALSE
    OBVIOUS
  <2> HIDE DEF E
  <2>1. PICK m \in Bad : \A k \in Bad : m <= k
    BY SmallestIsIn
  <2>2. m # 0
    BY <1>1
  <2>3. m - 1 \in Nat /\ m - 1 \notin Bad
    BY <2>1, <2>2
  <2>4. E(m - 1)
    BY <2>3
  <2>5. E(m - 1 + 1)
    BY <2>3, <2>4, <1>2
  <2>6. m - 1 + 1 = m
    BY <2>1
  <2> QED
    BY <2>5, <2>6
<1>4. Cardinality(D) \in Nat /\ Small(Cardinality(D)) = SUBSET D
  <2>1. Cardinality(D) \in Nat
    BY FS_CardinalityType
  <2>2. \A s \in SUBSET D : Cardinality(s) <= Cardinality(D)
    BY FS_Subset
  <2> QED
    BY <2>1, <2>2
<1>5. E(Cardinality(D))
  BY <1>3, <1>4
<1> QED
  BY <1>4, <1>5 DEF IsSum

LEMMA SumTakesAny ==
  ASSUME NEW D, IsFiniteSet(D), NEW f \in [D -> Int]
  PROVE  /\ SumOver(f, D)[{}] = 0
         /\ \A s \in SUBSET D :
              /\ SumOver(f, D)[s] \in Int
              /\ \A x \in s : SumOver(f, D)[s] = f[x] + SumOver(f, D)[s \ {x}]
<1> DEFINE g == SumOver(f, D)
           Good(s) == /\ g[s] \in Int
                      /\ \A x \in s : g[s] = f[x] + g[s \ {x}]
           Bad == {s \in SUBSET D : ~Good(s)}
           Sizes == {Cardinality(s) : s \in Bad}
<1>1. IsSum(f, D, g)
  BY SumExists DEF SumOver
<1> HIDE DEF g
<1>2. \A s \in SUBSET D : g[s] = SumFrom(f, g, s)
  BY <1>1 DEF IsSum
<1>3. g[{}] = 0
  BY <1>2 DEF SumFrom
<1>4. ASSUME NEW s \in SUBSET D, \A t \in SUBSET D : Cardinality(t) < Cardinality(s) => Good(t)
      PROVE  Good(s)
  <2>1. CASE s = {}
    BY <2>1, <1>3
  <2>2. CASE s # {}
    <3> DEFINE c == Chosen(s)
    <3>1. c \in s /\ g[s] = f[c] + g[s \ {c}] /\ f[c] \in Int
      BY <2>2, <1>2, Subsets DEF SumFrom
    <3> HIDE DEF c
    <3>2. \A x \in s : Cardinality(s \ {x}) < Cardinality(s) /\ s \ {x} \in SUBSET D
      BY Subsets
    <3>3. \A x \in s : Good(s \ {x})
      BY <3>2, <1>4
    <3>4. g[s \ {c}] \in Int /\ g[s] \in Int
      BY <3>1, <3>3
    <3>5. ASSUME NEW x \in s, x # c PROVE g[s] = f[x] + g[s \ {x}]
      <4>1. x \in s \ {c} /\ c \in s \ {x}
        BY <3>1, <3>5
      <4>2. g[s \ {c}] = f[x] + g[(s \ {c}) \ {x}]
        BY <3>3, <3>1, <4>1
      <4>3. g[s \ {x}] = f[c] + g[(s \ {x}) \ {c}]
        BY <3>3, <4>1
      <4>4. (s \ {c}) \ {x} = (s \ {x}) \ {c}
        OBVIOUS
      <4>5. PICK d : d = (s \ {x}) \ {c}
        OBVIOUS
      <4>6. d \in SUBSET D /\ Cardinality(d) < Cardinality(s)
        <5>1. Cardinality(s \ {x}) < Cardinality(s) /\ s \ {x} \in SUBSET D
          BY <3>2
        <5>2. Cardinality(d) = Cardinality(s \ {x}) - 1
          BY <4>1, <4>5, <5>1, Subsets
        <5> QED
          BY <5>1, <5>2, <4>5, Subsets
      <4>7. g[d] \in Int /\ f[x] \in Int
        BY <4>6, <1>4
      <4>8. g[s] = f[c] + (f[x] + g[d]) /\ g[s \ {x}] = f[c] + g[d] /\ f[c] \in Int
        BY <3>1, <4>2, <4>3, <4>4, <4>5
      <4> QED
        BY ONLY <4>7, <4>8
    <3> QED
      BY <3>1, <3>4, <3>5
  <2> QED
    BY <2>1, <2>2
<1> HIDE DEF Good
<1>5. Bad = {}
  <2> SUFFICES ASSUME Bad # {} PROVE FALSE
    OBVIOUS
  <2>1. Sizes \subseteq Nat /\ Sizes # {}
    BY Subsets
  <2>2. PICK m \in Sizes : \A k \in Sizes : m <= k
    BY <2>1, SmallestIsIn
  <2>3. PICK s \in Bad : Cardinality(s) = m
    OBVIOUS
  <2>4. \A t \in SUBSET D : Cardinality(t) < m => Good(t)
    <3> SUFFICES ASSUME NEW t \in SUBSET D, Cardinality(t) < m, ~Good(t) PROVE FALSE
      OBVIOUS
    <3>1. Cardinality(t) \in Sizes
      OBVIOUS
    <3> QED
      BY <3>1, <2>1, <2>2
  <2> QED
    BY <2>3, <2>4, <1>4
<1> QED
  BY <1>3, <1>5 DEF Good, g

-----------------------------------------------------------------------------
(* The loop of computeStats() *)

Scanned(start, g, i) ==
  LET x == buffer[(start + (i - 1)) % size]
  IN IF i = 0
     THEN [minValue |-> buffer[start], maxValue |-> buffer[start], sum |-> 0]
     ELSE [minValue |-> IF x < g[i - 1].minValue THEN x ELSE g[i - 1].minValue,
           maxValue |-> IF x > g[i - 1].maxValue THEN x ELSE g[i - 1].maxValue,
           sum |-> g[i - 1].sum + x]
IsScan(start, n, g) == g = [i \in 0..n |-> Scanned(start, g, i)]
ScanOver(start, n) == CHOOSE g : IsScan(start, n, g)

LEMMA StatsAreScan ==
  ASSUME NEW start, NEW end, start # end
  PROVE  LET n == Distance(start, end)
             total == ScanOver(start, n)[n]
         IN computeStats(start, end) =
              [minValue |-> total.minValue, maxValue |-> total.maxValue, sum |-> total.sum,
               samples |-> n, lostSamples |-> 0]
<1> DEFINE n == Distance(start, end)
           g == ScanOver(start, n)
<1>1. computeStats(start, end) =
        [NoStats EXCEPT !.minValue = g[n].minValue, !.maxValue = g[n].maxValue,
                        !.sum = g[n].sum, !.samples = n]
  BY DEF computeStats, ScanOver, IsScan, Scanned
<1> HIDE DEF g
<1> QED
  BY <1>1 DEF NoStats, g

LEMMA ScanExists ==
  ASSUME NEW start, NEW n \in Nat
  PROVE  \E g : IsScan(start, n, g)
<1> DEFINE Bad == {k \in Nat : ~\E g : IsScan(start, k, g)}
<1>1. \E g : IsScan(start, 0, g)
  <2> DEFINE g == [i \in 0..0 |->
                     [minValue |-> buffer[start], maxValue |-> buffer[start], sum |-> 0]]
  <2>1. \A i \in 0..0 : i = 0
    OBVIOUS
  <2>2. g = [i \in 0..0 |-> Scanned(start, g, i)]
    BY <2>1 DEF Scanned
  <2> HIDE DEF g
  <2>3. IsScan(start, 0, g)
    BY <2>2 DEF IsScan
  <2> QED
    BY <2>3
<1>2. ASSUME NEW k \in Nat, \E g : IsScan(start, k, g)
      PROVE  \E g : IsScan(start, k + 1, g)
  <2>1. PICK g : IsScan(start, k, g)
    BY <1>2
  <2> DEFINE h == [i \in 0..(k + 1) |-> Scanned(start, g, i)]
  <2>2. \A i \in 0..k : h[i] = g[i]
    BY <2>1 DEF IsScan
  <2>3. \A i \in 0..(k + 1) : h[i] = Scanned(start, g, i)
    OBVIOUS
  <2>4. h = [i \in 0..(k + 1) |-> h[i]]
    OBVIOUS
  <2> HIDE DEF h
  <2>5. \A i \in 0..(k + 1) : Scanned(start, h, i) = Scanned(start, g, i)
    <3> SUFFICES ASSUME NEW i \in 0..(k + 1)
                 PROVE  Scanned(start, h, i) = Scanned(start, g, i)
      OBVIOUS
    <3>1. i # 0 => h[i - 1] = g[i - 1]
      BY <2>2
    <3> QED
      BY <3>1 DEF Scanned
  <2>6. h = [i \in 0..(k + 1) |-> Scanned(start, h, i)]
    BY <2>3, <2>4, <2>5
  <2>7. IsScan(start, k + 1, h)
    BY <2>6 DEF IsScan
  <2> QED
    BY <2>7
<1>3. Bad = {}
  <2> SUFFICES ASSUME Bad # {} PROVE FALSE
    OBVIOUS
  <2>1. PICK m \in Bad : \A k \in Bad : m <= k
    BY SmallestIsIn
  <2>2. m # 0
    BY <1>1
  <2>3. m - 1 \in Nat /\ m - 1 \notin Bad /\ m - 1 + 1 = m
    BY <2>1, <2>2
  <2>4. \E g : IsScan(start, m - 1, g)
    BY <2>3
  <2> QED
    BY <2>3, <2>4, <1>2
<1> QED
  BY <1>3

(* The statistics of n samples w, which the slots from start on hold.      *)
HoldsSlots(w, start, n) == \A i \in 1..n : w[i] = buffer[(start + (i - 1)) % size]
Summarises(total, w, n) ==
  /\ total.sum = SumOver(w, 1..n)[1..n]
  /\ \E i \in 1..n : total.minValue = w[i]
  /\ \A i \in 1..n : total.minValue <= w[i]
  /\ \E i \in 1..n : total.maxValue = w[i]
  /\ \A i \in 1..n : total.maxValue >= w[i]

LEMMA ScanSummary ==
  ASSUME NEW start, start = start % size, start \in Nat, NEW n \in Nat \ {0},
         NEW w \in [1..n -> Int], HoldsSlots(w, start, n)
  PROVE  Summarises(ScanOver(start, n)[n], w, n)
<1> USE DEF HoldsSlots
<1> DEFINE g == ScanOver(start, n)
           S == SumOver(w, 1..n)
           Good(k) == /\ g[k].sum = S[1..k] /\ g[k].sum \in Int
                      /\ \E i \in 1..n : g[k].minValue = w[i]
                      /\ \A i \in 1..k : g[k].minValue <= w[i]
                      /\ \E i \in 1..n : g[k].maxValue = w[i]
                      /\ \A i \in 1..k : g[k].maxValue >= w[i]
           Bad == {k \in 0..n : ~Good(k)}
<1>1. IsScan(start, n, g)
  BY ScanExists DEF ScanOver
<1> HIDE DEF g
<1>2. \A k \in 0..n : g[k] = Scanned(start, g, k)
  BY <1>1 DEF IsScan
<1>3. /\ S[{}] = 0
      /\ \A s \in SUBSET (1..n) : S[s] \in Int /\ \A x \in s : S[s] = w[x] + S[s \ {x}]
  <2>1. IsFiniteSet(1..n)
    <3>1. 1 \in Int /\ n \in Int
      OBVIOUS
    <3> QED
      BY ONLY <3>1, FS_Interval
  <2> QED
    BY <2>1, SumTakesAny
<1> HIDE DEF S
<1>4. Good(0)
  <2>1. g[0] = [minValue |-> buffer[start], maxValue |-> buffer[start], sum |-> 0]
    <3>1. 0 \in 0..n
      OBVIOUS
    <3>2. g[0] = Scanned(start, g, 0)
      BY <3>1, <1>2
    <3> QED
      BY ONLY <3>2 DEF Scanned
  <2>2. 1 \in 1..n /\ w[1] = buffer[start]
    <3>1. start + (1 - 1) = start
      OBVIOUS
    <3> QED
      BY <3>1
  <2>3. 1..0 = {}
    OBVIOUS
  <2> QED
    BY <1>3, <2>1, <2>2, <2>3
<1>5. ASSUME NEW k \in 1..n, Good(k - 1) PROVE Good(k)
  <2> DEFINE x == w[k]
  <2>1. /\ k - 1 \in 0..n /\ k \in 0..n /\ k # 0 /\ x \in Int
        /\ g[k] = Scanned(start, g, k) /\ x = buffer[(start + (k - 1)) % size]
    BY <1>2
  <2>2. PICK p : p = g[k - 1]
    OBVIOUS
  <2> HIDE DEF x
  <2>3. g[k] = [minValue |-> IF x < p.minValue THEN x ELSE p.minValue,
                maxValue |-> IF x > p.maxValue THEN x ELSE p.maxValue,
                sum |-> p.sum + x]
    BY <2>1, <2>2 DEF Scanned
  <2>4. g[k].sum = S[1..k] /\ g[k].sum \in Int
    <3>1. S[1..k] = w[k] + S[(1..k) \ {k}]
      <4>1. 1..k \in SUBSET (1..n) /\ k \in 1..k
        OBVIOUS
      <4> QED
        BY <4>1, <1>3
    <3>2. (1..k) \ {k} = 1..(k - 1)
      OBVIOUS
    <3>3. p.sum = S[1..(k - 1)] /\ p.sum \in Int
      BY <1>5, <2>2
    <3>4. g[k].sum = p.sum + x
      BY <2>3
    <3>5. PICK a, b, c : a = p.sum /\ b = g[k].sum /\ c = S[1..k]
      OBVIOUS
    <3>6. a \in Int /\ b = a + x /\ c = x + a
      BY <3>1, <3>2, <3>3, <3>4, <3>5 DEF x
    <3>7. b \in Int /\ b = c
      BY ONLY <2>1, <3>6
    <3> QED
      BY <3>5, <3>7
  <2>5. /\ \E i \in 1..n : p.minValue = w[i]
        /\ \A i \in 1..(k - 1) : p.minValue <= w[i]
        /\ \E i \in 1..n : p.maxValue = w[i]
        /\ \A i \in 1..(k - 1) : p.maxValue >= w[i]
    BY <1>5, <2>2
  <2>6. p.minValue \in Int /\ p.maxValue \in Int
    BY <2>5
  <2>7. \A i \in 1..k : i = k \/ i \in 1..(k - 1)
    OBVIOUS
  <2>8. /\ \E i \in 1..n : g[k].minValue = w[i]
        /\ \A i \in 1..k : g[k].minValue <= w[i]
    <3>1. g[k].minValue = IF x < p.minValue THEN x ELSE p.minValue
      BY <2>3
    <3>2. PICK a, b : a = p.minValue /\ b = g[k].minValue
      OBVIOUS
    <3>3. a \in Int /\ b = IF x < a THEN x ELSE a
      BY <2>6, <3>1, <3>2
    <3>4. b \in Int /\ b <= x /\ b <= a /\ (b = x \/ b = a)
      BY ONLY <2>1, <3>3
    <3>5. \E i \in 1..n : b = w[i]
      <4>1. CASE b = x
        BY <4>1 DEF x
      <4>2. CASE b = a
        BY <4>2, <2>5, <3>2
      <4> QED
        BY <3>4, <4>1, <4>2
    <3>6. \A i \in 1..k : b <= w[i]
      <4> SUFFICES ASSUME NEW i \in 1..k PROVE b <= w[i]
        OBVIOUS
      <4>1. CASE i = k
        BY <4>1, <3>4 DEF x
      <4>2. CASE i \in 1..(k - 1)
        <5>1. a <= w[i] /\ w[i] \in Int
          BY <4>2, <2>5, <3>2
        <5> QED
          BY ONLY <5>1, <3>3, <3>4
      <4> QED
        BY <4>1, <4>2, <2>7
    <3> QED
      BY <3>2, <3>5, <3>6
  <2>9. /\ \E i \in 1..n : g[k].maxValue = w[i]
        /\ \A i \in 1..k : g[k].maxValue >= w[i]
    <3>1. g[k].maxValue = IF x > p.maxValue THEN x ELSE p.maxValue
      BY <2>3
    <3>2. PICK a, b : a = p.maxValue /\ b = g[k].maxValue
      OBVIOUS
    <3>3. a \in Int /\ b = IF x > a THEN x ELSE a
      BY <2>6, <3>1, <3>2
    <3>4. b \in Int /\ b >= x /\ b >= a /\ (b = x \/ b = a)
      BY ONLY <2>1, <3>3
    <3>5. \E i \in 1..n : b = w[i]
      <4>1. CASE b = x
        BY <4>1 DEF x
      <4>2. CASE b = a
        BY <4>2, <2>5, <3>2
      <4> QED
        BY <3>4, <4>1, <4>2
    <3>6. \A i \in 1..k : b >= w[i]
      <4> SUFFICES ASSUME NEW i \in 1..k PROVE b >= w[i]
        OBVIOUS
      <4>1. CASE i = k
        BY <4>1, <3>4 DEF x
      <4>2. CASE i \in 1..(k - 1)
        <5>1. a >= w[i] /\ w[i] \in Int
          BY <4>2, <2>5, <3>2
        <5> QED
          BY ONLY <5>1, <3>3, <3>4
      <4> QED
        BY <4>1, <4>2, <2>7
    <3> QED
      BY <3>2, <3>5, <3>6
  <2> QED
    BY <2>4, <2>8, <2>9
<1> HIDE DEF Good
<1>6. Bad = {}
  <2> SUFFICES ASSUME Bad # {} PROVE FALSE
    OBVIOUS
  <2>0. Bad \subseteq Nat
    OBVIOUS
  <2>1. PICK m \in Bad : \A k \in Bad : m <= k
    BY <2>0, SmallestIsIn
  <2>2. m # 0
    BY <1>4
  <2>3. m \in 1..n /\ m - 1 \in 0..n /\ m - 1 \notin Bad
    BY <2>1, <2>2
  <2>4. Good(m - 1)
    BY <2>3
  <2> QED
    BY <2>3, <2>4, <1>5
<1>7. Good(n)
  BY <1>6
<1> QED
  BY <1>7 DEF Good, g, S, Summarises

-----------------------------------------------------------------------------
(* The refinement                                                          *)

(* Min and Max of a set of integers, given the member that is.            *)
LEMMA LeastOf ==
  ASSUME NEW S, S \subseteq Int, NEW m \in S
  PROVE  /\ (\A x \in S : m <= x) => W!Min(S) = m
         /\ (\A x \in S : m >= x) => W!Max(S) = m
<1>1. ASSUME \A x \in S : m <= x PROVE W!Min(S) = m
  <2>1. \E x \in S : \A y \in S : x <= y
    BY <1>1
  <2>2. W!Min(S) \in S /\ \A y \in S : W!Min(S) <= y
    BY <2>1 DEF W!Min
  <2>3. W!Min(S) <= m /\ m <= W!Min(S) /\ m \in Int /\ W!Min(S) \in Int
    BY <1>1, <2>2
  <2> QED
    BY ONLY <2>3
<1>2. ASSUME \A x \in S : m >= x PROVE W!Max(S) = m
  <2>1. \E x \in S : \A y \in S : x >= y
    BY <1>2
  <2>2. W!Max(S) \in S /\ \A y \in S : W!Max(S) >= y
    BY <2>1 DEF W!Max
  <2>3. W!Max(S) >= m /\ m >= W!Max(S) /\ m \in Int /\ W!Max(S) \in Int
    BY <1>2, <2>2
  <2> QED
    BY ONLY <2>3
<1> QED
  BY <1>1, <1>2

(* computeStats() finds the statistics of the window by their definition.  *)
LEMMA StatsOfWindow ==
  ASSUME TypeOK, NEW r \in Readers
  PROVE  /\ Window(r) = <<>> => computeStats(tails[r], head) = NoStats
         /\ Window(r) # <<>> =>
              computeStats(tails[r], head) =
                [minValue |-> W!StatsOf(Window(r)).minValue,
                 maxValue |-> W!StatsOf(Window(r)).maxValue,
                 sum |-> W!StatsOf(Window(r)).sum,
                 samples |-> Len(Window(r)), lostSamples |-> 0]
<1>1. PICK t \in Slots, h \in Slots, n \in 0..BufferSize :
        t = tails[r] /\ h = head /\ n = Distance(t, h)
  <2>1. tails[r] \in Slots /\ head \in Slots
    BY DEF TypeOK
  <2> QED
    BY <2>1, DistanceGrows
<1>2. PICK w : w = Contents(buffer, t, n)
  OBVIOUS
<1>3. buffer \in [Slots -> Int] /\ BufferSize \in Nat /\ t \in 0..BufferSize /\ h \in 0..BufferSize
      /\ size = BufferSize + 1
  BY AggregatedMetricAssumption DEF TypeOK, Slots, size
<1>4. /\ w \in [1..n -> Int] /\ Len(w) = n
      /\ \A i \in 1..n : w[i] = buffer[SlotAfter(t, i - 1)]
  BY <1>2, <1>3, ContentsInOrder
<1>5. Window(r) = w
  BY <1>1, <1>2 DEF Window, Contents
<1>6. n = 0 <=> t = h
  BY <1>1, <1>3 DEF Distance
<1>7. w = <<>> <=> n = 0
  BY <1>3, <1>4
<1>8. CASE n = 0
  <2>1. computeStats(t, h) = NoStats
    BY <1>6, <1>8 DEF computeStats
  <2> QED
    BY <1>1, <1>5, <1>7, <1>8, <2>1
<1>9. CASE n # 0
  <2>1. n \in Nat \ {0} /\ t \in Nat
    BY <1>3, <1>9
  <2>2. \A i \in 1..n : w[i] = buffer[(t + (i - 1)) % size]
    BY <1>4 DEF SlotAfter
  <2>3. t = t % size
    BY ONLY <1>3
  <2>4. PICK total : total = ScanOver(t, n)[n]
    OBVIOUS
  <2>5. /\ total.sum = SumOver(w, 1..n)[1..n]
        /\ \E i \in 1..n : total.minValue = w[i]
        /\ \A i \in 1..n : total.minValue <= w[i]
        /\ \E i \in 1..n : total.maxValue = w[i]
        /\ \A i \in 1..n : total.maxValue >= w[i]
    <3>1. HoldsSlots(w, t, n) /\ w \in [1..n -> Int]
      BY <1>4, <2>2 DEF HoldsSlots
    <3>2. Summarises(ScanOver(t, n)[n], w, n)
      BY ONLY <2>1, <2>3, <3>1, ScanSummary
    <3> QED
      BY <2>4, <3>2 DEF Summarises
  <2>6. DOMAIN w = 1..n /\ W!ToSet(w) = {w[i] : i \in 1..n}
    BY <1>4 DEF W!ToSet
  <2>7. W!ToSet(w) \subseteq Int /\ total.minValue \in W!ToSet(w) /\ total.maxValue \in W!ToSet(w)
    BY <1>4, <2>5, <2>6
  <2>8. W!Min(W!ToSet(w)) = total.minValue
    <3>1. \A x \in W!ToSet(w) : total.minValue <= x
      BY <2>5, <2>6
    <3> QED
      BY <2>7, <3>1, LeastOf
  <2>9. W!Max(W!ToSet(w)) = total.maxValue
    <3>1. \A x \in W!ToSet(w) : total.maxValue >= x
      BY <2>5, <2>6
    <3> QED
      BY <2>7, <3>1, LeastOf
  <2>10. W!FoldSeq(+, 0, w) = total.sum
    BY <2>5, <2>6, FoldIsSum
  <2>11. /\ W!StatsOf(w).minValue = total.minValue /\ W!StatsOf(w).maxValue = total.maxValue
         /\ W!StatsOf(w).sum = total.sum
    BY <2>8, <2>9, <2>10 DEF W!StatsOf
  <2>12. computeStats(t, h) = [minValue |-> total.minValue, maxValue |-> total.maxValue,
                               sum |-> total.sum, samples |-> n, lostSamples |-> 0]
    BY <1>1, <1>6, <1>9, <2>4, StatsAreScan
  <2> QED
    BY <1>1, <1>4, <1>5, <1>7, <1>9, <2>11, <2>12
<1> QED
  BY <1>8, <1>9

(* The refinement's step for collect().                                    *)
LEMMA CollectImplements ==
  ASSUME TypeOK, NEW r \in Readers, collect(r)
  PROVE  W!Collect(r)
<1> DEFINE win == [q \in Readers |-> Window(q)]
<1>1. stats' = [stats EXCEPT ![r] =
       IF win[r] = <<>>
       THEN [W!NoStats EXCEPT !.lostSamples = lostSamples[r]]
       ELSE [W!NoStats EXCEPT !.minValue = W!StatsOf(win[r]).minValue,
                            !.maxValue = W!StatsOf(win[r]).maxValue,
                            !.sum = W!StatsOf(win[r]).sum,
                            !.samples = Len(win[r]),
                            !.lostSamples = lostSamples[r]]]
  <2>1. PICK w : w = Window(r)
    OBVIOUS
  <2>2. win[r] = w
    BY <2>1
  <2>3. stats' = [stats EXCEPT ![r] =
                    [computeStats(tails[r], head) EXCEPT !.lostSamples = lostSamples[r]]]
    BY DEF collect
  <2>4. w = <<>> => [computeStats(tails[r], head) EXCEPT !.lostSamples = lostSamples[r]]
                      = [W!NoStats EXCEPT !.lostSamples = lostSamples[r]]
    BY <2>1, StatsOfWindow DEF NoStats, W!NoStats
  <2>5. w # <<>> => [computeStats(tails[r], head) EXCEPT !.lostSamples = lostSamples[r]]
                      = [W!NoStats EXCEPT !.minValue = W!StatsOf(w).minValue,
                            !.maxValue = W!StatsOf(w).maxValue,
                            !.sum = W!StatsOf(w).sum,
                            !.samples = Len(w),
                            !.lostSamples = lostSamples[r]]
    <3>1. w # <<>> => computeStats(tails[r], head) =
            [minValue |-> W!StatsOf(w).minValue, maxValue |-> W!StatsOf(w).maxValue,
             sum |-> W!StatsOf(w).sum, samples |-> Len(w), lostSamples |-> 0]
      BY <2>1, StatsOfWindow
    <3>2. PICK a, b, c, d :
            /\ a = W!StatsOf(w).minValue /\ b = W!StatsOf(w).maxValue
            /\ c = W!StatsOf(w).sum /\ d = lostSamples[r]
      OBVIOUS
    <3> SUFFICES ASSUME w # <<>>
                 PROVE  [computeStats(tails[r], head) EXCEPT !.lostSamples = d]
                        = [W!NoStats EXCEPT !.minValue = a, !.maxValue = b, !.sum = c,
                                            !.samples = Len(w), !.lostSamples = d]
      BY <3>2
    <3>3. computeStats(tails[r], head) = [minValue |-> a, maxValue |-> b, sum |-> c,
                                          samples |-> Len(w), lostSamples |-> 0]
      BY <3>1, <3>2
    <3>4. [computeStats(tails[r], head) EXCEPT !.lostSamples = d] =
            [minValue |-> a, maxValue |-> b, sum |-> c, samples |-> Len(w), lostSamples |-> d]
      BY ONLY <3>3
    <3>5. [W!NoStats EXCEPT !.minValue = a, !.maxValue = b, !.sum = c,
                            !.samples = Len(w), !.lostSamples = d] =
            [minValue |-> a, maxValue |-> b, sum |-> c, samples |-> Len(w), lostSamples |-> d]
      <4>1. PICK s : s = [W!NoStats EXCEPT !.minValue = a, !.maxValue = b, !.sum = c,
                                           !.samples = Len(w), !.lostSamples = d]
        OBVIOUS
      <4>2. s = [minValue |-> a, maxValue |-> b, sum |-> c, samples |-> Len(w),
                 lostSamples |-> d]
        BY ONLY <4>1 DEF W!NoStats
      <4> QED
        BY ONLY <4>1, <4>2
    <3> QED
      BY <3>4, <3>5
  <2> QED
    BY <2>2, <2>3, <2>4, <2>5
<1>2. win' = [win EXCEPT ![r] = <<>>]
  <2>1. \A q \in Readers : q # r => Window(q)' = Window(q)
    BY DEF collect, Window, Distance, TypeOK
  <2>2. Window(r)' = <<>>
    <3>1. tails'[r] = head /\ head' = head /\ head \in Slots
      BY DEF collect, TypeOK
    <3>2. Distance(tails'[r], head') = 0
      BY <3>1, DistanceGrows
    <3>3. 1..0 = {}
      OBVIOUS
    <3> QED
      BY <3>2, <3>3 DEF Window
  <2>3. win' = [q \in Readers |-> Window(q)']
    OBVIOUS
  <2> QED
    BY <2>1, <2>2, <2>3
<1>3. lostSamples' = [lostSamples EXCEPT ![r] = 0]
  BY DEF collect
<1> QED
  BY <1>1, <1>2, <1>3 DEF W!Collect

(* add() and collect() keep the promise of the abstract window: each       *)
(* collect() reports on the most recent samples, at most BufferSize of     *)
(* them, that were added since the reader's previous one, with their       *)
(* minimum, maximum and sum, and says how many older ones it left out.     *)
THEOREM ImplementsTheWindow == Spec => ImplementsSampleWindow
<1>1. Init => W!Init
  <2> SUFFICES ASSUME Init PROVE W!Init
    OBVIOUS
  <2>1. \A r \in Readers : Window(r) = <<>>
    <3> SUFFICES ASSUME NEW r \in Readers PROVE Window(r) = <<>>
      OBVIOUS
    <3>1. tails[r] = 0 /\ head = 0 /\ Distance(0, 0) = 0 /\ 1..0 = {}
      BY DEF Init, Distance
    <3> QED
      BY <3>1 DEF Window
  <2> QED
    BY <2>1 DEF Init, W!Init, NoStats, W!NoStats
<1>2. ASSUME TypeOK, TypeOK', EverySampleAccounted, [Next]_vars
      PROVE  [W!Next]_(<<[r \in Readers |-> Window(r)], lostSamples, stats>>)
  <2>1. ASSUME NEW v \in Values, add(v) PROVE W!Next
    BY <1>2, <2>1, AddImplements DEF W!Next
  <2>2. ASSUME NEW r \in Readers, collect(r) PROVE W!Next
    BY <1>2, <2>2, CollectImplements DEF W!Next
  <2>3. CASE UNCHANGED vars
    BY <2>3 DEF vars, Window, Distance, size
  <2> QED
    BY <1>2, <2>1, <2>2, <2>3 DEF Next
<1>3. Spec => [](TypeOK /\ EverySampleAccounted)
  BY SamplesAccounted
<1>4. Spec => Init /\ [][Next]_vars
  BY DEF Spec
<1> QED
  BY <1>1, <1>2, <1>3, <1>4, PTL DEF ImplementsSampleWindow, W!Spec
=============================================================================
