--------------------------- MODULE AggregatedMetric ---------------------------
(***************************************************************************)
(* aggregatedMetric (xpumd/receiver/intelxpu/sysman/aggregated.go): a ring *)
(* buffer of samples with one tail per reader.  The sampler goroutine      *)
(* add()s, the scrapers collect().  Both hold the metric's mutex for the   *)
(* whole call, so each call is one step.  The slot under head holds no     *)
(* sample for anybody, so a buffer for BufferSize samples has one slot     *)
(* more.                                                                   *)
(***************************************************************************)
EXTENDS Integers, Sequences

CONSTANTS
  Readers,      \* reader indices
  BufferSize,   \* requested buffer size, possibly 0
  Values,       \* samples
  MaxLost       \* bound: samples a reader may have lost before it collects

ASSUME AggregatedMetricAssumption ==
  /\ BufferSize \in Nat
  /\ MaxLost \in Nat
  /\ Values \subseteq Int

VARIABLES
  buffer, head, tails, lostSamples,   \* the fields of the struct
  stats,                              \* last result of collect() per reader
  added                               \* history: samples added since then

vars == <<buffer, head, tails, lostSamples, stats, added>>

size == BufferSize + 1
Slots == 0..BufferSize

NoStats == [minValue |-> 0, maxValue |-> 0, sum |-> 0, samples |-> 0,
            lostSamples |-> 0]

TypeOK ==
  /\ buffer \in [Slots -> Int]
  /\ head \in Slots
  /\ tails \in [Readers -> Slots]
  /\ lostSamples \in [Readers -> Nat]
  /\ added \in [Readers -> Nat]

(* newAggregatedMetric(): make() zeroes everything.                        *)
Init ==
  /\ buffer = [i \in Slots |-> 0]
  /\ head = 0
  /\ tails = [r \in Readers |-> 0]
  /\ lostSamples = [r \in Readers |-> 0]
  /\ stats = [r \in Readers |-> NoStats]
  /\ added = [r \in Readers |-> 0]

Succ(i) == (i + 1) % size

(* Mutant: the tail moves one sample late.                                 *)
OverrunMutant(r) == head = tails[r] /\ added[r] > 0

(* The head has reached this reader's tail: its oldest sample is lost.     *)
Overrun(r) == Succ(head) = tails[r]

add(value) ==
  /\ \A r \in Readers : lostSamples[r] < MaxLost
  /\ buffer' = [buffer EXCEPT ![head] = value]
  /\ head' = Succ(head)
  /\ tails' = [r \in Readers |-> IF Overrun(r) THEN Succ(tails[r]) ELSE tails[r]]
  /\ lostSamples' = [r \in Readers |->
                       IF Overrun(r) THEN lostSamples[r] + 1 ELSE lostSamples[r]]
  /\ added' = [r \in Readers |-> added[r] + 1]
  /\ UNCHANGED stats

(* The number of slots from start up to, not including, end.               *)
Distance(start, end) == IF end < start THEN end - start + size ELSE end - start

(* computeStats(): the loop over the window, one slot per iteration.  The  *)
(* average is kept as its two operands, sum and samples.                   *)
computeStats(start, end) ==
  LET Slot(i) == buffer[(start + i) % size]
      scan[i \in 0..Distance(start, end)] ==
        IF i = 0
        THEN [minValue |-> buffer[start], maxValue |-> buffer[start], sum |-> 0]
        ELSE [minValue |-> IF Slot(i - 1) < scan[i - 1].minValue
                           THEN Slot(i - 1) ELSE scan[i - 1].minValue,
              maxValue |-> IF Slot(i - 1) > scan[i - 1].maxValue
                           THEN Slot(i - 1) ELSE scan[i - 1].maxValue,
              sum |-> scan[i - 1].sum + Slot(i - 1)]
      total == scan[Distance(start, end)]
  IN  IF start = end
      THEN NoStats
      ELSE [NoStats EXCEPT !.minValue = total.minValue,
                           !.maxValue = total.maxValue,
                           !.sum = total.sum,
                           !.samples = Distance(start, end)]

(* Mutant: reset() keeps the number of lost samples.                       *)
collectMutant(r) ==
  /\ stats' = [stats EXCEPT ![r] =
       [computeStats(tails[r], head) EXCEPT !.lostSamples = lostSamples[r]]]
  /\ tails' = [tails EXCEPT ![r] = head]
  /\ added' = [added EXCEPT ![r] = 0]
  /\ UNCHANGED <<buffer, head, lostSamples>>

(* collect() with its reset() of the reader.                               *)
collect(r) ==
  /\ stats' = [stats EXCEPT ![r] =
       [computeStats(tails[r], head) EXCEPT !.lostSamples = lostSamples[r]]]
  /\ tails' = [tails EXCEPT ![r] = head]
  /\ lostSamples' = [lostSamples EXCEPT ![r] = 0]
  /\ added' = [added EXCEPT ![r] = 0]
  /\ UNCHANGED <<buffer, head>>

Next == (\E v \in Values : add(v)) \/ (\E r \in Readers : collect(r))

Spec == Init /\ [][Next]_vars

-----------------------------------------------------------------------------
(* Every sample added since a reader's last collect() is either one of the *)
(* samples its next collect() will report or counted as lost, and samples  *)
(* are lost only beyond the buffer's size.                                 *)
EverySampleAccounted ==
  \A r \in Readers :
    LET n == Distance(tails[r], head) IN
      /\ added[r] = n + lostSamples[r]
      /\ n <= BufferSize
      /\ lostSamples[r] > 0 => n = BufferSize

(* The ring buffer implements the window of most recent samples: the slots *)
(* from a reader's tail to the head, oldest first, are its window.         *)
Window(r) ==
  [i \in 1..Distance(tails[r], head) |-> buffer[(tails[r] + i - 1) % size]]

W == INSTANCE SampleWindow
       WITH Capacity <- BufferSize,
            window <- [r \in Readers |-> Window(r)],
            lost <- lostSamples

(* Refinement: add() and collect() behave as on the abstract window, with  *)
(* the statistics that collect() reports.                                  *)
ImplementsSampleWindow == W!Spec
=============================================================================
