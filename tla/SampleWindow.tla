----------------------------- MODULE SampleWindow -----------------------------
(***************************************************************************)
(* What an aggregated metric promises to its readers: each collect()       *)
(* reports on the most recent samples, at most Capacity of them, that were *)
(* added since the same reader's previous collect(), and says how many     *)
(* older ones it had to leave out.  There is no buffer here.               *)
(***************************************************************************)
EXTENDS Integers, Sequences, SequencesExt

CONSTANTS Readers, Capacity, Values, MaxLost

VARIABLES
  window,   \* the samples a reader's next collect() will report on
  lost,     \* the number of samples it will miss
  stats     \* the result of the reader's last collect()

NoStats == [minValue |-> 0, maxValue |-> 0, sum |-> 0, samples |-> 0,
            lostSamples |-> 0]

Init ==
  /\ window = [r \in Readers |-> <<>>]
  /\ lost = [r \in Readers |-> 0]
  /\ stats = [r \in Readers |-> NoStats]

(* The last Capacity elements of a sequence.                               *)
Newest(s) == SubSeq(s, Len(s) - (IF Len(s) > Capacity THEN Capacity ELSE Len(s)) + 1,
                    Len(s))

Add(v) ==
  /\ \A r \in Readers : lost[r] < MaxLost
  /\ window' = [r \in Readers |-> Newest(Append(window[r], v))]
  /\ lost' = [r \in Readers |->
                lost[r] + (IF Len(window[r]) = Capacity THEN 1 ELSE 0)]
  /\ UNCHANGED stats

(* Statistics of a non-empty window by their definition.                   *)
StatsOf(w) ==
  [minValue |-> Min(ToSet(w)), maxValue |-> Max(ToSet(w)),
   sum |-> FoldSeq(+, 0, w), samples |-> Len(w)]

Collect(r) ==
  /\ stats' = [stats EXCEPT ![r] =
       IF window[r] = <<>>
       THEN [NoStats EXCEPT !.lostSamples = lost[r]]
       ELSE [NoStats EXCEPT !.minValue = StatsOf(window[r]).minValue,
                            !.maxValue = StatsOf(window[r]).maxValue,
                            !.sum = StatsOf(window[r]).sum,
                            !.samples = Len(window[r]),
                            !.lostSamples = lost[r]]]
  /\ window' = [window EXCEPT ![r] = <<>>]
  /\ lost' = [lost EXCEPT ![r] = 0]

Next == (\E v \in Values : Add(v)) \/ (\E r \in Readers : Collect(r))

Spec == Init /\ [][Next]_<<window, lost, stats>>
=============================================================================
