--------------------------- MODULE AsyncSinkProofs ---------------------------
(***************************************************************************)
(* Proofs about AsyncSink, for every number of producers and flushers,     *)
(* every queue and batch capacity and every overflow policy.               *)
(*                                                                         *)
(* IInv is inductive.  One lemma per conjunct shows that a step preserves  *)
(* it; each has one step per action that can disturb the conjunct.         *)
(***************************************************************************)
EXTENDS AsyncSink, FiniteSetTheorems, TLAPS

-----------------------------------------------------------------------------
(* Facts about sequences that the steps below use *)

(* Only the empty sequence has length zero.                                *)
LEMMA LenSeq ==
  ASSUME NEW S, NEW s \in Seq(S)
  PROVE  Len(s) \in Nat /\ (s = <<>> <=> Len(s) = 0)
  OBVIOUS

(* Head, Tail and length of a non-empty sequence.                          *)
LEMMA NonEmptySeq ==
  ASSUME NEW S, NEW s \in Seq(S), Len(s) >= 1 \/ s # <<>>
  PROVE  /\ s # <<>>
         /\ Len(s) \in Nat /\ Len(s) >= 1
         /\ Head(s) = s[1] /\ Head(s) \in S
         /\ Tail(s) \in Seq(S)
         /\ Len(Tail(s)) = Len(s) - 1
         /\ \A i \in 1..Len(s) - 1 : Tail(s)[i] = s[i + 1]
  OBVIOUS

(* Appending adds one element at the end and moves none.                   *)
LEMMA AppendSeq ==
  ASSUME NEW S, NEW s \in Seq(S), NEW e \in S
  PROVE  /\ Append(s, e) \in Seq(S)
         /\ Len(s) \in Nat
         /\ Len(Append(s, e)) = Len(s) + 1
         /\ Append(s, e) # <<>>
         /\ \A i \in 1..Len(s) : Append(s, e)[i] = s[i]
         /\ Append(s, e)[Len(s) + 1] = e
  OBVIOUS

(* The worker's dequeue cuts the queue into the batch and the rest.        *)
LEMMA CutSeq ==
  ASSUME NEW S, NEW s \in Seq(S), NEW n \in 1..Len(s)
  PROVE  /\ SubSeq(s, 1, n) \in Seq(S)
         /\ SubSeq(s, n + 1, Len(s)) \in Seq(S)
         /\ Len(SubSeq(s, 1, n)) = n
         /\ Len(SubSeq(s, n + 1, Len(s))) = Len(s) - n
         /\ SubSeq(s, 1, n) # <<>>
         /\ \A i \in 1..n : SubSeq(s, 1, n)[i] = s[i]
         /\ \A i \in 1..Len(s) - n : SubSeq(s, n + 1, Len(s))[i] = s[n + i]
  OBVIOUS

(* Runs of enqueue numbers grow at the end and shrink at the front.        *)
LEMMA RunAppend ==
  ASSUME NEW s \in Seq(LogEvent), NEW e \in LogEvent, NEW base \in Nat,
         Run(s, base), e.id = base + Len(s) + 1
  PROVE  Run(Append(s, e), base)
<1> SUFFICES ASSUME NEW i \in 1..Len(s) + 1
             PROVE  Append(s, e)[i].id = base + i
  BY AppendSeq DEF Run
<1>1. Len(s) \in Nat /\ i \in Nat
  BY LenSeq
<1>2. CASE i = Len(s) + 1
  BY <1>1, <1>2, AppendSeq
<1>3. CASE i \in 1..Len(s)
  BY <1>3, AppendSeq DEF Run
<1> QED BY <1>1, <1>2, <1>3

(* Retiring the head of a run leaves a run one number further on.          *)
LEMMA RunTail ==
  ASSUME NEW s \in Seq(LogEvent), NEW base \in Nat, Run(s, base), s # <<>>
  PROVE  Run(Tail(s), base + 1)
<1>1. /\ Len(s) \in Nat /\ Len(Tail(s)) = Len(s) - 1
      /\ \A i \in 1..Len(s) - 1 : Tail(s)[i] = s[i + 1]
  BY NonEmptySeq
<1> SUFFICES ASSUME NEW i \in 1..Len(s) - 1
             PROVE  Tail(s)[i].id = (base + 1) + i
  BY <1>1 DEF Run
<1>2. i + 1 \in 1..Len(s)
  BY <1>1
<1>3. s[i + 1].id = base + (i + 1)
  BY <1>2 DEF Run
<1> QED BY <1>1, <1>3

(* A run cut in two is two adjacent runs.                                  *)
LEMMA RunCut ==
  ASSUME NEW s \in Seq(LogEvent), NEW base \in Nat, Run(s, base), NEW n \in 1..Len(s)
  PROVE  /\ Run(SubSeq(s, 1, n), base)
         /\ Run(SubSeq(s, n + 1, Len(s)), base + n)
<1>0. Len(s) \in Nat /\ n \in Nat
  BY LenSeq
<1>1. Run(SubSeq(s, 1, n), base)
  <2> SUFFICES ASSUME NEW i \in 1..n PROVE SubSeq(s, 1, n)[i].id = base + i
    BY CutSeq DEF Run
  <2>1. i \in 1..Len(s)
    BY <1>0
  <2> QED BY <2>1, CutSeq DEF Run
<1>2. Run(SubSeq(s, n + 1, Len(s)), base + n)
  <2> SUFFICES ASSUME NEW i \in 1..Len(s) - n
               PROVE  SubSeq(s, n + 1, Len(s))[i].id = (base + n) + i
    BY CutSeq DEF Run
  <2>1. n + i \in 1..Len(s)
    BY <1>0
  <2>2. s[n + i].id = base + (n + i)
    BY <2>1 DEF Run
  <2>3. SubSeq(s, n + 1, Len(s))[i] = s[n + i]
    BY CutSeq
  <2> QED BY <1>0, <2>2, <2>3
<1> QED BY <1>1, <1>2

(* A full queue holds something to evict.                                  *)
LEMMA FullNonEmpty ==
  ASSUME TypeOK, Full
  PROVE  Len(queue) \in Nat /\ Len(queue) >= 1 /\ queue # <<>>
<1>1. queue \in Seq(LogEvent) /\ mMaxQueueSize \in Nat \ {0} /\ Len(queue) >= mMaxQueueSize
  BY DEF TypeOK, Full
<1>2. Len(queue) \in Nat /\ Len(queue) >= 1
  BY <1>1
<1> QED BY <1>1, <1>2, NonEmptySeq

(* A call that runs out of memory leaves the queue as it is or without the *)
(* record it has evicted.                                                  *)
LEMMA FailFacts ==
  ASSUME TypeOK, NEW p \in Producers, EnqueueFails(p)
  PROVE  /\ producer[p] = "lock" /\ producer' = [producer EXCEPT ![p] = "idle"]
         /\ nFailed' = nFailed + 1
         /\ UNCHANGED <<policy, mMaxQueueSize, drained, batch, nQueued, nProcessed, stop,
                        worker, draining, logged, nLogged, flusher, target, owner, delivered>>
         /\ \/ UNCHANGED <<queue, nRetired, nDropped, evicted>>
            \/ /\ policy = "DropOldest" /\ queue # <<>>
               /\ queue' = Tail(queue) /\ Tail(queue) \in Seq(LogEvent)
               /\ Len(queue) \in Nat /\ Len(Tail(queue)) = Len(queue) - 1
               /\ Head(queue).id \in Nat /\ evicted' = evicted \cup {Head(queue).id}
               /\ nDropped' = nDropped + 1 /\ nRetired' = nRetired + 1
<1>1. /\ producer[p] = "lock" /\ producer' = [producer EXCEPT ![p] = "idle"]
      /\ nFailed' = nFailed + 1
      /\ UNCHANGED <<policy, mMaxQueueSize, drained, batch, nQueued, nProcessed, stop,
                     worker, draining, logged, nLogged, flusher, target, owner, delivered>>
  BY DEF EnqueueFails, config
<1>2. CASE UNCHANGED <<queue, nRetired, nDropped, evicted>>
  BY <1>1, <1>2
<1>3. CASE /\ Full /\ policy = "DropOldest" /\ queue' = Tail(queue)
           /\ nDropped' = nDropped + 1 /\ nRetired' = nRetired + 1
           /\ evicted' = evicted \cup {Head(queue).id}
  <2>1. queue \in Seq(LogEvent) /\ Len(queue) >= 1
    BY <1>3 DEF Full, TypeOK
  <2>2. /\ queue # <<>> /\ Tail(queue) \in Seq(LogEvent) /\ Head(queue) \in LogEvent
        /\ Len(queue) \in Nat /\ Len(Tail(queue)) = Len(queue) - 1
    BY <2>1, NonEmptySeq
  <2>3. Head(queue).id \in Nat
    BY <2>2 DEF LogEvent
  <2> QED BY <1>1, <1>3, <2>2, <2>3
<1> QED BY <1>2, <1>3 DEF EnqueueFails

-----------------------------------------------------------------------------
(* Initial states *)

(* The constructor establishes the invariant.                              *)
LEMMA InitIInv == Init => IInv
<1> SUFFICES ASSUME Init PROVE IInv
  OBVIOUS
<1> USE AsyncSinkAssumption DEF Init
<1>1. queue \in Seq(LogEvent) /\ batch \in Seq(LogEvent) /\ delivered \in Seq(LogEvent)
  OBVIOUS
<1>2. /\ nQueued \in Nat /\ nRetired \in Nat /\ nProcessed \in Nat /\ nDropped \in Nat
      /\ evicted \in SUBSET Nat
  OBVIOUS
<1>0. policy \in OverflowPolicy /\ mMaxQueueSize \in Nat \ {0}
  OBVIOUS
<1>3. TypeOK
  BY <1>0, <1>1, <1>2 DEF TypeOK
<1>4. RetireAccounting /\ Capacity /\ BatchInv /\ OrderInv /\ TargetInv
  BY DEF RetireAccounting, Capacity, BatchInv, OrderInv, TargetInv, Run
<1> QED BY <1>3, <1>4 DEF IInv

-----------------------------------------------------------------------------
(* Steps *)

(* Every step keeps the types; delivering needs a non-empty batch.        *)
LEMMA TypeStep == TypeOK /\ BatchInv /\ [Next]_vars => TypeOK'
<1> SUFFICES ASSUME TypeOK, BatchInv, [Next]_vars PROVE TypeOK'
  OBVIOUS
<1> USE AsyncSinkAssumption DEF TypeOK, LogEvent, config, counters, calls, history
<1>1. ASSUME NEW p \in Producers, LogBegin(p) PROVE TypeOK'
  BY <1>1 DEF LogBegin
<1>2. ASSUME NEW p \in Producers, EnqueueRoom(p) PROVE TypeOK'
  BY <1>2, AppendSeq DEF EnqueueRoom, Push, Event
<1>3. ASSUME NEW p \in Producers, EnqueueBlock(p) PROVE TypeOK'
  <2>1. CASE ~stop /\ producer' = [producer EXCEPT ![p] = "gap"] /\ UNCHANGED <<queue, nQueued, nDropped>>
    BY <1>3, <2>1 DEF EnqueueBlock
  <2>2. CASE Discard(p)
    BY <1>3, <2>2 DEF EnqueueBlock, Discard
  <2> QED BY <1>3, <2>1, <2>2 DEF EnqueueBlock
<1>4. ASSUME NEW p \in Producers, EnqueueDropOldest(p) PROVE TypeOK'
  <2>1. Len(queue) >= 1
    BY <1>4 DEF EnqueueDropOldest, Full
  <2>2. Head(queue).id \in Nat /\ Tail(queue) \in Seq(LogEvent)
    BY <2>1, NonEmptySeq
  <2>3. Append(Tail(queue), Event(p)) \in Seq(LogEvent)
    BY <2>2, AppendSeq DEF Event
  <2>4. evicted' \in SUBSET Nat
    BY <1>4, <2>2 DEF EnqueueDropOldest
  <2>5. /\ queue' \in Seq(LogEvent) /\ nQueued' = nQueued + 1
        /\ producer' = [producer EXCEPT ![p] = "notify"]
        /\ nDropped' = nDropped + 1 /\ nRetired' = nRetired + 1
    BY <1>4, <2>3 DEF EnqueueDropOldest, Push
  <2>6. UNCHANGED <<config, drained, batch, nProcessed, stop, worker, draining, calls,
                    flusher, target, owner, delivered>>
    BY <1>4 DEF EnqueueDropOldest
  <2> QED BY <2>4, <2>5, <2>6
<1>5. ASSUME NEW p \in Producers, EnqueueDropNewest(p) PROVE TypeOK'
  BY <1>5 DEF EnqueueDropNewest, Discard
<1>6. ASSUME NEW p \in Producers, ProducerSleep(p) PROVE TypeOK'
  BY <1>6 DEF ProducerSleep
<1>7. ASSUME NEW p \in Producers, EnqueueNotify(p) PROVE TypeOK'
  BY <1>7 DEF EnqueueNotify, NotifyOne
<1>8. ASSUME NEW f \in Flushers, FlushBegin(f) PROVE TypeOK'
  BY <1>8 DEF FlushBegin
<1>9. ASSUME NEW f \in Flushers, FlushNotify(f) PROVE TypeOK'
  BY <1>9 DEF FlushNotify, NotifyOne
<1>10. ASSUME NEW f \in Flushers, FlushCheck(f) PROVE TypeOK'
  BY <1>10 DEF FlushCheck
<1>11. ASSUME NEW f \in Flushers, FlushSleep(f) PROVE TypeOK'
  BY <1>11 DEF FlushSleep
<1>12. CASE SpuriousWakeup
  BY <1>12 DEF SpuriousWakeup
<1>13. CASE WorkerTakeBatch
  <2> DEFINE n == MinNat(Len(queue), BatchCap)
  <2>1. n \in 1..Len(queue)
    BY <1>13, NonEmptySeq DEF WorkerTakeBatch, MinNat
  <2>2. SubSeq(queue, 1, n) \in Seq(LogEvent) /\ SubSeq(queue, n + 1, Len(queue)) \in Seq(LogEvent)
    BY <2>1, CutSeq
  <2> QED BY <1>13, <2>2 DEF WorkerTakeBatch, WokenProducers
<1>14. CASE WorkerIdle
  BY <1>14 DEF WorkerIdle
<1>15. CASE WorkerSleep
  BY <1>15 DEF WorkerSleep
<1>16. CASE WorkerTimeout
  BY <1>16 DEF WorkerTimeout
<1>17. CASE WorkerDeliver
  <2>1. Append(delivered, Head(batch)) \in Seq(LogEvent)
    BY <1>17, NonEmptySeq, AppendSeq DEF WorkerDeliver, BatchInv
  <2> QED BY <1>17, <2>1 DEF WorkerDeliver
<1>18. CASE WorkerRetire
  <2>1. Tail(batch) \in Seq(LogEvent)
    BY <1>18, NonEmptySeq DEF WorkerRetire, BatchInv
  <2> QED BY <1>18, <2>1 DEF WorkerRetire
<1>19. CASE WorkerNotifyIdle
  BY <1>19 DEF WorkerNotifyIdle, WokenFlushers
<1>20. CASE WorkerDrain
  BY <1>20 DEF WorkerDrain
<1>21. CASE DestroyRequestStop
  BY <1>21 DEF DestroyRequestStop, InFlight
<1>22. CASE DestroyNotifyAll
  BY <1>22 DEF DestroyNotifyAll, WokenWorker, WokenProducers
<1>23. CASE DestroyJoin
  BY <1>23 DEF DestroyJoin
<1>24. CASE Terminated
  BY <1>24 DEF Terminated, vars
<1>25. CASE UNCHANGED vars
  BY <1>25 DEF vars
<1>26. ASSUME NEW p \in Producers, EnqueueFails(p) PROVE TypeOK'
  <2>1. /\ producer' = [producer EXCEPT ![p] = "idle"] /\ nFailed' = nFailed + 1
        /\ UNCHANGED <<policy, mMaxQueueSize, drained, batch, nQueued, nProcessed, stop,
                       worker, draining, logged, nLogged, flusher, target, owner, delivered>>
    BY <1>26, FailFacts
  <2>2. CASE UNCHANGED <<queue, nRetired, nDropped, evicted>>
    BY <2>1, <2>2
  <2>3. CASE /\ queue' = Tail(queue) /\ Tail(queue) \in Seq(LogEvent)
             /\ Head(queue).id \in Nat /\ evicted' = evicted \cup {Head(queue).id}
             /\ nDropped' = nDropped + 1 /\ nRetired' = nRetired + 1
    <3>1. queue' \in Seq(LogEvent) /\ evicted' \in SUBSET Nat
      BY <2>3
    <3> QED BY <2>1, <2>3, <3>1
  <2> QED BY <1>26, <2>2, <2>3, FailFacts
<1> QED
  BY <1>1, <1>2, <1>3, <1>4, <1>5, <1>6, <1>7, <1>8,
     <1>9, <1>10, <1>11, <1>12, <1>13, <1>14, <1>15, <1>16,
     <1>17, <1>18, <1>19, <1>20, <1>21, <1>22, <1>23, <1>24,
     <1>25, <1>26
  DEF Next, Produce, Flush, Work, Destroy

(* The worker leaves processBatch() exactly when its batch is used up.     *)
LEMMA BatchStep == TypeOK /\ BatchInv /\ [Next]_vars => BatchInv'
<1> SUFFICES ASSUME TypeOK, BatchInv, [Next]_vars PROVE BatchInv'
  OBVIOUS
<1> USE AsyncSinkAssumption DEF TypeOK, BatchInv, config, counters, calls, history
<1>1. ASSUME NEW p \in Producers, LogBegin(p) PROVE BatchInv'
  BY <1>1 DEF LogBegin
<1>2. ASSUME NEW p \in Producers, EnqueueRoom(p) PROVE BatchInv'
  BY <1>2 DEF EnqueueRoom, Push, Event
<1>3. ASSUME NEW p \in Producers, EnqueueBlock(p) PROVE BatchInv'
  BY <1>3 DEF EnqueueBlock, Discard
<1>4. ASSUME NEW p \in Producers, EnqueueDropOldest(p) PROVE BatchInv'
  BY <1>4 DEF EnqueueDropOldest, Push, Event, Full
<1>5. ASSUME NEW p \in Producers, EnqueueDropNewest(p) PROVE BatchInv'
  BY <1>5 DEF EnqueueDropNewest, Discard
<1>6. ASSUME NEW p \in Producers, ProducerSleep(p) PROVE BatchInv'
  BY <1>6 DEF ProducerSleep
<1>7. ASSUME NEW p \in Producers, EnqueueNotify(p) PROVE BatchInv'
  BY <1>7 DEF EnqueueNotify, NotifyOne
<1>8. ASSUME NEW f \in Flushers, FlushBegin(f) PROVE BatchInv'
  BY <1>8 DEF FlushBegin
<1>9. ASSUME NEW f \in Flushers, FlushNotify(f) PROVE BatchInv'
  BY <1>9 DEF FlushNotify, NotifyOne
<1>10. ASSUME NEW f \in Flushers, FlushCheck(f) PROVE BatchInv'
  BY <1>10 DEF FlushCheck
<1>11. ASSUME NEW f \in Flushers, FlushSleep(f) PROVE BatchInv'
  BY <1>11 DEF FlushSleep
<1>12. CASE SpuriousWakeup
  BY <1>12 DEF SpuriousWakeup
<1>13. CASE WorkerTakeBatch
  <2> DEFINE n == MinNat(Len(queue), BatchCap)
  <2>1. n \in 1..Len(queue)
    BY <1>13, NonEmptySeq DEF WorkerTakeBatch, MinNat
  <2>2. SubSeq(queue, 1, n) # <<>>
    BY <2>1, CutSeq
  <2> QED BY <1>13, <2>2 DEF WorkerTakeBatch
<1>14. CASE WorkerIdle
  BY <1>14 DEF WorkerIdle
<1>15. CASE WorkerSleep
  BY <1>15 DEF WorkerSleep
<1>16. CASE WorkerTimeout
  BY <1>16 DEF WorkerTimeout
<1>17. CASE WorkerDeliver
  BY <1>17 DEF WorkerDeliver
<1>18. CASE WorkerRetire
  <2>1. batch # <<>>
    BY <1>18 DEF WorkerRetire
  <2>2. Len(batch) >= 1 /\ Tail(batch) \in Seq(LogEvent) /\ Len(Tail(batch)) = Len(batch) - 1
    BY <2>1, NonEmptySeq
  <2>4. Tail(batch) = <<>> <=> Len(Tail(batch)) = 0
    BY <2>2, LenSeq
  <2>5. Len(batch) \in Nat
    BY LenSeq
  <2>3. Tail(batch) # <<>> <=> Len(batch) > 1
    BY <2>2, <2>4, <2>5
  <2> QED BY <1>18, <2>3 DEF WorkerRetire
<1>19. CASE WorkerNotifyIdle
  BY <1>19 DEF WorkerNotifyIdle, WokenFlushers
<1>20. CASE WorkerDrain
  BY <1>20 DEF WorkerDrain
<1>21. CASE DestroyRequestStop
  BY <1>21 DEF DestroyRequestStop
<1>22. CASE DestroyNotifyAll
  BY <1>22 DEF DestroyNotifyAll, WokenWorker, WokenProducers
<1>23. CASE DestroyJoin
  BY <1>23 DEF DestroyJoin
<1>24. CASE Terminated
  BY <1>24 DEF Terminated, vars
<1>25. CASE UNCHANGED vars
  BY <1>25 DEF vars
<1>26. ASSUME NEW p \in Producers, EnqueueFails(p) PROVE BatchInv'
  BY <1>26, FailFacts
<1> QED
  BY <1>1, <1>2, <1>3, <1>4, <1>5, <1>6, <1>7, <1>8,
     <1>9, <1>10, <1>11, <1>12, <1>13, <1>14, <1>15, <1>16,
     <1>17, <1>18, <1>19, <1>20, <1>21, <1>22, <1>23, <1>24,
     <1>25, <1>26
  DEF Next, Produce, Flush, Work, Destroy

(* RetireAccounting and Capacity, which only enqueue(), the evicting       *)
(* overflow and the worker can disturb.                                    *)
CountInv == RetireAccounting /\ Capacity

(* A step changes nQueued, nRetired, the batch and the queue in balance,   *)
(* and adds to the queue only where there is room.                         *)
LEMMA CountStep == TypeOK /\ BatchInv /\ CountInv /\ [Next]_vars => CountInv'
<1> SUFFICES ASSUME TypeOK, BatchInv, CountInv, [Next]_vars PROVE CountInv'
  OBVIOUS
<1> USE AsyncSinkAssumption DEF TypeOK, CountInv, RetireAccounting, Capacity, config, counters, calls, history
<1>1. ASSUME NEW p \in Producers, LogBegin(p) PROVE CountInv'
  BY <1>1 DEF LogBegin
<1>2. ASSUME NEW p \in Producers, EnqueueRoom(p) PROVE CountInv'
  <2>1. Event(p) \in LogEvent
    BY DEF Event, LogEvent
  <2>2. Len(queue') = Len(queue) + 1
    BY <1>2, <2>1, AppendSeq DEF EnqueueRoom, Push
  <2> QED BY <1>2, <2>2 DEF EnqueueRoom, Push, Full
<1>3. ASSUME NEW p \in Producers, EnqueueBlock(p) PROVE CountInv'
  BY <1>3 DEF EnqueueBlock, Discard
<1>4. ASSUME NEW p \in Producers, EnqueueDropOldest(p) PROVE CountInv'
  <2>1. Event(p) \in LogEvent
    BY DEF Event, LogEvent
  <2>2. Len(queue) >= 1
    BY <1>4 DEF EnqueueDropOldest, Full
  <2>3. Tail(queue) \in Seq(LogEvent) /\ Len(Tail(queue)) = Len(queue) - 1
    BY <2>2, NonEmptySeq
  <2>4. Len(queue') = Len(queue)
    BY <1>4, <2>1, <2>3, AppendSeq DEF EnqueueDropOldest, Push
  <2>5. nQueued' = nQueued + 1 /\ nRetired' = nRetired + 1 /\ batch' = batch
    BY <1>4 DEF EnqueueDropOldest, Push
  <2>6. RetireAccounting'
    BY <2>4, <2>5, LenSeq
  <2>7. Capacity'
    BY <1>4, <2>4 DEF EnqueueDropOldest
  <2> QED BY <2>6, <2>7
<1>5. ASSUME NEW p \in Producers, EnqueueDropNewest(p) PROVE CountInv'
  BY <1>5 DEF EnqueueDropNewest, Discard
<1>6. ASSUME NEW p \in Producers, ProducerSleep(p) PROVE CountInv'
  BY <1>6 DEF ProducerSleep
<1>7. ASSUME NEW p \in Producers, EnqueueNotify(p) PROVE CountInv'
  BY <1>7 DEF EnqueueNotify, NotifyOne
<1>8. ASSUME NEW f \in Flushers, FlushBegin(f) PROVE CountInv'
  BY <1>8 DEF FlushBegin
<1>9. ASSUME NEW f \in Flushers, FlushNotify(f) PROVE CountInv'
  BY <1>9 DEF FlushNotify, NotifyOne
<1>10. ASSUME NEW f \in Flushers, FlushCheck(f) PROVE CountInv'
  BY <1>10 DEF FlushCheck
<1>11. ASSUME NEW f \in Flushers, FlushSleep(f) PROVE CountInv'
  BY <1>11 DEF FlushSleep
<1>12. CASE SpuriousWakeup
  BY <1>12 DEF SpuriousWakeup
<1>13. CASE WorkerTakeBatch
  <2> DEFINE n == MinNat(Len(queue), BatchCap)
  <2>1. n \in 1..Len(queue)
    BY <1>13, NonEmptySeq DEF WorkerTakeBatch, MinNat
  <2>2. Len(batch') = n /\ Len(queue') = Len(queue) - n
    BY <1>13, <2>1, CutSeq DEF WorkerTakeBatch
  <2>3. Len(batch) = 0
    BY <1>13 DEF WorkerTakeBatch, BatchInv
  <2>4. UNCHANGED <<nQueued, nRetired, mMaxQueueSize>> /\ mMaxQueueSize \in Nat
    BY <1>13 DEF WorkerTakeBatch
  <2>5. /\ Len(queue) \in Nat /\ nRetired \in Nat /\ Len(queue) <= mMaxQueueSize
        /\ nQueued = nRetired + Len(batch) + Len(queue)
    BY LenSeq
  <2>6. n \in Nat
    BY <2>1, <2>5
  <2> HIDE DEF n
  <2>7. /\ nQueued' = nRetired' + Len(batch') + Len(queue')
        /\ Len(queue') <= mMaxQueueSize'
    BY ONLY <2>2, <2>3, <2>4, <2>5, <2>6
  <2> QED BY <2>7
<1>14. CASE WorkerIdle
  BY <1>14 DEF WorkerIdle
<1>15. CASE WorkerSleep
  BY <1>15 DEF WorkerSleep
<1>16. CASE WorkerTimeout
  BY <1>16 DEF WorkerTimeout
<1>17. CASE WorkerDeliver
  BY <1>17 DEF WorkerDeliver
<1>18. CASE WorkerRetire
  <2>1. Len(batch') = Len(batch) - 1
    BY <1>18, NonEmptySeq DEF WorkerRetire, BatchInv
  <2>2. nRetired' = nRetired + 1 /\ UNCHANGED <<nQueued, queue, mMaxQueueSize>>
    BY <1>18 DEF WorkerRetire
  <2>3. RetireAccounting'
    BY <2>1, <2>2, LenSeq
  <2> QED BY <2>2, <2>3
<1>19. CASE WorkerNotifyIdle
  BY <1>19 DEF WorkerNotifyIdle, WokenFlushers
<1>20. CASE WorkerDrain
  <2>1. Len(batch) = 0
    BY <1>20 DEF WorkerDrain, BatchInv
  <2> QED BY <1>20, <2>1 DEF WorkerDrain
<1>21. CASE DestroyRequestStop
  BY <1>21 DEF DestroyRequestStop
<1>22. CASE DestroyNotifyAll
  BY <1>22 DEF DestroyNotifyAll, WokenWorker, WokenProducers
<1>23. CASE DestroyJoin
  BY <1>23 DEF DestroyJoin
<1>24. CASE Terminated
  BY <1>24 DEF Terminated, vars
<1>25. CASE UNCHANGED vars
  BY <1>25 DEF vars
<1>26. ASSUME NEW p \in Producers, EnqueueFails(p) PROVE CountInv'
  <2>1. UNCHANGED <<nQueued, batch, mMaxQueueSize>> /\ mMaxQueueSize \in Nat
    BY <1>26, FailFacts
  <2>2. \/ UNCHANGED <<queue, nRetired>>
        \/ Len(queue') = Len(queue) - 1 /\ nRetired' = nRetired + 1
    BY <1>26, FailFacts
  <2>3. /\ Len(queue) \in Nat /\ Len(batch) \in Nat /\ nRetired \in Nat
        /\ nQueued = nRetired + Len(batch) + Len(queue) /\ Len(queue) <= mMaxQueueSize
    BY LenSeq
  <2>4. CASE UNCHANGED <<queue, nRetired>>
    BY <2>1, <2>3, <2>4
  <2>5. CASE Len(queue') = Len(queue) - 1 /\ nRetired' = nRetired + 1
    <3>1. /\ nQueued' = nRetired' + Len(batch') + Len(queue')
          /\ Len(queue') <= mMaxQueueSize'
      BY ONLY <2>1, <2>3, <2>5
    <3> QED BY <3>1
  <2> QED BY <2>2, <2>4, <2>5
<1> QED
  BY <1>1, <1>2, <1>3, <1>4, <1>5, <1>6, <1>7, <1>8,
     <1>9, <1>10, <1>11, <1>12, <1>13, <1>14, <1>15, <1>16,
     <1>17, <1>18, <1>19, <1>20, <1>21, <1>22, <1>23, <1>24,
     <1>25, <1>26
  DEF Next, Produce, Flush, Work, Destroy

(* Without eviction, the numbers stay consecutive from the backend to the  *)
(* tail of the queue.                                                      *)
LEMMA OrderStep == TypeOK /\ RetireAccounting /\ BatchInv /\ OrderInv /\ [Next]_vars => OrderInv'
<1> SUFFICES ASSUME TypeOK, RetireAccounting, BatchInv, OrderInv, [Next]_vars PROVE OrderInv'
  OBVIOUS
<1> USE AsyncSinkAssumption DEF TypeOK, OrderInv, config, counters, calls, history
<1>1. ASSUME NEW p \in Producers, LogBegin(p) PROVE OrderInv'
  BY <1>1 DEF LogBegin
<1>2. ASSUME NEW p \in Producers, EnqueueRoom(p) PROVE OrderInv'
  <2> SUFFICES ASSUME policy # "DropOldest" PROVE OrderInv'
    BY <1>2 DEF EnqueueRoom
  <2>1. Event(p) \in LogEvent /\ Event(p).id = nQueued + 1
    BY DEF Event, LogEvent
  <2>2. Len(queue) \in Nat /\ Len(batch) \in Nat
    BY LenSeq
  <2>3. Event(p).id = (nRetired + Len(batch)) + Len(queue) + 1
    BY <2>1, <2>2 DEF RetireAccounting
  <2>4. Run(Append(queue, Event(p)), nRetired + Len(batch))
    BY <2>1, <2>2, <2>3, RunAppend
  <2>5. UNCHANGED <<policy, worker, delivered, nRetired, batch>> /\ queue' = Append(queue, Event(p))
    BY <1>2 DEF EnqueueRoom, Push
  <2> QED BY <2>4, <2>5
<1>3. ASSUME NEW p \in Producers, EnqueueBlock(p) PROVE OrderInv'
  BY <1>3 DEF EnqueueBlock, Discard
<1>4. ASSUME NEW p \in Producers, EnqueueDropOldest(p) PROVE OrderInv'
  BY <1>4 DEF EnqueueDropOldest, Push, Event, Full
<1>5. ASSUME NEW p \in Producers, EnqueueDropNewest(p) PROVE OrderInv'
  BY <1>5 DEF EnqueueDropNewest, Discard
<1>6. ASSUME NEW p \in Producers, ProducerSleep(p) PROVE OrderInv'
  BY <1>6 DEF ProducerSleep
<1>7. ASSUME NEW p \in Producers, EnqueueNotify(p) PROVE OrderInv'
  BY <1>7 DEF EnqueueNotify, NotifyOne
<1>8. ASSUME NEW f \in Flushers, FlushBegin(f) PROVE OrderInv'
  BY <1>8 DEF FlushBegin
<1>9. ASSUME NEW f \in Flushers, FlushNotify(f) PROVE OrderInv'
  BY <1>9 DEF FlushNotify, NotifyOne
<1>10. ASSUME NEW f \in Flushers, FlushCheck(f) PROVE OrderInv'
  BY <1>10 DEF FlushCheck
<1>11. ASSUME NEW f \in Flushers, FlushSleep(f) PROVE OrderInv'
  BY <1>11 DEF FlushSleep
<1>12. CASE SpuriousWakeup
  BY <1>12 DEF SpuriousWakeup
<1>13. CASE WorkerTakeBatch
  <2> SUFFICES ASSUME policy # "DropOldest" PROVE OrderInv'
    BY <1>13 DEF WorkerTakeBatch
  <2> DEFINE n == MinNat(Len(queue), BatchCap)
  <2>1. n \in 1..Len(queue)
    BY <1>13, NonEmptySeq DEF WorkerTakeBatch, MinNat
  <2>2. Len(batch) = 0
    BY <1>13 DEF WorkerTakeBatch, BatchInv
  <2>3. Run(queue, nRetired)
    BY <2>2
  <2>4. Run(SubSeq(queue, 1, n), nRetired) /\ Run(SubSeq(queue, n + 1, Len(queue)), nRetired + n)
    BY <2>1, <2>3, RunCut
  <2>5. Len(SubSeq(queue, 1, n)) = n
    BY <2>1, CutSeq
  <2>6. /\ UNCHANGED <<policy, delivered, nRetired>> /\ worker = "lock" /\ worker' = "deliver"
        /\ batch' = SubSeq(queue, 1, n) /\ queue' = SubSeq(queue, n + 1, Len(queue))
    BY <1>13 DEF WorkerTakeBatch
  <2> HIDE DEF n
  <2> QED BY <2>4, <2>5, <2>6
<1>14. CASE WorkerIdle
  BY <1>14 DEF WorkerIdle
<1>15. CASE WorkerSleep
  BY <1>15 DEF WorkerSleep
<1>16. CASE WorkerTimeout
  BY <1>16 DEF WorkerTimeout
<1>17. CASE WorkerDeliver
  <2> SUFFICES ASSUME policy # "DropOldest" PROVE OrderInv'
    BY <1>17 DEF WorkerDeliver
  <2>1. batch # <<>>
    BY <1>17 DEF WorkerDeliver, BatchInv
  <2>2. Len(batch) \in Nat /\ Len(batch) >= 1 /\ Head(batch) = batch[1] /\ Head(batch) \in LogEvent
    BY <2>1, NonEmptySeq
  <2>3. Head(batch).id = nRetired + 1
    BY <2>2 DEF Run
  <2>4. Len(delivered) = nRetired /\ Run(delivered, 0)
    BY <1>17 DEF WorkerDeliver
  <2>5. Run(Append(delivered, Head(batch)), 0) /\ Len(Append(delivered, Head(batch))) = nRetired + 1
    <3>1. delivered \in Seq(LogEvent) /\ Head(batch).id = 0 + Len(delivered) + 1
      BY <2>3, <2>4
    <3>2. Len(Append(delivered, Head(batch))) = Len(delivered) + 1
      BY <2>2, <3>1
    <3>3. Run(Append(delivered, Head(batch)), 0)
      BY <2>2, <2>4, <3>1, RunAppend, Zenon
    <3> QED BY <2>4, <3>2, <3>3
  <2>6. /\ UNCHANGED <<policy, queue, batch, nRetired>> /\ worker' = "retire"
        /\ delivered' = Append(delivered, Head(batch))
    BY <1>17 DEF WorkerDeliver
  <2> QED BY <2>5, <2>6
<1>18. CASE WorkerRetire
  <2> SUFFICES ASSUME policy # "DropOldest" PROVE OrderInv'
    BY <1>18 DEF WorkerRetire
  <2>1. batch # <<>>
    BY <1>18 DEF WorkerRetire, BatchInv
  <2> DEFINE rest == Tail(batch)
  <2>2. Run(rest, nRetired + 1)
    BY <2>1, RunTail
  <2>3. Len(batch) \in Nat /\ Len(rest) = Len(batch) - 1
    BY <2>1, NonEmptySeq
  <2>4. /\ UNCHANGED <<policy, queue, delivered>> /\ nRetired' = nRetired + 1
        /\ worker = "retire" /\ worker' # "retire" /\ batch' = rest
    BY <1>18 DEF WorkerRetire
  <2> HIDE DEF rest
  <2>5. (nRetired + 1) + Len(rest) = nRetired + Len(batch)
    BY <2>3
  <2> QED BY <2>2, <2>4, <2>5
<1>19. CASE WorkerNotifyIdle
  BY <1>19 DEF WorkerNotifyIdle, WokenFlushers
<1>20. CASE WorkerDrain
  <2> SUFFICES ASSUME policy # "DropOldest" PROVE OrderInv'
    BY <1>20 DEF WorkerDrain
  <2>1. Len(batch) = 0
    BY <1>20 DEF WorkerDrain, BatchInv
  <2>2. Run(queue, nRetired)
    BY <2>1
  <2>3. Run(<<>>, nRetired + Len(queue))
    BY DEF Run
  <2>4. /\ UNCHANGED <<policy, delivered, nRetired>> /\ batch' = queue /\ queue' = <<>>
        /\ worker = "drain" /\ worker' # "retire"
    BY <1>20 DEF WorkerDrain
  <2> QED BY <2>2, <2>3, <2>4
<1>21. CASE DestroyRequestStop
  BY <1>21 DEF DestroyRequestStop
<1>22. CASE DestroyNotifyAll
  BY <1>22 DEF DestroyNotifyAll, WokenWorker, WokenProducers
<1>23. CASE DestroyJoin
  BY <1>23 DEF DestroyJoin
<1>24. CASE Terminated
  BY <1>24 DEF Terminated, vars
<1>25. CASE UNCHANGED vars
  BY <1>25 DEF vars
<1>26. ASSUME NEW p \in Producers, EnqueueFails(p) PROVE OrderInv'
  BY <1>26, FailFacts
<1> QED
  BY <1>1, <1>2, <1>3, <1>4, <1>5, <1>6, <1>7, <1>8,
     <1>9, <1>10, <1>11, <1>12, <1>13, <1>14, <1>15, <1>16,
     <1>17, <1>18, <1>19, <1>20, <1>21, <1>22, <1>23, <1>24,
     <1>25, <1>26
  DEF Next, Produce, Flush, Work, Destroy

(* nRetired never decreases, so a flush that returned stays justified.     *)
LEMMA TargetStep == TypeOK /\ TargetInv /\ [Next]_vars => TargetInv'
<1> SUFFICES ASSUME TypeOK, TargetInv, [Next]_vars PROVE TargetInv'
  OBVIOUS
<1> USE AsyncSinkAssumption DEF TypeOK, TargetInv, config, counters, calls, history
<1>1. ASSUME NEW p \in Producers, LogBegin(p) PROVE TargetInv'
  BY <1>1 DEF LogBegin
<1>2. ASSUME NEW p \in Producers, EnqueueRoom(p) PROVE TargetInv'
  BY <1>2 DEF EnqueueRoom
<1>3. ASSUME NEW p \in Producers, EnqueueBlock(p) PROVE TargetInv'
  BY <1>3 DEF EnqueueBlock, Discard
<1>4. ASSUME NEW p \in Producers, EnqueueDropOldest(p) PROVE TargetInv'
  BY <1>4 DEF EnqueueDropOldest
<1>5. ASSUME NEW p \in Producers, EnqueueDropNewest(p) PROVE TargetInv'
  BY <1>5 DEF EnqueueDropNewest, Discard
<1>6. ASSUME NEW p \in Producers, ProducerSleep(p) PROVE TargetInv'
  BY <1>6 DEF ProducerSleep
<1>7. ASSUME NEW p \in Producers, EnqueueNotify(p) PROVE TargetInv'
  BY <1>7 DEF EnqueueNotify, NotifyOne
<1>8. ASSUME NEW f \in Flushers, FlushBegin(f) PROVE TargetInv'
  BY <1>8 DEF FlushBegin
<1>9. ASSUME NEW f \in Flushers, FlushNotify(f) PROVE TargetInv'
  BY <1>9 DEF FlushNotify, NotifyOne
<1>10. ASSUME NEW f \in Flushers, FlushCheck(f) PROVE TargetInv'
  BY <1>10 DEF FlushCheck, Flushed
<1>11. ASSUME NEW f \in Flushers, FlushSleep(f) PROVE TargetInv'
  BY <1>11 DEF FlushSleep
<1>12. CASE SpuriousWakeup
  BY <1>12 DEF SpuriousWakeup
<1>13. CASE WorkerTakeBatch
  BY <1>13 DEF WorkerTakeBatch
<1>14. CASE WorkerIdle
  BY <1>14 DEF WorkerIdle
<1>15. CASE WorkerSleep
  BY <1>15 DEF WorkerSleep
<1>16. CASE WorkerTimeout
  BY <1>16 DEF WorkerTimeout
<1>17. CASE WorkerDeliver
  BY <1>17 DEF WorkerDeliver
<1>18. CASE WorkerRetire
  BY <1>18 DEF WorkerRetire
<1>19. CASE WorkerNotifyIdle
  BY <1>19 DEF WorkerNotifyIdle, WokenFlushers
<1>20. CASE WorkerDrain
  BY <1>20 DEF WorkerDrain
<1>21. CASE DestroyRequestStop
  BY <1>21 DEF DestroyRequestStop
<1>22. CASE DestroyNotifyAll
  BY <1>22 DEF DestroyNotifyAll, WokenWorker, WokenProducers
<1>23. CASE DestroyJoin
  BY <1>23 DEF DestroyJoin
<1>24. CASE Terminated
  BY <1>24 DEF Terminated, vars
<1>25. CASE UNCHANGED vars
  BY <1>25 DEF vars
<1>26. ASSUME NEW p \in Producers, EnqueueFails(p) PROVE TargetInv'
  <2>1. UNCHANGED <<flusher, target, stop>> /\ (nRetired' = nRetired \/ nRetired' = nRetired + 1)
    BY <1>26, FailFacts
  <2> QED BY <2>1
<1> QED
  BY <1>1, <1>2, <1>3, <1>4, <1>5, <1>6, <1>7, <1>8,
     <1>9, <1>10, <1>11, <1>12, <1>13, <1>14, <1>15, <1>16,
     <1>17, <1>18, <1>19, <1>20, <1>21, <1>22, <1>23, <1>24,
     <1>25, <1>26
  DEF Next, Produce, Flush, Work, Destroy

-----------------------------------------------------------------------------
(* Invariants on top of IInv: the order of calls, the records kept, the    *)
(* destructor *)

(* a comes before b among the calls of their thread, if it is the same.    *)
Earlier(a, b) == a.src = b.src => a.n < b.n
InOrder(s) == \A i, j \in 1..Len(s) : i < j => Earlier(s[i], s[j])
AllEarlier(s, t) == \A i \in 1..Len(s), j \in 1..Len(t) : Earlier(s[i], t[j])

(* A record is of a call before the one its thread is about to enqueue.    *)
Begun(r) == /\ r.n <= logged[r.src]
            /\ r.src \in Entering => r.n < logged[r.src]
AllBegun(s) == \A i \in 1..Len(s) : Begun(s[i])

(* From the backend over the batch to the queue, the records of a thread   *)
(* are in the order of its calls.  The head of the batch is among the      *)
(* delivered ones while it waits to be retired.                            *)
CallInv ==
  /\ InOrder(delivered) /\ InOrder(batch) /\ InOrder(queue)
  /\ \A i \in 1..Len(delivered), j \in 1..Len(batch) :
       j > 1 \/ worker # "retire" => Earlier(delivered[i], batch[j])
  /\ AllEarlier(delivered, queue) /\ AllEarlier(batch, queue)
  /\ AllBegun(delivered) /\ AllBegun(batch) /\ AllBegun(queue)

(* Every record that was queued is evicted, delivered or still there.      *)
In(k, s) == \E i \in 1..Len(s) : s[i].id = k
KeptInv ==
  /\ \A k \in 1..nQueued : k \in evicted \/ In(k, delivered) \/ In(k, batch) \/ In(k, queue)
  /\ worker = "retire" => In(Head(batch).id, delivered)

(* How far the destructor and the worker are.                              *)
StopInv ==
  /\ stop <=> owner # "alive"
  /\ worker = "drain" \/ draining => stop
  /\ worker = "done" => draining
  /\ owner = "gone" => worker = "done"

(* What is in the queue after drainQueue() was queued after it.            *)
After(s) == \A i \in 1..Len(s) : s[i].id > drained
LateInv == draining => drained <= nQueued /\ After(queue)

-----------------------------------------------------------------------------
(* The order of calls *)

(* Threads in enqueue(): who they are changes only when a call begins or   *)
(* its record has been dealt with.                                         *)
LEMMA EnteringStep ==
  ASSUME TypeOK,
         \/ \E p \in Producers : ProducerSleep(p) \/ EnqueueNotify(p)
         \/ \E f \in Flushers : FlushBegin(f) \/ Flush(f)
         \/ SpuriousWakeup \/ Work \/ Destroy \/ Terminated
         \/ UNCHANGED vars
  PROVE  /\ Entering' = Entering
         /\ UNCHANGED <<calls, nQueued, nDropped>>
<1> USE DEF TypeOK, Entering, config, counters, calls, history
<1>1. ASSUME NEW p \in Producers, ProducerSleep(p)
      PROVE Entering' = Entering /\ UNCHANGED <<calls, nQueued, nDropped>>
  BY <1>1 DEF ProducerSleep
<1>2. ASSUME NEW p \in Producers, EnqueueNotify(p)
      PROVE Entering' = Entering /\ UNCHANGED <<calls, nQueued, nDropped>>
  BY <1>2 DEF EnqueueNotify, NotifyOne
<1>3. ASSUME NEW f \in Flushers, FlushBegin(f) \/ Flush(f)
      PROVE Entering' = Entering /\ UNCHANGED <<calls, nQueued, nDropped>>
  BY <1>3 DEF FlushBegin, Flush, FlushNotify, FlushCheck, FlushSleep, NotifyOne
<1>4. CASE SpuriousWakeup
  BY <1>4 DEF SpuriousWakeup
<1>5. CASE Work
  BY <1>5 DEF Work, WorkerTakeBatch, WorkerIdle, WorkerSleep, WorkerTimeout, WorkerDeliver,
              WorkerRetire, WorkerNotifyIdle, WorkerDrain, WokenProducers
<1>6. CASE Destroy
  BY <1>6 DEF Destroy, DestroyRequestStop, DestroyNotifyAll, DestroyJoin, WokenProducers
<1>7. CASE Terminated \/ UNCHANGED vars
  BY <1>7 DEF Terminated, vars
<1> QED BY <1>1, <1>2, <1>3, <1>4, <1>5, <1>6, <1>7

(* A record appended to what comes before it keeps the order.              *)
LEMMA OrderAppend ==
  ASSUME NEW s \in Seq(LogEvent), NEW e \in LogEvent, InOrder(s),
         \A i \in 1..Len(s) : Earlier(s[i], e)
  PROVE  InOrder(Append(s, e))
<1> DEFINE t == Append(s, e)
<1>1. /\ Len(s) \in Nat /\ Len(t) = Len(s) + 1 /\ t[Len(s) + 1] = e
      /\ \A i \in 1..Len(s) : t[i] = s[i]
  BY AppendSeq
<1> HIDE DEF t
<1> SUFFICES ASSUME NEW i \in 1..Len(t), NEW j \in 1..Len(t), i < j
             PROVE  Earlier(t[i], t[j])
  BY DEF InOrder, t
<1>2. i \in 1..Len(s) /\ t[i] = s[i]
  BY <1>1
<1>3. CASE j \in 1..Len(s)
  BY <1>1, <1>2, <1>3 DEF InOrder
<1>4. CASE j = Len(s) + 1
  BY <1>1, <1>2, <1>4
<1> QED BY <1>1, <1>3, <1>4

(* So do the records of t that come before it and those of s.              *)
LEMMA AllEarlierAppend ==
  ASSUME NEW s \in Seq(LogEvent), NEW t \in Seq(LogEvent), NEW e \in LogEvent,
         AllEarlier(t, s), \A i \in 1..Len(t) : Earlier(t[i], e)
  PROVE  AllEarlier(t, Append(s, e))
<1>1. /\ Len(s) \in Nat /\ Len(Append(s, e)) = Len(s) + 1 /\ Append(s, e)[Len(s) + 1] = e
      /\ \A i \in 1..Len(s) : Append(s, e)[i] = s[i]
  BY AppendSeq
<1> SUFFICES ASSUME NEW i \in 1..Len(t), NEW j \in 1..Len(s) + 1
             PROVE  Earlier(t[i], Append(s, e)[j])
  BY <1>1 DEF AllEarlier
<1>2. CASE j \in 1..Len(s)
  BY <1>1, <1>2 DEF AllEarlier
<1>3. CASE j = Len(s) + 1
  BY <1>1, <1>3
<1> QED BY <1>1, <1>2, <1>3

(* What holds of a queue holds of what is left without its head.           *)
LEMMA OrderTail ==
  ASSUME NEW s \in Seq(LogEvent), s # <<>>, InOrder(s)
  PROVE  /\ InOrder(Tail(s))
         /\ AllBegun(s) => AllBegun(Tail(s))
         /\ \A t \in Seq(LogEvent) : /\ AllEarlier(t, s) => AllEarlier(t, Tail(s))
                                     /\ AllEarlier(s, t) => AllEarlier(Tail(s), t)
<1> DEFINE u == Tail(s)
<1>1. /\ Len(s) \in Nat /\ Len(u) = Len(s) - 1
      /\ \A i \in 1..Len(s) - 1 : u[i] = s[i + 1]
  BY NonEmptySeq
<1> HIDE DEF u
<1>2. \A i \in 1..Len(u) : i + 1 \in 1..Len(s) /\ u[i] = s[i + 1] /\ i \in Nat
  BY <1>1
<1>3. InOrder(u)
  <2> SUFFICES ASSUME NEW i \in 1..Len(u), NEW j \in 1..Len(u), i < j
               PROVE  Earlier(u[i], u[j])
    BY DEF InOrder
  <2>1. i + 1 < j + 1
    BY <1>2
  <2> QED BY <1>2, <2>1 DEF InOrder
<1>4. AllBegun(s) => AllBegun(u)
  BY <1>2 DEF AllBegun
<1>5. \A t \in Seq(LogEvent) : /\ AllEarlier(t, s) => AllEarlier(t, u)
                               /\ AllEarlier(s, t) => AllEarlier(u, t)
  BY <1>2 DEF AllEarlier
<1> QED BY <1>3, <1>4, <1>5 DEF u

(* A record that is queued comes after all that are there.                 *)
LEMMA PushOrder ==
  ASSUME TypeOK, CallInv, NEW p \in Producers, p \in Entering, NEW q \in Seq(LogEvent),
         InOrder(q), AllBegun(q), AllEarlier(delivered, q), AllEarlier(batch, q),
         UNCHANGED <<delivered, batch, worker, logged>>,
         queue' = Append(q, Event(p)), Entering' = Entering \ {p}
  PROVE  CallInv'
<1> DEFINE e == Event(p)
<1>1. e \in LogEvent /\ e.src = p /\ e.n = logged[p]
  BY DEF Event, LogEvent, TypeOK
<1>2. /\ delivered \in Seq(LogEvent) /\ batch \in Seq(LogEvent) /\ queue \in Seq(LogEvent)
      /\ logged \in [Producers -> Nat]
  BY DEF TypeOK
<1> HIDE DEF e
<1>3. ASSUME NEW s \in Seq(LogEvent), AllBegun(s)
      PROVE  /\ \A i \in 1..Len(s) : Earlier(s[i], e)
             /\ AllBegun(s)'
  <2> SUFFICES ASSUME NEW i \in 1..Len(s) PROVE Earlier(s[i], e) /\ Begun(s[i])'
    BY DEF AllBegun
  <2>1. Begun(s[i])
    BY <1>3 DEF AllBegun
  <2> QED BY <1>1, <2>1 DEF Begun, Earlier
<1>4. InOrder(Append(q, e)) /\ AllEarlier(delivered, Append(q, e)) /\ AllEarlier(batch, Append(q, e))
  BY <1>1, <1>2, <1>3, OrderAppend, AllEarlierAppend DEF CallInv
<1>5. AllBegun(delivered)' /\ AllBegun(batch)'
  BY <1>2, <1>3 DEF CallInv, AllBegun
<1>6. AllBegun(queue)'
  <2>1. /\ Len(q) \in Nat /\ Len(Append(q, e)) = Len(q) + 1 /\ Append(q, e)[Len(q) + 1] = e
        /\ \A i \in 1..Len(q) : Append(q, e)[i] = q[i]
    BY <1>1, AppendSeq
  <2>2. \A r : r = e => Begun(r)'
    BY <1>1, <1>2 DEF Begun
  <2>3. \A i \in 1..Len(q) : Begun(q[i])'
    BY <1>3 DEF AllBegun
  <2>4. queue' = Append(q, e)
    BY DEF e
  <2> QED BY <2>1, <2>2, <2>3, <2>4 DEF AllBegun
<1>7. queue' = Append(q, e)
  BY DEF e
<1>8. InOrder(queue)' /\ AllEarlier(delivered, queue)' /\ AllEarlier(batch, queue)'
  BY <1>4, <1>7
<1> QED BY <1>5, <1>6, <1>8 DEF CallInv

(* Nothing that the worker, an enqueue or a notification does reorders the *)
(* records of a thread.                                                    *)
LEMMA CallStep == TypeOK /\ BatchInv /\ CallInv /\ [Next]_vars => CallInv'
<1> SUFFICES ASSUME TypeOK, BatchInv, CallInv, [Next]_vars PROVE CallInv'
  OBVIOUS
<1>0. /\ queue \in Seq(LogEvent) /\ batch \in Seq(LogEvent) /\ delivered \in Seq(LogEvent)
      /\ logged \in [Producers -> Nat]
      /\ producer \in [Producers -> {"idle", "lock", "gap", "waiting", "notify"}]
  BY DEF TypeOK
<1> USE DEF config, counters, calls, history
<1>1. CASE /\ UNCHANGED <<delivered, batch, queue, logged>> /\ Entering' = Entering
           /\ (worker' = "retire" <=> worker = "retire")
  BY <1>1 DEF CallInv, InOrder, AllEarlier, AllBegun, Begun
<1>2. ASSUME NEW p \in Producers, LogBegin(p) PROVE CallInv'
  <2>1. /\ logged'[p] = logged[p] + 1 /\ \A q \in Producers \ {p} : logged'[q] = logged[q]
        /\ Entering' = Entering \cup {p}
        /\ UNCHANGED <<delivered, batch, queue, worker>>
    BY <1>0, <1>2 DEF LogBegin, Entering
  <2>2. ASSUME NEW r \in LogEvent, Begun(r) PROVE Begun(r)'
    <3>1. r.n \in Nat /\ r.src \in Producers
      BY DEF LogEvent
    <3>2. CASE r.src = p
      BY <1>0, <2>1, <2>2, <3>1, <3>2 DEF Begun
    <3>3. CASE r.src # p
      BY <1>0, <2>1, <2>2, <3>1, <3>3 DEF Begun
    <3> QED BY <3>2, <3>3
  <2>3. AllBegun(delivered)' /\ AllBegun(batch)' /\ AllBegun(queue)'
    BY <1>0, <2>1, <2>2 DEF CallInv, AllBegun
  <2> QED BY <2>1, <2>3 DEF CallInv, InOrder, AllEarlier
<1>3. ASSUME NEW p \in Producers, EnqueueRoom(p) PROVE CallInv'
  <2>1. /\ queue' = Append(queue, Event(p)) /\ p \in Entering /\ Entering' = Entering \ {p}
        /\ UNCHANGED <<delivered, batch, worker, logged>>
    BY <1>0, <1>3 DEF EnqueueRoom, Push, Entering
  <2> QED BY <1>0, <2>1, PushOrder DEF CallInv
<1>4. ASSUME NEW p \in Producers, EnqueueDropOldest(p) PROVE CallInv'
  <2>1. queue # <<>>
    BY <1>4, FullNonEmpty DEF EnqueueDropOldest
  <2>2. /\ queue' = Append(Tail(queue), Event(p)) /\ p \in Entering
        /\ Entering' = Entering \ {p}
        /\ UNCHANGED <<delivered, batch, worker, logged>>
    BY <1>0, <1>4 DEF EnqueueDropOldest, Push, Entering
  <2>3. /\ Tail(queue) \in Seq(LogEvent) /\ InOrder(Tail(queue)) /\ AllBegun(Tail(queue))
        /\ AllEarlier(delivered, Tail(queue)) /\ AllEarlier(batch, Tail(queue))
    BY <1>0, <2>1, OrderTail, NonEmptySeq DEF CallInv
  <2> DEFINE q == Tail(queue)
  <2> HIDE DEF q
  <2> QED BY <1>0, <2>2, <2>3, PushOrder DEF q
<1>5. ASSUME NEW p \in Producers, EnqueueBlock(p) \/ EnqueueDropNewest(p) PROVE CallInv'
  <2>1. /\ UNCHANGED <<delivered, batch, queue, logged, worker>>
        /\ Entering' \subseteq Entering
    BY <1>0, <1>5 DEF EnqueueBlock, EnqueueDropNewest, Discard, Entering
  <2>2. \A r : Begun(r) => Begun(r)'
    BY <2>1 DEF Begun
  <2> QED BY <2>1, <2>2 DEF CallInv, InOrder, AllEarlier, AllBegun
<1>6. CASE WorkerTakeBatch
  <2> DEFINE n == MinNat(Len(queue), BatchCap)
             b == SubSeq(queue, 1, n)
             r == SubSeq(queue, n + 1, Len(queue))
  <2>1. n \in 1..Len(queue) /\ Len(queue) \in Nat /\ n \in Nat
    BY <1>0, <1>6, NonEmptySeq, AsyncSinkAssumption DEF WorkerTakeBatch, MinNat
  <2>2. /\ worker' = "deliver" /\ UNCHANGED <<delivered, logged>>
        /\ batch' = b /\ queue' = r
    BY <1>6 DEF WorkerTakeBatch
  <2>3. Entering' = Entering
    BY <1>6, EnteringStep DEF Work
  <2>4. /\ Len(b) = n /\ Len(r) = Len(queue) - n
        /\ \A i \in 1..n : b[i] = queue[i]
        /\ \A i \in 1..Len(queue) - n : r[i] = queue[n + i]
    BY <1>0, <2>1, CutSeq
  <2> HIDE DEF b, r, n
  <2>5. /\ \A i \in 1..Len(b) : i \in 1..Len(queue) /\ i <= n /\ b[i] = queue[i]
        /\ \A i \in 1..Len(r) : n + i \in 1..Len(queue) /\ n < n + i /\ r[i] = queue[n + i]
    BY <2>1, <2>4
  <2>6. InOrder(b) /\ AllBegun(b) /\ AllEarlier(delivered, b)
    BY <2>5 DEF CallInv, InOrder, AllBegun, AllEarlier
  <2>7. InOrder(r)
    <3> SUFFICES ASSUME NEW i \in 1..Len(r), NEW j \in 1..Len(r), i < j
                 PROVE  Earlier(r[i], r[j])
      BY DEF InOrder
    <3>1. n + i < n + j
      BY <2>1
    <3> QED BY <2>5, <3>1 DEF CallInv, InOrder
  <2>8. AllBegun(r) /\ AllEarlier(delivered, r)
    BY <2>5 DEF CallInv, AllBegun, AllEarlier
  <2>9. AllEarlier(b, r)
    <3> SUFFICES ASSUME NEW i \in 1..Len(b), NEW j \in 1..Len(r)
                 PROVE  Earlier(b[i], r[j])
      BY DEF AllEarlier
    <3>1. i < n + j
      BY <2>1, <2>5
    <3> QED BY <2>5, <3>1 DEF CallInv, InOrder
  <2>10. \A s : AllBegun(s) => AllBegun(s)'
    BY <2>2, <2>3 DEF AllBegun, Begun
  <2> QED BY <2>2, <2>6, <2>7, <2>8, <2>9, <2>10
      DEF CallInv, InOrder, AllEarlier, AllBegun
<1>7. CASE WorkerDeliver
  <2> DEFINE e == Head(batch)
  <2>1. batch # <<>> /\ worker # "retire"
    BY <1>7 DEF WorkerDeliver, BatchInv
  <2>2. Len(batch) \in Nat /\ Len(batch) >= 1 /\ e = batch[1] /\ e \in LogEvent
    BY <1>0, <2>1, NonEmptySeq
  <2>3. /\ delivered' = Append(delivered, e) /\ worker' = "retire"
        /\ UNCHANGED <<batch, queue, logged>>
    BY <1>7 DEF WorkerDeliver
  <2>4. Entering' = Entering
    BY <1>7, EnteringStep DEF Work
  <2> HIDE DEF e
  <2>5. InOrder(Append(delivered, e))
    BY <1>0, <2>1, <2>2, OrderAppend DEF CallInv
  <2> DEFINE t == Append(delivered, e)
  <2>6. /\ Len(delivered) \in Nat /\ Len(t) = Len(delivered) + 1 /\ t[Len(delivered) + 1] = e
        /\ \A i \in 1..Len(delivered) : t[i] = delivered[i]
    BY <1>0, <2>2, AppendSeq
  <2> HIDE DEF t
  <2>7. ASSUME NEW i \in 1..Len(t), NEW j \in 1..Len(batch), j > 1
        PROVE  Earlier(t[i], batch[j])
    <3>1. CASE i \in 1..Len(delivered)
      BY <2>6, <2>7, <3>1 DEF CallInv
    <3>2. CASE i = Len(delivered) + 1
      BY <2>2, <2>6, <2>7, <3>2 DEF CallInv, InOrder
    <3> QED BY <2>6, <3>1, <3>2
  <2>8. ASSUME NEW i \in 1..Len(t)
        PROVE  (\A j \in 1..Len(queue) : Earlier(t[i], queue[j])) /\ Begun(t[i])
    <3>1. CASE i \in 1..Len(delivered)
      BY <2>6, <3>1 DEF CallInv, AllEarlier, AllBegun
    <3>2. CASE i = Len(delivered) + 1
      BY <2>2, <2>6, <3>2 DEF CallInv, AllEarlier, AllBegun
    <3> QED BY <2>6, <3>1, <3>2
  <2>9. \A r : Begun(r) => Begun(r)'
    BY <2>3, <2>4 DEF Begun
  <2>10. delivered' = t
    BY <2>3 DEF t
  <2>11. InOrder(t)
    BY <2>5 DEF t
  <2>12. AllBegun(delivered)' /\ AllEarlier(delivered, queue)' /\ InOrder(delivered)'
    BY <2>3, <2>8, <2>9, <2>10, <2>11 DEF AllBegun, AllEarlier, InOrder
  <2>13. \A i \in 1..Len(delivered'), j \in 1..Len(batch') :
           j > 1 \/ worker' # "retire" => Earlier(delivered'[i], batch'[j])
    BY <2>3, <2>7, <2>10
  <2>14. AllBegun(batch)' /\ AllBegun(queue)' /\ AllEarlier(batch, queue)'
         /\ InOrder(batch)' /\ InOrder(queue)'
    BY <2>3, <2>9 DEF CallInv, AllBegun, AllEarlier, InOrder
  <2> QED BY <2>12, <2>13, <2>14 DEF CallInv
<1>8. CASE WorkerRetire
  <2> DEFINE u == Tail(batch)
  <2>1. batch # <<>>
    BY <1>8 DEF WorkerRetire, BatchInv
  <2>2. /\ Len(batch) \in Nat /\ Len(u) = Len(batch) - 1
        /\ \A i \in 1..Len(batch) - 1 : u[i] = batch[i + 1]
    BY <1>0, <2>1, NonEmptySeq
  <2>3. /\ batch' = u /\ worker' # "retire"
        /\ UNCHANGED <<delivered, queue, logged>>
    BY <1>8 DEF WorkerRetire
  <2>4. Entering' = Entering
    BY <1>8, EnteringStep DEF Work
  <2>5. InOrder(u) /\ AllBegun(u) /\ AllEarlier(u, queue)
    BY <1>0, <2>1, OrderTail DEF CallInv
  <2> HIDE DEF u
  <2>6. ASSUME NEW i \in 1..Len(delivered), NEW j \in 1..Len(u)
        PROVE  Earlier(delivered[i], u[j])
    <3>1. j + 1 \in 1..Len(batch) /\ j + 1 > 1 /\ u[j] = batch[j + 1]
      BY <2>2
    <3> QED BY <3>1 DEF CallInv
  <2>7. \A r : Begun(r) => Begun(r)'
    BY <2>3, <2>4 DEF Begun
  <2> QED BY <2>3, <2>5, <2>6, <2>7 DEF CallInv, AllBegun, AllEarlier, InOrder
<1>9. CASE WorkerDrain
  <2>1. /\ batch' = queue /\ queue' = <<>> /\ worker # "retire" /\ worker' # "retire"
        /\ UNCHANGED <<delivered, logged>>
    BY <1>9 DEF WorkerDrain
  <2>2. Entering' = Entering
    BY <1>9, EnteringStep DEF Work
  <2>3. \A r : Begun(r) => Begun(r)'
    BY <2>1, <2>2 DEF Begun
  <2>4. Len(queue') = 0
    BY <2>1
  <2> QED BY <2>1, <2>3, <2>4 DEF CallInv, AllBegun, AllEarlier, InOrder
<1>10. ASSUME NEW p \in Producers, ProducerSleep(p) PROVE CallInv'
  BY <1>1, <1>10, EnteringStep DEF ProducerSleep
<1>11. ASSUME NEW p \in Producers, EnqueueNotify(p) PROVE CallInv'
  <2>1. /\ UNCHANGED <<delivered, batch, queue>> /\ (worker' = "retire" <=> worker = "retire")
    BY <1>11 DEF EnqueueNotify, NotifyOne
  <2>2. Entering' = Entering /\ UNCHANGED logged
    BY <1>11, EnteringStep
  <2> QED BY <1>1, <2>1, <2>2
<1>12. ASSUME NEW f \in Flushers, FlushBegin(f) \/ Flush(f) PROVE CallInv'
  <2>1. /\ UNCHANGED <<delivered, batch, queue>> /\ (worker' = "retire" <=> worker = "retire")
    BY <1>12 DEF FlushBegin, Flush, FlushNotify, FlushCheck, FlushSleep, NotifyOne
  <2>2. Entering' = Entering /\ UNCHANGED logged
    BY <1>12, EnteringStep
  <2> QED BY <1>1, <2>1, <2>2
<1>13. CASE \/ SpuriousWakeup \/ WorkerIdle \/ WorkerSleep \/ WorkerTimeout
            \/ WorkerNotifyIdle \/ Destroy \/ Terminated \/ UNCHANGED vars
  <2>1. /\ UNCHANGED <<delivered, batch, queue>> /\ (worker' = "retire" <=> worker = "retire")
    BY <1>13 DEF SpuriousWakeup, WorkerIdle, WorkerSleep, WorkerTimeout, WorkerNotifyIdle,
                 Destroy, DestroyRequestStop, DestroyNotifyAll, DestroyJoin, Terminated,
                 WokenWorker, vars
  <2>2. Entering' = Entering /\ UNCHANGED logged
    BY <1>13, EnteringStep DEF Work
  <2> QED BY <1>1, <2>1, <2>2
<1>14. ASSUME NEW p \in Producers, EnqueueFails(p) PROVE CallInv'
  <2>1. UNCHANGED <<delivered, batch, logged, worker>> /\ Entering' \subseteq Entering
    BY <1>0, <1>14, FailFacts DEF Entering
  <2>2. \A r : Begun(r) => Begun(r)'
    BY <2>1 DEF Begun
  <2>3. CASE UNCHANGED queue
    BY <2>1, <2>2, <2>3 DEF CallInv, InOrder, AllEarlier, AllBegun
  <2>4. CASE queue # <<>> /\ queue' = Tail(queue)
    <3> DEFINE q == Tail(queue)
    <3>1. InOrder(q) /\ AllBegun(q) /\ AllEarlier(delivered, q) /\ AllEarlier(batch, q)
      BY <1>0, <2>4, OrderTail DEF CallInv
    <3>2. queue' = q
      BY <2>4
    <3> HIDE DEF q
    <3> QED BY <2>1, <2>2, <3>1, <3>2 DEF CallInv, InOrder, AllEarlier, AllBegun
  <2> QED BY <1>14, <2>3, <2>4, FailFacts
<1> QED BY <1>2, <1>3, <1>4, <1>5, <1>6, <1>7, <1>8, <1>9, <1>10, <1>11, <1>12, <1>13, <1>14
    DEF Next, Produce, Work

(* Records move from the queue over the batch to the backend, and leave    *)
(* only by eviction.                                                       *)
LEMMA KeptStep == TypeOK /\ BatchInv /\ KeptInv /\ [Next]_vars => KeptInv'
<1> SUFFICES ASSUME TypeOK, BatchInv, KeptInv, [Next]_vars PROVE KeptInv'
  OBVIOUS
<1>0. /\ queue \in Seq(LogEvent) /\ batch \in Seq(LogEvent) /\ delivered \in Seq(LogEvent)
      /\ nQueued \in Nat /\ evicted \in SUBSET Nat
  BY DEF TypeOK
<1> USE DEF config, counters, calls, history
<1>1. CASE /\ UNCHANGED <<delivered, batch, queue, nQueued, evicted>>
           /\ (worker' = "retire" <=> worker = "retire")
  BY <1>1 DEF KeptInv, In
<1>2. ASSUME NEW s \in Seq(LogEvent), NEW e \in LogEvent
      PROVE  /\ \A k : In(k, s) => In(k, Append(s, e))
             /\ In(e.id, Append(s, e))
  <2>1. /\ Len(s) \in Nat /\ Len(Append(s, e)) = Len(s) + 1 /\ Append(s, e)[Len(s) + 1] = e
        /\ \A i \in 1..Len(s) : Append(s, e)[i] = s[i]
    BY AppendSeq
  <2>2. \A i \in 1..Len(s) : i \in 1..Len(s) + 1
    BY <2>1
  <2>3. Len(s) + 1 \in 1..Len(s) + 1
    BY <2>1
  <2> QED BY <2>1, <2>2, <2>3 DEF In
<1>3. ASSUME NEW s \in Seq(LogEvent), s # <<>>, NEW k, In(k, s)
      PROVE  k = Head(s).id \/ In(k, Tail(s))
  <2>1. PICK i \in 1..Len(s) : s[i].id = k
    BY <1>3 DEF In
  <2>2. /\ Len(s) \in Nat /\ Head(s) = s[1] /\ Len(Tail(s)) = Len(s) - 1
        /\ \A j \in 1..Len(s) - 1 : Tail(s)[j] = s[j + 1]
    BY <1>3, NonEmptySeq
  <2>3. CASE i = 1
    BY <2>1, <2>2, <2>3
  <2>4. CASE i # 1
    <3>1. i - 1 \in 1..Len(s) - 1 /\ (i - 1) + 1 = i
      BY <2>2, <2>4
    <3>2. Tail(s)[i - 1] = s[i]
      BY <2>2, <3>1
    <3> QED BY <2>1, <2>2, <3>1, <3>2 DEF In
  <2> QED BY <2>3, <2>4
<1>4. ASSUME NEW p \in Producers, NEW q \in Seq(LogEvent), Push(p, q),
             \A k \in 1..nQueued : In(k, queue) => In(k, q) \/ k \in evicted',
             evicted \subseteq evicted', UNCHANGED <<delivered, batch, worker>>
      PROVE  KeptInv'
  <2> DEFINE e == Event(p)
  <2>1. e \in LogEvent /\ e.id = nQueued + 1
    BY DEF Event, LogEvent, TypeOK
  <2>2. queue' = Append(q, e) /\ nQueued' = nQueued + 1
    BY <1>4 DEF Push
  <2> HIDE DEF e
  <2>3. /\ \A k : In(k, q) => In(k, Append(q, e))
        /\ In(nQueued + 1, Append(q, e))
    BY <1>2, <2>1
  <2>4. ASSUME NEW k \in 1..nQueued'
        PROVE  k \in evicted' \/ In(k, delivered) \/ In(k, batch) \/ In(k, queue')
    <3>1. CASE k = nQueued + 1
      BY <2>2, <2>3, <3>1
    <3>2. CASE k # nQueued + 1
      <4>1. k \in 1..nQueued
        BY <1>0, <2>2, <3>2
      <4> QED BY <1>4, <2>2, <2>3, <4>1 DEF KeptInv
    <3> QED BY <3>1, <3>2
  <2> QED BY <1>4, <2>4 DEF KeptInv, In
<1>5. ASSUME NEW p \in Producers, EnqueueRoom(p) PROVE KeptInv'
  BY <1>0, <1>4, <1>5 DEF EnqueueRoom
<1>6. ASSUME NEW p \in Producers, EnqueueDropOldest(p) PROVE KeptInv'
  <2>1. queue # <<>>
    BY <1>6, FullNonEmpty DEF EnqueueDropOldest
  <2> DEFINE q == Tail(queue)
  <2>2. q \in Seq(LogEvent)
    BY <1>0, <2>1, NonEmptySeq
  <2>3. /\ Push(p, q) /\ evicted' = evicted \cup {Head(queue).id}
        /\ UNCHANGED <<delivered, batch, worker>>
    BY <1>6 DEF EnqueueDropOldest
  <2>4. \A k : In(k, queue) => In(k, q) \/ k = Head(queue).id
    BY <1>0, <1>3, <2>1
  <2> HIDE DEF q
  <2> QED BY <1>4, <2>2, <2>3, <2>4
<1>7. ASSUME NEW p \in Producers,
             \/ LogBegin(p) \/ EnqueueBlock(p) \/ EnqueueDropNewest(p) \/ ProducerSleep(p)
             \/ EnqueueNotify(p)
      PROVE  KeptInv'
  BY <1>1, <1>7 DEF LogBegin, EnqueueBlock, EnqueueDropNewest, Discard, ProducerSleep,
                    EnqueueNotify, NotifyOne
<1>8. ASSUME NEW f \in Flushers, FlushBegin(f) \/ Flush(f) PROVE KeptInv'
  BY <1>1, <1>8 DEF FlushBegin, Flush, FlushNotify, FlushCheck, FlushSleep, NotifyOne
<1>9. CASE WorkerTakeBatch
  <2> DEFINE n == MinNat(Len(queue), BatchCap)
             b == SubSeq(queue, 1, n)
             r == SubSeq(queue, n + 1, Len(queue))
  <2>1. n \in 1..Len(queue) /\ Len(queue) \in Nat /\ n \in Nat
    BY <1>0, <1>9, NonEmptySeq, AsyncSinkAssumption DEF WorkerTakeBatch, MinNat
  <2>2. /\ worker' = "deliver" /\ UNCHANGED <<delivered, nQueued, evicted>>
        /\ batch' = b /\ queue' = r /\ batch = <<>>
    BY <1>9 DEF WorkerTakeBatch, BatchInv
  <2>3. /\ Len(b) = n /\ Len(r) = Len(queue) - n
        /\ \A i \in 1..n : b[i] = queue[i]
        /\ \A i \in 1..Len(queue) - n : r[i] = queue[n + i]
    BY <1>0, <2>1, CutSeq
  <2> HIDE DEF b, r, n
  <2>4. ASSUME NEW k, In(k, queue) PROVE In(k, b) \/ In(k, r)
    <3>1. PICK i \in 1..Len(queue) : queue[i].id = k
      BY <2>4 DEF In
    <3>2. CASE i <= n
      <4>1. i \in 1..n
        BY <3>2
      <4> QED BY <2>3, <3>1, <4>1 DEF In
    <3>3. CASE i > n
      <4>1. i - n \in 1..Len(queue) - n /\ n + (i - n) = i
        BY <2>1, <3>3
      <4>2. r[i - n] = queue[i]
        BY <2>3, <4>1
      <4> QED BY <2>3, <3>1, <4>1, <4>2 DEF In
    <3> QED BY <2>1, <3>2, <3>3
  <2>5. \A k : ~In(k, batch)
    BY <2>2 DEF In
  <2> QED BY <2>2, <2>4, <2>5 DEF KeptInv, In
<1>10. CASE WorkerDeliver
  <2> DEFINE e == Head(batch)
  <2>1. e \in LogEvent
    BY <1>0, <1>10, NonEmptySeq DEF WorkerDeliver, BatchInv
  <2>2. /\ delivered' = Append(delivered, e) /\ UNCHANGED <<batch, queue, nQueued, evicted>>
    BY <1>10 DEF WorkerDeliver
  <2>3. /\ \A k : In(k, delivered) => In(k, Append(delivered, e))
        /\ In(e.id, Append(delivered, e))
    BY <1>0, <1>2, <2>1
  <2>4. \A k : In(k, delivered) => In(k, delivered')
    BY <2>2, <2>3
  <2>5. In(Head(batch').id, delivered')
    BY <2>2, <2>3
  <2>6. \A k \in 1..nQueued' : k \in evicted' \/ In(k, delivered') \/ In(k, batch') \/ In(k, queue')
    BY <2>2, <2>4 DEF KeptInv
  <2> QED BY <2>5, <2>6 DEF KeptInv, In
<1>11. CASE WorkerRetire
  <2>1. batch # <<>>
    BY <1>11 DEF WorkerRetire, BatchInv
  <2>2. /\ batch' = Tail(batch) /\ worker = "retire" /\ worker' # "retire"
        /\ UNCHANGED <<delivered, queue, nQueued, evicted>>
    BY <1>11 DEF WorkerRetire
  <2>3. \A k : In(k, batch) => In(k, batch') \/ In(k, delivered)
    BY <1>0, <1>3, <2>1, <2>2 DEF KeptInv
  <2> QED BY <2>2, <2>3 DEF KeptInv, In
<1>12. CASE WorkerDrain
  <2>1. /\ batch' = queue /\ queue' = <<>> /\ batch = <<>> /\ worker' # "retire"
        /\ UNCHANGED <<delivered, nQueued, evicted>>
    BY <1>12 DEF WorkerDrain, BatchInv
  <2>2. \A k : ~In(k, batch)
    BY <2>1 DEF In
  <2> QED BY <2>1, <2>2 DEF KeptInv, In
<1>13. CASE \/ SpuriousWakeup \/ WorkerIdle \/ WorkerSleep \/ WorkerTimeout
            \/ WorkerNotifyIdle \/ Destroy \/ Terminated \/ UNCHANGED vars
  BY <1>1, <1>13 DEF SpuriousWakeup, WorkerIdle, WorkerSleep, WorkerTimeout, WorkerNotifyIdle,
                 Destroy, DestroyRequestStop, DestroyNotifyAll, DestroyJoin, Terminated,
                 WokenWorker, vars
<1>14. ASSUME NEW p \in Producers, EnqueueFails(p) PROVE KeptInv'
  <2>1. UNCHANGED <<delivered, batch, nQueued, worker>>
    BY <1>14, FailFacts
  <2>2. CASE UNCHANGED <<queue, evicted>>
    BY <1>1, <2>1, <2>2
  <2>3. CASE /\ queue # <<>> /\ queue' = Tail(queue)
             /\ evicted' = evicted \cup {Head(queue).id}
    <3>1. \A k : In(k, queue) => In(k, Tail(queue)) \/ k = Head(queue).id
      BY <1>0, <1>3, <2>3
    <3>2. \A k : In(k, queue) => In(k, queue') \/ k \in evicted'
      BY <2>3, <3>1
    <3> QED BY <2>1, <2>3, <3>2 DEF KeptInv, In
  <2> QED BY <1>14, <2>2, <2>3, FailFacts
<1> QED BY <1>5, <1>6, <1>7, <1>8, <1>9, <1>10, <1>11, <1>12, <1>13, <1>14
    DEF Next, Produce, Work

(* The worker leaves its loop for drainQueue(), and the destructor waits.  *)
LEMMA StopStep == TypeOK /\ StopInv /\ [Next]_vars => StopInv'
<1> SUFFICES ASSUME TypeOK, StopInv, [Next]_vars PROVE StopInv'
  OBVIOUS
<1> USE DEF config, counters, calls, history
<1>1. ASSUME NEW p \in Producers, LogBegin(p) PROVE StopInv'
  BY <1>1 DEF LogBegin, StopInv
<1>2. ASSUME NEW p \in Producers, Produce(p) \/ ProducerSleep(p) \/ EnqueueNotify(p)
      PROVE  StopInv'
  <2>1. /\ UNCHANGED <<stop, draining, owner>>
        /\ (worker' = worker \/ (worker = "waiting" /\ worker' = "lock"))
    BY <1>2 DEF Produce, EnqueueRoom, EnqueueBlock, EnqueueDropOldest, EnqueueDropNewest,
                EnqueueFails, ProducerSleep, EnqueueNotify, NotifyOne
  <2> QED BY <2>1 DEF StopInv
<1>3. ASSUME NEW f \in Flushers, FlushBegin(f) \/ Flush(f) PROVE StopInv'
  <2>1. /\ UNCHANGED <<stop, draining, owner>>
        /\ (worker' = worker \/ (worker = "waiting" /\ worker' = "lock"))
    BY <1>3 DEF FlushBegin, Flush, FlushNotify, FlushCheck, FlushSleep, NotifyOne
  <2> QED BY <2>1 DEF StopInv
<1>4. CASE SpuriousWakeup
  BY <1>4 DEF SpuriousWakeup, StopInv
<1>5. CASE WorkerTakeBatch
  BY <1>5 DEF WorkerTakeBatch, StopInv
<1>6. CASE WorkerIdle
  BY <1>6 DEF WorkerIdle, StopInv
<1>7. CASE WorkerSleep \/ WorkerTimeout
  BY <1>7 DEF WorkerSleep, WorkerTimeout, StopInv
<1>8. CASE WorkerDeliver \/ WorkerRetire
  BY <1>8 DEF WorkerDeliver, WorkerRetire, StopInv
<1>9. CASE WorkerNotifyIdle
  BY <1>9 DEF WorkerNotifyIdle, StopInv
<1>10. CASE WorkerDrain
  BY <1>10 DEF WorkerDrain, StopInv
<1>11. CASE DestroyRequestStop
  BY <1>11 DEF DestroyRequestStop, StopInv
<1>12. CASE DestroyNotifyAll
  BY <1>12 DEF DestroyNotifyAll, WokenWorker, StopInv
<1>13. CASE DestroyJoin
  BY <1>13 DEF DestroyJoin, StopInv
<1>14. CASE Terminated \/ UNCHANGED vars
  BY <1>14 DEF Terminated, vars, StopInv
<1> QED BY <1>1, <1>2, <1>3, <1>4, <1>5, <1>6, <1>7, <1>8, <1>9, <1>10, <1>11, <1>12, <1>13,
           <1>14 DEF Next, Work, Destroy

(* drainQueue() takes all there is, and what is queued later has a later   *)
(* number.                                                                 *)
LEMMA LateStep == TypeOK /\ LateInv /\ [Next]_vars => LateInv'
<1> SUFFICES ASSUME TypeOK, LateInv, [Next]_vars PROVE LateInv'
  OBVIOUS
<1>0. queue \in Seq(LogEvent) /\ nQueued \in Nat /\ drained \in Nat
  BY DEF TypeOK
<1> USE DEF config, counters, calls, history
<1>1. CASE UNCHANGED <<draining, drained, nQueued, queue>>
  BY <1>1 DEF LateInv, After
<1>2. ASSUME NEW p \in Producers, NEW q \in Seq(LogEvent), Push(p, q),
             draining => After(q), UNCHANGED <<draining, drained>>
      PROVE  LateInv'
  <2> DEFINE e == Event(p)
             t == Append(q, e)
  <2>1. e \in LogEvent /\ e.id = nQueued + 1
    BY DEF Event, LogEvent, TypeOK
  <2>2. queue' = t /\ nQueued' = nQueued + 1
    BY <1>2 DEF Push
  <2> HIDE DEF e
  <2>3. /\ Len(q) \in Nat /\ Len(t) = Len(q) + 1 /\ t[Len(q) + 1] = e
        /\ \A i \in 1..Len(q) : t[i] = q[i]
    BY <2>1, AppendSeq
  <2> HIDE DEF t
  <2> SUFFICES ASSUME draining PROVE drained <= nQueued' /\ After(queue)'
    BY <1>2 DEF LateInv
  <2>4. drained <= nQueued /\ After(q)
    BY <1>2 DEF LateInv
  <2>5. ASSUME NEW i \in 1..Len(t) PROVE t[i].id > drained
    <3>1. CASE i \in 1..Len(q)
      BY <2>3, <2>4, <3>1 DEF After
    <3>2. CASE i = Len(q) + 1
      BY <1>0, <2>1, <2>3, <2>4, <3>2
    <3> QED BY <2>3, <3>1, <3>2
  <2>6. After(queue)'
    BY <1>2, <2>2, <2>5 DEF After
  <2> QED BY <1>0, <2>2, <2>4, <2>6
<1>3. ASSUME queue # <<>>, draining, NEW q, q = Tail(queue) PROVE After(q)
  <2>1. /\ Len(queue) \in Nat /\ Len(q) = Len(queue) - 1
        /\ \A i \in 1..Len(queue) - 1 : q[i] = queue[i + 1]
    BY <1>0, <1>3, NonEmptySeq
  <2>2. ASSUME NEW i \in 1..Len(q) PROVE q[i].id > drained
    <3>1. i + 1 \in 1..Len(queue) /\ q[i] = queue[i + 1]
      BY <2>1
    <3> QED BY <1>3, <3>1 DEF LateInv, After
  <2> QED BY <2>2 DEF After
<1>4. ASSUME NEW p \in Producers, EnqueueRoom(p) PROVE LateInv'
  <2>1. Push(p, queue) /\ UNCHANGED <<draining, drained>>
    BY <1>4 DEF EnqueueRoom
  <2> QED BY <1>0, <1>2, <2>1 DEF LateInv
<1>5. ASSUME NEW p \in Producers, EnqueueDropOldest(p) PROVE LateInv'
  <2> DEFINE q == Tail(queue)
  <2>1. Push(p, q) /\ UNCHANGED <<draining, drained>> /\ queue # <<>>
    BY <1>5, FullNonEmpty DEF EnqueueDropOldest
  <2>2. q \in Seq(LogEvent) /\ (draining => After(q))
    BY <1>0, <1>3, <2>1, NonEmptySeq
  <2> HIDE DEF q
  <2> QED BY <1>2, <2>1, <2>2
<1>6. ASSUME NEW p \in Producers, EnqueueFails(p) PROVE LateInv'
  <2>1. UNCHANGED <<nQueued, draining, drained>>
    BY <1>6, FailFacts
  <2>2. CASE UNCHANGED queue
    BY <1>1, <2>1, <2>2
  <2>3. CASE queue # <<>> /\ queue' = Tail(queue)
    <3>1. draining => After(queue')
      BY <1>3, <2>3
    <3> QED BY <2>1, <3>1 DEF LateInv, After
  <2> QED BY <1>6, <2>2, <2>3, FailFacts
<1>7. ASSUME NEW p \in Producers,
             \/ LogBegin(p) \/ EnqueueBlock(p) \/ EnqueueDropNewest(p) \/ ProducerSleep(p)
             \/ EnqueueNotify(p)
      PROVE  LateInv'
  BY <1>1, <1>7 DEF LogBegin, EnqueueBlock, EnqueueDropNewest, Discard, ProducerSleep,
                    EnqueueNotify, NotifyOne
<1>8. ASSUME NEW f \in Flushers, FlushBegin(f) \/ Flush(f) PROVE LateInv'
  BY <1>1, <1>8 DEF FlushBegin, Flush, FlushNotify, FlushCheck, FlushSleep, NotifyOne
<1>9. CASE WorkerTakeBatch
  <2> DEFINE n == MinNat(Len(queue), BatchCap)
             r == SubSeq(queue, n + 1, Len(queue))
  <2>1. n \in 1..Len(queue) /\ Len(queue) \in Nat /\ n \in Nat
    BY <1>0, <1>9, NonEmptySeq, AsyncSinkAssumption DEF WorkerTakeBatch, MinNat
  <2>2. queue' = r /\ UNCHANGED <<draining, drained, nQueued>>
    BY <1>9 DEF WorkerTakeBatch
  <2>3. Len(r) = Len(queue) - n /\ \A i \in 1..Len(queue) - n : r[i] = queue[n + i]
    BY <1>0, <2>1, CutSeq
  <2> HIDE DEF r, n
  <2>4. \A i \in 1..Len(r) : n + i \in 1..Len(queue) /\ r[i] = queue[n + i]
    BY <2>1, <2>3
  <2> QED BY <2>2, <2>4 DEF LateInv, After
<1>10. CASE WorkerDrain
  <2>1. queue' = <<>> /\ drained' = nQueued /\ nQueued' = nQueued
    BY <1>10 DEF WorkerDrain
  <2>2. Len(queue') = 0
    BY <2>1
  <2> QED BY <1>0, <2>1, <2>2 DEF LateInv, After
<1>11. CASE \/ SpuriousWakeup \/ WorkerIdle \/ WorkerSleep \/ WorkerTimeout \/ WorkerDeliver
            \/ WorkerRetire \/ WorkerNotifyIdle \/ Destroy \/ Terminated \/ UNCHANGED vars
  BY <1>1, <1>11 DEF SpuriousWakeup, WorkerIdle, WorkerSleep, WorkerTimeout, WorkerDeliver,
                 WorkerRetire, WorkerNotifyIdle, Destroy, DestroyRequestStop,
                 DestroyNotifyAll, DestroyJoin, Terminated, vars
<1> QED BY <1>4, <1>5, <1>6, <1>7, <1>8, <1>9, <1>10, <1>11 DEF Next, Produce, Work

-----------------------------------------------------------------------------
(* No message is lost from the statistics *)

(* The producers in enqueue() can be counted, one by one.                  *)
LEMMA EnteringCard ==
  ASSUME TypeOK
  PROVE  /\ IsFiniteSet(Entering) /\ Cardinality(Entering) \in Nat
         /\ \A p \in Producers \ Entering :
              Cardinality(Entering \cup {p}) = Cardinality(Entering) + 1
         /\ \A p \in Entering : Cardinality(Entering \ {p}) = Cardinality(Entering) - 1
<1>1. IsFiniteSet(Entering) /\ Cardinality(Entering) \in Nat
  BY AsyncSinkAssumption, FS_Subset, FS_CardinalityType DEF Entering
<1>2. ASSUME NEW p \in Producers \ Entering
      PROVE  Cardinality(Entering \cup {p}) = Cardinality(Entering) + 1
  BY <1>1, FS_AddElement
<1>3. ASSUME NEW p \in Entering
      PROVE  Cardinality(Entering \ {p}) = Cardinality(Entering) - 1
  BY <1>1, FS_RemoveElement
<1> QED BY <1>1, <1>2, <1>3

(* A call of log() that comes in, is queued, is discarded or is delivered  *)
(* moves from one term of the sum to another.                              *)
LEMMA LossStep == TypeOK /\ BatchInv /\ NoSilentLoss /\ [Next]_vars => NoSilentLoss'
<1> SUFFICES ASSUME TypeOK, BatchInv, NoSilentLoss, [Next]_vars PROVE NoSilentLoss'
  OBVIOUS
<1>0. /\ queue \in Seq(LogEvent) /\ batch \in Seq(LogEvent)
      /\ Len(queue) \in Nat /\ Len(batch) \in Nat
      /\ nLogged \in Nat /\ nProcessed \in Nat /\ nDropped \in Nat /\ nFailed \in Nat
      /\ producer \in [Producers -> {"idle", "lock", "gap", "waiting", "notify"}]
  BY LenSeq DEF TypeOK
<1> DEFINE inside == Cardinality(Entering)
           held == IF worker = "retire" THEN 1 ELSE 0
<1>1. inside \in Nat
  BY EnteringCard
<1>2. nLogged = nProcessed + nDropped + Len(queue) + (Len(batch) - held) + inside + nFailed
  BY DEF NoSilentLoss, Pending
<1>3. SUFFICES nLogged' = nProcessed' + nDropped' + Len(queue') + (Len(batch') - held') + inside' + nFailed'
  BY DEF NoSilentLoss, Pending
<1> USE DEF config, counters, calls, history
<1>4. CASE /\ UNCHANGED <<nLogged, nFailed, nProcessed, nDropped, queue, batch>>
           /\ (worker' = "retire" <=> worker = "retire") /\ Entering' = Entering
  BY <1>2, <1>4
<1>5. ASSUME NEW p \in Producers, LogBegin(p)
      PROVE  nLogged' = nProcessed' + nDropped' + Len(queue') + (Len(batch') - held') + inside' + nFailed'
  <2>1. /\ nLogged' = nLogged + 1 /\ p \notin Entering /\ Entering' = Entering \cup {p}
        /\ UNCHANGED <<nFailed, nProcessed, nDropped, queue, batch, worker>>
    BY <1>0, <1>5 DEF LogBegin, Entering
  <2>2. inside' = inside + 1
    BY <2>1, EnteringCard
  <2> HIDE DEF inside
  <2> QED BY <1>0, <1>1, <1>2, <2>1, <2>2
<1>6. ASSUME NEW p \in Producers, EnqueueRoom(p)
      PROVE  nLogged' = nProcessed' + nDropped' + Len(queue') + (Len(batch') - held') + inside' + nFailed'
  <2>1. /\ p \in Entering /\ Entering' = Entering \ {p}
        /\ queue' = Append(queue, Event(p))
        /\ UNCHANGED <<nLogged, nFailed, nProcessed, nDropped, batch, worker>>
    BY <1>0, <1>6 DEF EnqueueRoom, Push, Entering
  <2>2. Event(p) \in LogEvent
    BY DEF Event, LogEvent, TypeOK
  <2>3. inside' = inside - 1 /\ Len(queue') = Len(queue) + 1
    BY <1>0, <2>1, <2>2, EnteringCard, AppendSeq
  <2> HIDE DEF inside
  <2> QED BY <1>0, <1>1, <1>2, <2>1, <2>3
<1>7. ASSUME NEW p \in Producers, Discard(p), producer[p] = "lock",
             UNCHANGED <<batch, nProcessed, worker, calls>>
      PROVE  nLogged' = nProcessed' + nDropped' + Len(queue') + (Len(batch') - held') + inside' + nFailed'
  <2>1. /\ p \in Entering /\ Entering' = Entering \ {p}
        /\ nDropped' = nDropped + 1
        /\ UNCHANGED <<nLogged, nFailed, nProcessed, queue, batch, worker>>
    BY <1>0, <1>7 DEF Discard, Entering
  <2>2. inside' = inside - 1
    BY <2>1, EnteringCard
  <2> HIDE DEF inside
  <2> QED BY <1>0, <1>1, <1>2, <2>1, <2>2
<1>8. ASSUME NEW p \in Producers, EnqueueDropNewest(p)
      PROVE  nLogged' = nProcessed' + nDropped' + Len(queue') + (Len(batch') - held') + inside' + nFailed'
  BY <1>7, <1>8 DEF EnqueueDropNewest
<1>9. ASSUME NEW p \in Producers, EnqueueBlock(p)
      PROVE  nLogged' = nProcessed' + nDropped' + Len(queue') + (Len(batch') - held') + inside' + nFailed'
  <2>1. CASE producer' = [producer EXCEPT ![p] = "gap"] /\ UNCHANGED <<queue, nQueued, nDropped>>
    <3>1. UNCHANGED <<nLogged, nFailed, nProcessed, nDropped, queue, batch, worker>> /\ Entering' = Entering
      BY <1>0, <1>9, <2>1 DEF EnqueueBlock, Entering
    <3> QED BY <1>4, <3>1
  <2>2. CASE Discard(p)
    BY <1>7, <1>9, <2>2 DEF EnqueueBlock
  <2> QED BY <1>9, <2>1, <2>2 DEF EnqueueBlock
<1>10. ASSUME NEW p \in Producers, EnqueueDropOldest(p)
       PROVE  nLogged' = nProcessed' + nDropped' + Len(queue') + (Len(batch') - held') + inside' + nFailed'
  <2>1. /\ p \in Entering /\ Entering' = Entering \ {p}
        /\ queue' = Append(Tail(queue), Event(p)) /\ nDropped' = nDropped + 1
        /\ UNCHANGED <<nLogged, nFailed, nProcessed, batch, worker>>
    BY <1>0, <1>10 DEF EnqueueDropOldest, Push, Entering
  <2>2. Event(p) \in LogEvent
    BY DEF Event, LogEvent, TypeOK
  <2>3. Len(queue) >= 1
    BY <1>10, FullNonEmpty DEF EnqueueDropOldest
  <2>4. Tail(queue) \in Seq(LogEvent) /\ Len(Tail(queue)) = Len(queue) - 1
    BY <1>0, <2>3, NonEmptySeq
  <2>5. Len(queue') = Len(queue)
    BY <1>0, <2>1, <2>2, <2>4, AppendSeq
  <2>6. inside' = inside - 1
    BY <2>1, EnteringCard
  <2>7. nDropped' = nDropped + 1 /\ UNCHANGED <<nLogged, nFailed, nProcessed>>
    BY <2>1
  <2>8. Len(batch') = Len(batch) /\ held' = held /\ held \in Int
    BY <2>1
  <2> HIDE DEF inside, held
  <2> QED BY <1>0, <1>1, <1>2, <2>5, <2>6, <2>7, <2>8
<1>11. CASE WorkerTakeBatch
  <2> DEFINE n == MinNat(Len(queue), BatchCap)
  <2>1. n \in 1..Len(queue)
    BY <1>0, <1>11, NonEmptySeq, AsyncSinkAssumption DEF WorkerTakeBatch, MinNat
  <2>2. Len(batch') = n /\ Len(queue') = Len(queue) - n
    BY <1>0, <1>11, <2>1, CutSeq DEF WorkerTakeBatch
  <2>3. /\ Len(batch) = 0 /\ worker # "retire" /\ worker' # "retire"
        /\ UNCHANGED <<nLogged, nFailed, nProcessed, nDropped>>
    BY <1>11 DEF WorkerTakeBatch, BatchInv
  <2>4. Entering' = Entering
    BY <1>11, EnteringStep DEF Work
  <2> HIDE DEF n
  <2> QED BY <1>0, <1>1, <1>2, <2>1, <2>2, <2>3, <2>4
<1>12. CASE WorkerDeliver
  <2>1. /\ worker # "retire" /\ worker' = "retire" /\ nProcessed' = nProcessed + 1
        /\ UNCHANGED <<nLogged, nFailed, nDropped, queue, batch>>
    BY <1>12 DEF WorkerDeliver
  <2>2. Entering' = Entering
    BY <1>12, EnteringStep DEF Work
  <2> HIDE DEF inside
  <2>3. inside' = inside
    BY <2>2 DEF inside
  <2> QED BY <1>0, <1>1, <1>2, <2>1, <2>3
<1>13. CASE WorkerRetire
  <2>1. /\ worker = "retire" /\ worker' # "retire" /\ batch' = Tail(batch) /\ batch # <<>>
        /\ UNCHANGED <<nLogged, nFailed, nProcessed, nDropped, queue>>
    BY <1>13 DEF WorkerRetire, BatchInv
  <2>2. Entering' = Entering
    BY <1>13, EnteringStep DEF Work
  <2>3. Len(batch') = Len(batch) - 1
    BY <1>0, <2>1, NonEmptySeq
  <2> HIDE DEF inside
  <2>4. inside' = inside
    BY <2>2 DEF inside
  <2> QED BY <1>0, <1>1, <1>2, <2>1, <2>3, <2>4
<1>14. CASE WorkerDrain
  <2>1. /\ batch' = queue /\ queue' = <<>> /\ batch = <<>>
        /\ worker # "retire" /\ worker' # "retire"
        /\ UNCHANGED <<nLogged, nFailed, nProcessed, nDropped>>
    BY <1>14 DEF WorkerDrain, BatchInv
  <2>2. Entering' = Entering
    BY <1>14, EnteringStep DEF Work
  <2>3. Len(queue') = 0 /\ Len(batch) = 0
    BY <2>1
  <2> QED BY <1>0, <1>1, <1>2, <2>1, <2>2, <2>3
<1>15. ASSUME NEW p \in Producers, ProducerSleep(p) \/ EnqueueNotify(p)
       PROVE  /\ UNCHANGED <<nLogged, nFailed, nProcessed, nDropped, queue, batch>>
              /\ (worker' = "retire" <=> worker = "retire") /\ Entering' = Entering
  <2>1. Entering' = Entering
    BY <1>15, EnteringStep
  <2> QED BY <1>15, <2>1 DEF ProducerSleep, EnqueueNotify, NotifyOne
<1>16. ASSUME NEW f \in Flushers, FlushBegin(f) \/ Flush(f)
       PROVE  /\ UNCHANGED <<nLogged, nFailed, nProcessed, nDropped, queue, batch>>
              /\ (worker' = "retire" <=> worker = "retire") /\ Entering' = Entering
  <2>1. Entering' = Entering
    BY <1>16, EnteringStep
  <2> QED BY <1>16, <2>1 DEF FlushBegin, Flush, FlushNotify, FlushCheck, FlushSleep, NotifyOne
<1>17. CASE \/ SpuriousWakeup \/ WorkerIdle \/ WorkerSleep \/ WorkerTimeout
            \/ WorkerNotifyIdle \/ Destroy \/ Terminated \/ UNCHANGED vars
  <2>1. Entering' = Entering
    BY <1>17, EnteringStep DEF Work
  <2>2. /\ UNCHANGED <<nLogged, nFailed, nProcessed, nDropped, queue, batch>>
        /\ (worker' = "retire" <=> worker = "retire")
    BY <1>17 DEF SpuriousWakeup, WorkerIdle, WorkerSleep, WorkerTimeout, WorkerNotifyIdle,
                 Destroy, DestroyRequestStop, DestroyNotifyAll, DestroyJoin, Terminated,
                 WokenWorker, vars
  <2> QED BY <1>4, <2>1, <2>2
<1>18. ASSUME NEW p \in Producers, EnqueueFails(p)
       PROVE  nLogged' = nProcessed' + nDropped' + Len(queue') + (Len(batch') - held') + inside' + nFailed'
  <2>1. /\ p \in Entering /\ Entering' = Entering \ {p} /\ nFailed' = nFailed + 1
        /\ UNCHANGED <<nLogged, nProcessed, batch, worker>>
    BY <1>0, <1>18, FailFacts DEF Entering
  <2>2. inside' = inside - 1
    BY <2>1, EnteringCard
  <2>3. /\ nFailed' = nFailed + 1 /\ UNCHANGED <<nLogged, nProcessed>>
        /\ Len(batch') = Len(batch) /\ held' = held /\ held \in Int
    BY <2>1
  <2>4. \/ Len(queue') = Len(queue) /\ nDropped' = nDropped
        \/ Len(queue') = Len(queue) - 1 /\ nDropped' = nDropped + 1
    BY <1>18, FailFacts
  <2> HIDE DEF inside, held
  <2>5. Len(queue) \in Nat /\ Len(batch) \in Nat /\ nProcessed \in Nat /\ nDropped \in Nat /\ nFailed \in Nat
    BY <1>0
  <2>6. CASE Len(queue') = Len(queue) /\ nDropped' = nDropped
    BY ONLY <1>1, <1>2, <2>2, <2>3, <2>5, <2>6
  <2>7. CASE Len(queue') = Len(queue) - 1 /\ nDropped' = nDropped + 1
    BY ONLY <1>1, <1>2, <2>2, <2>3, <2>5, <2>7
  <2> QED BY <2>4, <2>6, <2>7
<1> QED BY <1>4, <1>5, <1>6, <1>8, <1>9, <1>10, <1>11, <1>12, <1>13, <1>14, <1>15, <1>16,
           <1>17, <1>18 DEF Next, Produce, Work

(* The sink starts with nothing in it.                                     *)
LEMMA InitMore == Init => CallInv /\ KeptInv /\ StopInv /\ LateInv /\ NoSilentLoss
<1> SUFFICES ASSUME Init PROVE CallInv /\ KeptInv /\ StopInv /\ LateInv /\ NoSilentLoss
  OBVIOUS
<1> USE DEF Init
<1>1. CallInv
  BY DEF CallInv, InOrder, AllEarlier, AllBegun
<1>2. KeptInv
  BY DEF KeptInv
<1>3. StopInv
  BY DEF StopInv
<1>6. LateInv
  BY DEF LateInv
<1>4. Entering = {}
  BY DEF Entering
<1>5. NoSilentLoss
  BY <1>4, FS_EmptySet DEF NoSilentLoss, Pending
<1> QED BY <1>1, <1>2, <1>3, <1>5, <1>6

-----------------------------------------------------------------------------
(* Theorems *)

(* IInv holds in every reachable state of the sink.                        *)
THEOREM Invariance == Spec => []IInv
<1>1. IInv /\ [Next]_vars => IInv'
  BY TypeStep, BatchStep, CountStep, OrderStep, TargetStep DEF IInv, CountInv
<1> QED BY InitIInv, <1>1, PTL DEF Spec

(* Type correctness of the sink.                                           *)
THEOREM TypeCorrect == Spec => []TypeOK
<1>1. IInv => TypeOK
  BY DEF IInv
<1> QED BY Invariance, <1>1, PTL

(* The retire counter that flushNow() waits on never misses or repeats a   *)
(* record, whichever thread retires it.                                    *)
THEOREM RetireAccountingHolds == Spec => []RetireAccounting
<1>1. IInv => RetireAccounting
  BY DEF IInv
<1> QED BY Invariance, <1>1, PTL

(* No interleaving of producers fills the queue beyond its capacity.       *)
THEOREM CapacityHolds == Spec => []Capacity
<1>1. IInv => Capacity
  BY DEF IInv
<1> QED BY Invariance, <1>1, PTL

(* flushNow() returns only after everything queued before it was handed    *)
(* to the backend, unless records are evicted or the sink is stopping.     *)
THEOREM FlushCorrect == Spec => []FlushDeliversUnlessEvicting
<1>1. IInv => FlushDeliversUnlessEvicting
  <2> SUFFICES ASSUME IInv, policy # "DropOldest",
                      NEW f \in Flushers, flusher[f] = "returned", ~stop,
                      NEW k \in 1..target[f]
               PROVE  \E i \in DOMAIN delivered : delivered[i].id = k
    BY DEF FlushDeliversUnlessEvicting, FlushDelivers
  <2>1. nRetired >= target[f] /\ target[f] \in Nat /\ nRetired \in Nat
    BY DEF IInv, TypeOK, TargetInv
  <2>2. Len(delivered) >= nRetired /\ \A i \in 1..Len(delivered) : delivered[i].id = i
    BY <2>1 DEF IInv, OrderInv, Run
  <2>3. DOMAIN delivered = 1..Len(delivered) /\ Len(delivered) \in Nat
    BY DEF IInv, TypeOK
  <2>4. k \in DOMAIN delivered /\ delivered[k].id = k
    BY <2>1, <2>2, <2>3
  <2> QED BY <2>4
<1> QED BY Invariance, <1>1, PTL

(* The five further invariants hold in every reachable state, too.         *)
THEOREM MoreInvariance == Spec => [](CallInv /\ KeptInv /\ StopInv /\ LateInv /\ NoSilentLoss)
<1> DEFINE More == CallInv /\ KeptInv /\ StopInv /\ LateInv /\ NoSilentLoss
<1>1. IInv /\ More /\ [Next]_vars => More'
  BY CallStep, KeptStep, StopStep, LateStep, LossStep DEF IInv
<1>2. Init => More
  BY InitMore
<1> HIDE DEF More
<1>3. Spec => []More
  BY Invariance, <1>1, <1>2, PTL DEF Spec
<1> QED BY <1>3 DEF More

(* Every log() call is counted once, on its way in, queued, processed or   *)
(* dropped, but for those that ran out of memory.                          *)
THEOREM NoMessageIsLost == Spec => []NoSilentLoss
<1>1. CallInv /\ KeptInv /\ StopInv /\ LateInv /\ NoSilentLoss => NoSilentLoss
  OBVIOUS
<1> QED BY MoreInvariance, <1>1, PTL

(* The messages of a thread reach the backend in the order of its calls,   *)
(* under every overflow policy.                                            *)
THEOREM ThreadsKeepTheirOrder == Spec => []CallOrder
<1>1. IInv /\ CallInv => CallOrder
  <2> SUFFICES ASSUME IInv, CallInv, NEW i \in DOMAIN delivered, NEW j \in DOMAIN delivered,
                      i < j, delivered[i].src = delivered[j].src
               PROVE  delivered[i].n < delivered[j].n
    BY DEF CallOrder
  <2>1. DOMAIN delivered = 1..Len(delivered)
    BY DEF IInv, TypeOK
  <2> QED BY <2>1 DEF CallInv, InOrder, Earlier
<1> QED BY Invariance, MoreInvariance, <1>1, PTL

(* The destructor returns with every record delivered or evicted, but for  *)
(* those queued after drainQueue().                                        *)
THEOREM ShutdownIsComplete == Spec => []ShutdownDelivers
<1>1. IInv /\ KeptInv /\ StopInv /\ LateInv => ShutdownDelivers
  <2> SUFFICES ASSUME IInv, KeptInv, StopInv, LateInv, owner = "gone",
                      NEW k \in 1..drained, k \notin evicted
               PROVE  \E i \in DOMAIN delivered : delivered[i].id = k
    BY DEF ShutdownDelivers, StopInv
  <2>1. worker = "done" /\ draining
    BY DEF StopInv
  <2>2. batch = <<>>
    BY <2>1 DEF IInv, BatchInv
  <2>3. nQueued \in Nat /\ drained \in Nat
    BY DEF IInv, TypeOK
  <2>4. drained <= nQueued /\ After(queue)
    BY <2>1 DEF LateInv
  <2>5. k \in 1..nQueued /\ k \in Nat /\ k <= drained
    BY <2>3, <2>4
  <2>6. ~In(k, queue)
    <3> SUFFICES ASSUME NEW i \in 1..Len(queue), queue[i].id = k PROVE FALSE
      BY DEF In
    <3>1. k > drained
      BY <2>4 DEF After
    <3> QED BY <2>3, <2>5, <3>1
  <2>7. ~In(k, batch)
    BY <2>2 DEF In
  <2>8. In(k, delivered)
    BY <2>5, <2>6, <2>7 DEF KeptInv
  <2>9. DOMAIN delivered = 1..Len(delivered)
    BY DEF IInv, TypeOK
  <2> QED BY <2>8, <2>9 DEF In
<1> QED BY Invariance, MoreInvariance, <1>1, PTL
=============================================================================
