------------------------------ MODULE AsyncSink ------------------------------
(***************************************************************************)
(* AsyncSink (hal/core/logger/async_sink.h): log() places a record in a    *)
(* bounded queue and a worker thread hands the records to a synchronous    *)
(* backend.                                                                *)
(*                                                                         *)
(* Threads: the worker, the callers of log() (Producers), the callers of   *)
(* flushNow() (Flushers) and the thread that runs the destructor (owner).  *)
(*                                                                         *)
(* queueMutex.  A critical section is one atomic step, except where it     *)
(* ends in a condition-variable wait: between the evaluation of the wait's *)
(* predicate and the start of the wait the thread is in "gap", still       *)
(* holding the mutex, and a notification sent by a thread that does not    *)
(* hold the mutex (the destructor, notify_one after unlock) is lost on it. *)
(* A thread in "gap" is therefore the only representation of a held mutex. *)
(*                                                                         *)
(* queueCv is shared by the worker and by producers blocked in the Block   *)
(* policy, so notify_one may wake either.                                  *)
(***************************************************************************)
EXTENDS Integers, Sequences, FiniteSets

CONSTANTS
  Producers,          \* threads that call log()
  Flushers,           \* threads that call flushNow()
  Configurations,     \* the arguments the sink may be built with
  BatchCap,           \* K_BATCH_CAP
  MaxLogs             \* bound: log() calls of each producer

OverflowPolicy == {"Block", "DropOldest", "DropNewest"}

ASSUME AsyncSinkAssumption ==
  /\ Configurations \subseteq [overflowPolicy : OverflowPolicy,
                               maxQueueSize : Nat \ {0}]   \* 0 throws
  /\ BatchCap \in Nat \ {0}
  /\ MaxLogs \in [Producers -> Nat]
  /\ IsFiniteSet(Producers)

VARIABLES
  policy,      \* mOverflowPolicy, fixed at construction
  mMaxQueueSize,   \* fixed at construction
  queue,       \* queue: records waiting for the worker
  batch,       \* worker's local batch / remaining, head = record in progress
  nQueued, nRetired, nProcessed, nDropped,   \* the four counters
  stop,        \* the jthread's stop_requested()
  worker,      \* program counter of the worker thread
  draining,    \* the worker has left its loop and runs drainQueue()
  producer,    \* program counter of each producer
  logged,      \* number of log() calls each producer has begun
  nLogged,     \* history: number of log() calls begun
  nFailed,     \* history: number of log() calls that ran out of memory
  flusher,     \* program counter of each flusher
  target,      \* flushNow()'s snapshot of nQueued
  owner,       \* progress of the destructor
  drained,     \* history: nQueued when drainQueue() took the queue
  delivered,   \* history: records handed to the backend, in order
  evicted      \* history: ids of queued records evicted by DropOldest

config   == <<policy, mMaxQueueSize>>
counters == <<nQueued, nRetired, nProcessed, nDropped>>
calls    == <<logged, nLogged, nFailed>>
history  == <<delivered, evicted>>
vars == <<config, drained, queue, batch, counters, stop, worker, draining,
          producer, calls, flusher, target, owner, history>>

(* A queued LogEvent: its author, its number among the author's log()      *)
(* calls, and the number of the enqueue that queued it.                    *)
LogEvent == [src : Producers, n : Nat, id : Nat]

TypeOK ==
  /\ policy \in OverflowPolicy /\ mMaxQueueSize \in Nat \ {0}
  /\ queue \in Seq(LogEvent)
  /\ batch \in Seq(LogEvent)
  /\ nQueued \in Nat /\ nRetired \in Nat /\ nProcessed \in Nat /\ nDropped \in Nat
  /\ stop \in BOOLEAN /\ drained \in Nat
  /\ worker \in {"lock", "gap", "waiting", "deliver", "retire", "notify",
                 "drain", "done"}
  /\ draining \in BOOLEAN
  /\ producer \in [Producers -> {"idle", "lock", "gap", "waiting", "notify"}]
  /\ logged \in [Producers -> Nat] /\ nLogged \in Nat /\ nFailed \in Nat
  /\ flusher \in [Flushers -> {"idle", "notify", "lock", "gap", "waiting",
                               "returned"}]
  /\ target \in [Flushers -> Nat]
  /\ owner \in {"alive", "notify", "join", "gone"}
  /\ delivered \in Seq(LogEvent)
  /\ evicted \in SUBSET Nat

Init ==
  /\ \E c \in Configurations :
       policy = c.overflowPolicy /\ mMaxQueueSize = c.maxQueueSize
  /\ queue = <<>> /\ batch = <<>>
  /\ nQueued = 0 /\ nRetired = 0 /\ nProcessed = 0 /\ nDropped = 0
  /\ stop = FALSE /\ drained = 0
  /\ worker = "lock" /\ draining = FALSE
  /\ producer = [p \in Producers |-> "idle"]
  /\ logged = [p \in Producers |-> 0] /\ nLogged = 0 /\ nFailed = 0
  /\ flusher = [f \in Flushers |-> "idle"]
  /\ target = [f \in Flushers |-> 0]
  /\ owner = "alive"
  /\ delivered = <<>> /\ evicted = {}

-----------------------------------------------------------------------------
(* Mutex and condition variables *)

MutexFree ==
  /\ worker # "gap"
  /\ \A p \in Producers : producer[p] # "gap"
  /\ \A f \in Flushers : flusher[f] # "gap"

(* notify_all wakes every waiter; a woken thread has to take the mutex.    *)
WokenWorker == IF worker = "waiting" THEN "lock" ELSE worker
WokenProducers ==
  [p \in Producers |-> IF producer[p] = "waiting" THEN "lock" ELSE producer[p]]
WokenFlushers ==
  [f \in Flushers |-> IF flusher[f] = "waiting" THEN "lock" ELSE flusher[f]]

NoQueueCvWaiter ==
  worker # "waiting" /\ \A p \in Producers : producer[p] # "waiting"

(* queueCv.notify_one() with ppc the producers' program counters otherwise *)
(* reached by the step: one waiter, if there is one, of any kind.          *)
NotifyOne(ppc) ==
  \/ /\ NoQueueCvWaiter
     /\ producer' = ppc
     /\ UNCHANGED worker
  \/ /\ worker = "waiting"
     /\ worker' = "lock"
     /\ producer' = ppc
  \/ \E q \in Producers :
       /\ producer[q] = "waiting"
       /\ producer' = [ppc EXCEPT ![q] = "lock"]
       /\ UNCHANGED worker

-----------------------------------------------------------------------------
(* log() *)

LogsLeft(p) == logged[p] < MaxLogs[p]

(* log() is entered: the record is built, the mutex is asked for.          *)
LogBegin(p) ==
  /\ owner = "alive"
  /\ producer[p] = "idle"
  /\ LogsLeft(p)
  /\ logged' = [logged EXCEPT ![p] = @ + 1] /\ nLogged' = nLogged + 1
  /\ producer' = [producer EXCEPT ![p] = "lock"]
  /\ UNCHANGED <<config, drained, queue, batch, counters, stop, worker,
                 draining, nFailed, flusher, target, owner, history>>

Event(p) == [src |-> p, n |-> logged[p], id |-> nQueued + 1]

Push(p, q) ==
  /\ queue' = Append(q, Event(p))
  /\ nQueued' = nQueued + 1
  /\ producer' = [producer EXCEPT ![p] = "notify"]

Discard(p) ==
  /\ nDropped' = nDropped + 1
  /\ producer' = [producer EXCEPT ![p] = "idle"]
  /\ UNCHANGED <<queue, nQueued>>

(* Mutant: the capacity test is off by one.                                *)
FullMutant == Len(queue) > mMaxQueueSize

Full == Len(queue) >= mMaxQueueSize

(* enqueue() with room in the queue.                                       *)
EnqueueRoom(p) ==
  /\ producer[p] = "lock" /\ MutexFree
  /\ ~Full
  /\ Push(p, queue)
  /\ UNCHANGED <<config, drained, batch, nRetired, nProcessed, nDropped,
                 stop, worker, draining, calls, flusher, target, owner,
                 history>>

(* handleOverflow(), Block: wait for room; a stop request discards.        *)
EnqueueBlock(p) ==
  /\ producer[p] = "lock" /\ MutexFree
  /\ Full /\ policy = "Block"
  /\ \/ /\ ~stop
        /\ producer' = [producer EXCEPT ![p] = "gap"]
        /\ UNCHANGED <<queue, nQueued, nDropped>>
     \/ /\ stop
        /\ Discard(p)
  /\ UNCHANGED <<config, drained, batch, nRetired, nProcessed, stop,
                 worker, draining, calls, flusher, target, owner, history>>

(* Mutant: an evicted record is not retired.                               *)
EnqueueDropOldestMutant(p) ==
  /\ producer[p] = "lock" /\ MutexFree
  /\ Full /\ policy = "DropOldest"
  /\ Push(p, Tail(queue))
  /\ nDropped' = nDropped + 1
  /\ evicted' = evicted \cup {Head(queue).id}
  /\ UNCHANGED <<config, drained, batch, nRetired, nProcessed, stop,
                 worker, draining, calls, flusher, target, owner, delivered>>

(* handleOverflow(), DropOldest: the evicted record counts as retired.     *)
EnqueueDropOldest(p) ==
  /\ producer[p] = "lock" /\ MutexFree
  /\ Full /\ policy = "DropOldest"
  /\ Push(p, Tail(queue))
  /\ nDropped' = nDropped + 1
  /\ nRetired' = nRetired + 1
  /\ evicted' = evicted \cup {Head(queue).id}
  /\ UNCHANGED <<config, drained, batch, nProcessed, stop, worker,
                 draining, calls, flusher, target, owner, delivered>>

(* Mutant: the rejected record is not counted.                             *)
EnqueueDropNewestMutant(p) ==
  /\ producer[p] = "lock" /\ MutexFree
  /\ Full /\ policy = "DropNewest"
  /\ producer' = [producer EXCEPT ![p] = "idle"]
  /\ UNCHANGED <<config, drained, queue, batch, counters, stop, worker,
                 draining, calls, flusher, target, owner, history>>

(* handleOverflow(), DropNewest.                                           *)
EnqueueDropNewest(p) ==
  /\ producer[p] = "lock" /\ MutexFree
  /\ Full /\ policy = "DropNewest"
  /\ Discard(p)
  /\ UNCHANGED <<config, drained, batch, nRetired, nProcessed, stop,
                 worker, draining, calls, flusher, target, owner, history>>

(* queue.emplace_back() throws: the guard gives up the mutex and log()     *)
(* swallows the exception.  The call is not counted, nobody is notified,   *)
(* and a record that was evicted to make room stays evicted.               *)
EnqueueFails(p) ==
  /\ producer[p] = "lock" /\ MutexFree
  /\ \/ /\ ~Full
        /\ UNCHANGED <<queue, nRetired, nDropped, evicted>>
     \/ /\ Full /\ policy = "DropOldest"
        /\ queue' = Tail(queue)
        /\ nDropped' = nDropped + 1
        /\ nRetired' = nRetired + 1
        /\ evicted' = evicted \cup {Head(queue).id}
  /\ nFailed' = nFailed + 1
  /\ producer' = [producer EXCEPT ![p] = "idle"]
  /\ UNCHANGED <<config, drained, batch, nQueued, nProcessed, stop, worker,
                 draining, logged, nLogged, flusher, target, owner, delivered>>

ProducerSleep(p) ==
  /\ producer[p] = "gap"
  /\ producer' = [producer EXCEPT ![p] = "waiting"]
  /\ UNCHANGED <<config, drained, queue, batch, counters, stop, worker,
                 draining, calls, flusher, target, owner, history>>

(* enqueue() notifies after it has released the mutex, then returns.       *)
EnqueueNotify(p) ==
  /\ producer[p] = "notify"
  /\ NotifyOne([producer EXCEPT ![p] = "idle"])
  /\ UNCHANGED <<config, drained, queue, batch, counters, stop, draining,
                 calls, flusher, target, owner, history>>

-----------------------------------------------------------------------------
(* flushNow() *)

FlushBegin(f) ==
  /\ owner = "alive"
  /\ flusher[f] \in {"idle", "returned"}
  /\ target' = [target EXCEPT ![f] = nQueued]
  /\ flusher' = [flusher EXCEPT ![f] = "notify"]
  /\ UNCHANGED <<config, drained, queue, batch, counters, stop, worker,
                 draining, producer, calls, owner, history>>

FlushNotify(f) ==
  /\ flusher[f] = "notify"
  /\ NotifyOne(producer)
  /\ flusher' = [flusher EXCEPT ![f] = "lock"]
  /\ UNCHANGED <<config, drained, queue, batch, counters, stop, draining,
                 calls, target, owner, history>>

(* Mutant: an empty queue is taken for a delivered one.                    *)
FlushedMutant(f) == queue = <<>> \/ stop

(* The wait's predicate.  The worker is joinable until the destructor is   *)
(* through, and by then stop has been requested.                           *)
Flushed(f) == nRetired >= target[f] \/ stop

FlushCheck(f) ==
  /\ flusher[f] = "lock" /\ MutexFree
  /\ flusher' = [flusher EXCEPT ![f] = IF Flushed(f) THEN "returned" ELSE "gap"]
  /\ UNCHANGED <<config, drained, queue, batch, counters, stop, worker,
                 draining, producer, calls, target, owner, history>>

FlushSleep(f) ==
  /\ flusher[f] = "gap"
  /\ flusher' = [flusher EXCEPT ![f] = "waiting"]
  /\ UNCHANGED <<config, drained, queue, batch, counters, stop, worker,
                 draining, producer, calls, target, owner, history>>

(* A condition-variable wait may return with no notification.              *)
SpuriousWakeup ==
  /\ \/ \E p \in Producers :
          /\ producer[p] = "waiting"
          /\ producer' = [producer EXCEPT ![p] = "lock"]
          /\ UNCHANGED flusher
     \/ \E f \in Flushers :
          /\ flusher[f] = "waiting"
          /\ flusher' = [flusher EXCEPT ![f] = "lock"]
          /\ UNCHANGED producer
  /\ UNCHANGED <<config, drained, queue, batch, counters, stop, worker,
                 draining, calls, target, owner, history>>

-----------------------------------------------------------------------------
(* workerLoop(), processBatch(), drainQueue() *)

MinNat(a, b) == IF a < b THEN a ELSE b

(* Mutant: the batch is worked off from its back.                          *)
WorkerTakeBatchMutant ==
  /\ worker = "lock" /\ MutexFree
  /\ queue # <<>>
  /\ LET n == MinNat(Len(queue), BatchCap) IN
       /\ batch' = [i \in 1..n |-> queue[n + 1 - i]]
       /\ queue' = SubSeq(queue, n + 1, Len(queue))
  /\ worker' = "deliver"
  /\ producer' = WokenProducers
  /\ UNCHANGED <<config, drained, counters, stop, draining, calls,
                 flusher, target, owner, history>>

(* Records are queued: take up to BatchCap of them, notify_all(queueCv).   *)
WorkerTakeBatch ==
  /\ worker = "lock" /\ MutexFree
  /\ queue # <<>>
  /\ LET n == MinNat(Len(queue), BatchCap) IN
       /\ batch' = SubSeq(queue, 1, n)
       /\ queue' = SubSeq(queue, n + 1, Len(queue))
  /\ worker' = "deliver"
  /\ producer' = WokenProducers
  /\ UNCHANGED <<config, drained, counters, stop, draining, calls,
                 flusher, target, owner, history>>

(* Mutant: the stop request is not looked at.                              *)
WorkerIdleMutant ==
  /\ worker = "lock" /\ MutexFree
  /\ queue = <<>>
  /\ worker' = "gap"
  /\ UNCHANGED <<config, drained, queue, batch, counters, stop, draining,
                 producer, calls, flusher, target, owner, history>>

(* Nothing is queued: leave the loop if stop was requested, else wait.     *)
WorkerIdle ==
  /\ worker = "lock" /\ MutexFree
  /\ queue = <<>>
  /\ worker' = IF stop THEN "drain" ELSE "gap"
  /\ UNCHANGED <<config, drained, queue, batch, counters, stop, draining,
                 producer, calls, flusher, target, owner, history>>

WorkerSleep ==
  /\ worker = "gap"
  /\ worker' = "waiting"
  /\ UNCHANGED <<config, drained, queue, batch, counters, stop, draining,
                 producer, calls, flusher, target, owner, history>>

(* wait_for() returns after mFlushInterval at the latest.                  *)
WorkerTimeout ==
  /\ worker = "waiting"
  /\ worker' = "lock"
  /\ UNCHANGED <<config, drained, queue, batch, counters, stop, draining,
                 producer, calls, flusher, target, owner, history>>

(* processBatch(), first half: mBackend->log() is noexcept (sink_base.h),  *)
(* an exception of emit() or sync() ends inside it, so the catch block     *)
(* around the call is never entered and the record counts as processed.    *)
WorkerDeliver ==
  /\ worker = "deliver"
  /\ delivered' = Append(delivered, Head(batch))
  /\ nProcessed' = nProcessed + 1
  /\ worker' = "retire"
  /\ UNCHANGED <<config, drained, queue, batch, nQueued, nRetired,
                 nDropped, stop, draining, producer, calls, flusher, target,
                 owner, evicted>>

(* processBatch(), second half: the record is retired, the next one taken. *)
WorkerRetire ==
  /\ worker = "retire"
  /\ nRetired' = nRetired + 1
  /\ batch' = Tail(batch)
  /\ worker' = IF Len(batch) > 1 THEN "deliver" ELSE "notify"
  /\ UNCHANGED <<config, drained, queue, nQueued, nProcessed, nDropped,
                 stop, draining, producer, calls, flusher, target, owner,
                 history>>

(* idleCv.notify_all() under the mutex, in workerLoop() and drainQueue().  *)
WorkerNotifyIdle ==
  /\ worker = "notify" /\ MutexFree
  /\ flusher' = WokenFlushers
  /\ worker' = IF draining THEN "done" ELSE "lock"
  /\ UNCHANGED <<config, drained, queue, batch, counters, stop, draining,
                 producer, calls, target, owner, history>>

(* drainQueue() takes what is left, without the batch limit and without    *)
(* waking producers.                                                       *)
WorkerDrain ==
  /\ worker = "drain" /\ MutexFree
  /\ batch' = queue
  /\ queue' = <<>>
  /\ draining' = TRUE /\ drained' = nQueued
  /\ worker' = IF queue = <<>> THEN "notify" ELSE "deliver"
  /\ UNCHANGED <<config, counters, stop, producer, calls,
                 flusher, target, owner, history>>

-----------------------------------------------------------------------------
(* ~AsyncSink(): request_stop(); queueCv.notify_all(); join().  Logger     *)
(* holds the sink by shared_ptr, so in its use no call is in flight; calls *)
(* that overlap it are what the stop_requested() tests are written for.    *)

InFlight ==
  \/ \E p \in Producers : producer[p] # "idle"
  \/ \E f \in Flushers : flusher[f] \notin {"idle", "returned"}

DestroyRequestStop ==
  /\ owner = "alive"
  /\ stop' = TRUE
  /\ owner' = "notify"
  /\ UNCHANGED <<config, drained, queue, batch, counters, worker, draining,
                 producer, calls, flusher, target, history>>

(* Neither the stop flag nor the notification is covered by queueMutex.    *)
DestroyNotifyAll ==
  /\ owner = "notify"
  /\ worker' = WokenWorker
  /\ producer' = WokenProducers
  /\ owner' = "join"
  /\ UNCHANGED <<config, drained, queue, batch, counters, stop, draining,
                 calls, flusher, target, history>>

(* Mutant: the worker is detached instead of joined.                       *)
DestroyJoinMutant ==
  /\ owner = "join"
  /\ owner' = "gone"
  /\ UNCHANGED <<config, drained, queue, batch, counters, stop, worker,
                 draining, producer, calls, flusher, target, history>>

DestroyJoin ==
  /\ owner = "join" /\ worker = "done"
  /\ owner' = "gone"
  /\ UNCHANGED <<config, drained, queue, batch, counters, stop, worker,
                 draining, producer, calls, flusher, target, history>>

(* The sink is gone and every call has returned.                           *)
Terminated ==
  /\ owner = "gone" /\ ~InFlight
  /\ UNCHANGED vars

-----------------------------------------------------------------------------
Produce(p) ==
  \/ EnqueueRoom(p)
  \/ EnqueueBlock(p)
  \/ EnqueueDropOldest(p)
  \/ EnqueueDropNewest(p)
  \/ EnqueueFails(p)
Flush(f) == FlushNotify(f) \/ FlushCheck(f) \/ FlushSleep(f)
Work ==
  \/ WorkerTakeBatch
  \/ WorkerIdle
  \/ WorkerSleep
  \/ WorkerTimeout
  \/ WorkerDeliver
  \/ WorkerRetire
  \/ WorkerNotifyIdle
  \/ WorkerDrain
Destroy == DestroyRequestStop \/ DestroyNotifyAll \/ DestroyJoin

Next ==
  \/ \E p \in Producers :
       LogBegin(p) \/ Produce(p) \/ ProducerSleep(p) \/ EnqueueNotify(p)
  \/ \E f \in Flushers : FlushBegin(f) \/ Flush(f)
  \/ SpuriousWakeup
  \/ Work
  \/ Destroy
  \/ Terminated

Spec == Init /\ [][Next]_vars

(* Every thread in a call takes its next step; a thread that keeps asking  *)
(* for the mutex gets it (strong fairness: the mutex is free again and     *)
(* again; at any other point the step stays possible, and one is all a     *)
(* thread can take).  Nobody has to call log(), flushNow() or the destructor.    *)
Fairness ==
  /\ \A p \in Producers :
       SF_vars(Produce(p) \/ ProducerSleep(p) \/ EnqueueNotify(p))
  /\ \A f \in Flushers : SF_vars(Flush(f))
  /\ SF_vars(Work)
  /\ WF_vars(DestroyNotifyAll \/ DestroyJoin)

FairSpec == Spec /\ Fairness
-----------------------------------------------------------------------------
(* Correctness properties *)

Pending == Len(batch) - (IF worker = "retire" THEN 1 ELSE 0)
Entering == {p \in Producers : producer[p] \in {"lock", "gap", "waiting"}}

(* The retire counter on which flushNow() waits is exact: what was queued  *)
(* is retired, in the worker's batch or still in the queue, whichever of   *)
(* the worker and an evicting log() call (handleOverflow) retires it.      *)
RetireAccounting == nQueued = nRetired + Len(batch) + Len(queue)

(* The queue never exceeds max_queue_size, with any number of producers    *)
(* let through by one notify_all (async_sink.h:227, 293).                  *)
Capacity == Len(queue) <= mMaxQueueSize

(* getStats() loses no message but those it was never told of: every log() *)
(* call is on its way in, queued, in the batch, counted as processed or    *)
(* counted as dropped, exactly once, except the calls that ran out of      *)
(* memory ("drop silently", async_sink.h:124), which no counter shows.  A  *)
(* record that the backend failed to write counts as processed (see        *)
(* WorkerDeliver), where async_sink.h:67-68 counts it as dropped.          *)
NoSilentLoss ==
  nLogged =
    nProcessed + nDropped + Len(queue) + Pending + Cardinality(Entering) + nFailed

(* "messages from a single thread always reach the backend in call order"  *)
(* (async_sink.h:40), and none reaches it twice.                           *)
CallOrder ==
  \A i, j \in DOMAIN delivered :
    i < j /\ delivered[i].src = delivered[j].src => delivered[i].n < delivered[j].n

(* flushNow(): "Block until all messages queued before this call are       *)
(* delivered" (async_sink.h:134).  A message that the overflow policy      *)
(* evicted cannot be delivered and is not asked for; a destructor that     *)
(* interrupts the call is excluded.                                        *)
FlushDelivers ==
  \A f \in Flushers : flusher[f] = "returned" /\ ~stop =>
    \A k \in 1..target[f] :
      k \in evicted \/ \E i \in DOMAIN delivered : delivered[i].id = k

(* The same for the policies that retire records in queue order.           *)
FlushDeliversUnlessEvicting == policy # "DropOldest" => FlushDelivers

(* "ensuring all queued messages are delivered" (async_sink.h:43): once    *)
(* the destructor is through, every record has been handed to the backend  *)
(* or was evicted, those of calls that overlap the destructor and those    *)
(* queued while the worker leaves its loop included.  A record is left     *)
(* behind only if it was queued after drainQueue() had taken the queue.    *)
ShutdownDelivers ==
  owner = "gone" =>
    \A k \in 1..(IF draining THEN drained ELSE nQueued) :
      k \in evicted \/ \E i \in DOMAIN delivered : delivered[i].id = k

(* handleOverflow() has evicted the last queued record and the one that    *)
(* was to follow ran out of memory: nRetired has reached the target, yet   *)
(* the worker, which finds the queue empty, has nothing to notify about    *)
(* and a flushNow() call keeps waiting until the next record or the        *)
(* destructor.  Possible only with max_queue_size 1.                       *)
Stranded(f) ==
  /\ flusher[f] = "waiting" /\ nRetired >= target[f]
  /\ policy = "DropOldest" /\ mMaxQueueSize = 1 /\ nFailed > 0
  /\ queue = <<>> /\ batch = <<>>

(* A log() call returns: a producer blocked for room is released by the    *)
(* worker or by the destructor, although notify_one may be spent on        *)
(* another waiter and the destructor notifies without the mutex. So does a *)
(* flushNow() call: the worker's notification is not lost between the      *)
(* predicate and the wait, nor is the call left waiting by a worker that   *)
(* has stopped; the exception is a call that is Stranded.  And the         *)
(* destructor's join() ends.                                               *)
CallsReturn ==
  /\ \A p \in Producers : producer[p] = "lock" ~> producer[p] = "idle"
  /\ \A f \in Flushers : flusher[f] = "notify" ~> (flusher[f] = "returned" \/ Stranded(f))
  /\ owner = "notify" ~> owner = "gone"
-----------------------------------------------------------------------------
(* The inductive invariant behind the safety properties *)

(* The worker holds a batch exactly while it processes one.                *)
BatchInv == worker \in {"deliver", "retire"} <=> batch # <<>>

(* The records of s carry the enqueue numbers base + 1, base + 2, ...      *)
Run(s, base) == \A i \in 1..Len(s) : s[i].id = base + i

(* Without eviction records are retired in the order in which they were    *)
(* queued: the delivered ones, the batch and the queue are consecutive     *)
(* runs of enqueue numbers.                                                *)
OrderInv ==
  policy # "DropOldest" =>
    /\ Len(delivered) = nRetired + (IF worker = "retire" THEN 1 ELSE 0)
    /\ Run(delivered, 0)
    /\ Run(batch, nRetired)
    /\ Run(queue, nRetired + Len(batch))

(* A flushNow() call that returned without a stop has seen its target.     *)
TargetInv ==
  \A f \in Flushers : flusher[f] = "returned" /\ ~stop => nRetired >= target[f]

IInv == TypeOK /\ RetireAccounting /\ Capacity /\ BatchInv /\ OrderInv /\ TargetInv
=============================================================================
