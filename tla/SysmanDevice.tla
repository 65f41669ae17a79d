----------------------------- MODULE SysmanDevice -----------------------------
(***************************************************************************)
(* The devices of xpumd's GPU receiver (xpumd/receiver/intelxpu/sysman/    *)
(* device.go, frequency.go, scraper.go, events.go).  Three goroutines      *)
(* share them: the collector's scrape, the sampler that polls the          *)
(* frequency between scrapes, and the event listener, which scans a device *)
(* again (init()) when it has been attached.  The device's RWMutex is held *)
(* for reading by the first two and for writing by the rescan; a waiting   *)
(* writer keeps new readers out.                                           *)
(*                                                                         *)
(* A driver call succeeds iff the device is present at that moment; its    *)
(* caller acts on the result later.  A metric whose call fails is disabled *)
(* until the next rescan.  The ECC, reset and PCI link state of a device   *)
(* and its PCI counters are queried and disabled one by one in the same    *)
(* manner: "state" stands for them.  A device has one frequency domain,    *)
(* which stands for the scrapers of all subsystems.                        *)
(***************************************************************************)
EXTENDS Integers, Sequences

CONSTANTS
  Devices,        \* the devices of one driver
  NoDevice,       \* no device
  MaxIncarnation  \* bound: how often another device takes its place

ASSUME SysmanAssumption ==
  /\ NoDevice \notin Devices
  /\ MaxIncarnation \in Nat \ {0}

VARIABLES
  present,          \* external: is the device attached?
  incarnation,      \* external: which device it is
  events,           \* external: devices with an attach event to report
  unknown,          \* external: devices that do not know their frequency
  attributes,       \* the incarnation d.attributes was read from
  disabled,         \* driver calls no longer made for a device
  scrapers,         \* d.scrapers holds the frequency domain
  freqAttributes,   \* the incarnation in the frequency domain's attributes
  actual,           \* state.actual # nil: the frequency is sampled
  samples,          \* incarnations the samples in state.actual stem from
  listener,         \* program counter of runEventListener()
  flags,            \* deviceEvents: devices of the attach events in hand
  rescanned,        \* the device being scanned again
  toInit,           \* calls init() has still to make
  sampler,          \* program counter of runSampler()
  toPoll, polled,   \* devices to poll, the device locked for polling
  pollResult,       \* result of GetState() and the incarnation it is from
  toScrape, scraped,    \* devices to scrape, the device locked for scraping
  calls, callResult,    \* scrape: calls to make, result of the one made
  points,           \* incarnations in the data points of the scraped device
  stop              \* components whose context has been cancelled

environment == <<present, incarnation, events, unknown>>
frequency == <<scrapers, freqAttributes, actual, samples>>
device == <<attributes, disabled, frequency>>
listening == <<listener, flags, rescanned, toInit>>
sampling == <<sampler, toPoll, polled, pollResult>>
scraping == <<toScrape, scraped, calls, callResult, points>>
vars == <<environment, device, listening, sampling, scraping, stop>>

(* The calls of a scrape, and those of init() in their order.  "samples"   *)
(* collects the frequency's samples, which needs no driver.                *)
FrequencyCalls == {"range", "frequency", "samples"}
InitCalls == <<"properties", "state", "enumerate", "range">>
Components == {"events", "metrics"}

TypeOK ==
  /\ present \in [Devices -> BOOLEAN]
  /\ incarnation \in [Devices -> 1..MaxIncarnation]
  /\ events \subseteq Devices
  /\ attributes \in [Devices -> 1..MaxIncarnation]
  /\ unknown \subseteq Devices
  /\ disabled \in [Devices -> SUBSET {"state", "range", "frequency"}]
  /\ scrapers \in [Devices -> BOOLEAN]
  /\ freqAttributes \in [Devices -> 1..MaxIncarnation]
  /\ actual \in [Devices -> BOOLEAN]
  /\ samples \in [Devices -> SUBSET (1..MaxIncarnation)]
  /\ \A d \in Devices : samples[d] # {} => actual[d]
  /\ listener \in {"check", "listen", "rescan", "lock", "init", "returned"}
  /\ flags \subseteq Devices
  /\ rescanned \in Devices \cup {NoDevice}
  /\ toInit \in Seq({"properties", "state", "enumerate", "range"})
  /\ sampler \in {"select", "pass", "poll", "apply", "returned"}
  /\ toPoll \subseteq Devices /\ polled \in Devices \cup {NoDevice}
  /\ pollResult \in {<<>>} \cup ({"ok", "unknown", "error"} \X (1..MaxIncarnation))
  /\ toScrape \subseteq Devices /\ scraped \in Devices \cup {NoDevice}
  /\ calls \in Seq({"state"} \cup FrequencyCalls)
  /\ callResult \in {"none", "ok", "error"}
  /\ points \subseteq 1..MaxIncarnation
  /\ stop \subseteq Components

(* The devices are enumerated and registered for events.                   *)
Init ==
  /\ present = [d \in Devices |-> TRUE]
  /\ incarnation = [d \in Devices |-> 1]
  /\ events = {} /\ unknown \in SUBSET Devices
  /\ attributes = [d \in Devices |-> 1] /\ disabled = [d \in Devices |-> {}]
  /\ scrapers = [d \in Devices |-> TRUE] /\ freqAttributes = [d \in Devices |-> 1]
  /\ actual = [d \in Devices |-> TRUE] /\ samples = [d \in Devices |-> {}]
  /\ listener = "check" /\ flags = {}
  /\ rescanned = NoDevice /\ toInit = <<>>
  /\ sampler = "select" /\ toPoll = {} /\ polled = NoDevice /\ pollResult = <<>>
  /\ toScrape = {} /\ scraped = NoDevice /\ calls = <<>> /\ callResult = "none"
  /\ points = {}
  /\ stop = {}

-----------------------------------------------------------------------------
(* Environment *)

Detach(d) ==
  /\ present[d]
  /\ present' = [present EXCEPT ![d] = FALSE]
  /\ UNCHANGED <<incarnation, events, unknown, device, listening, sampling, scraping, stop>>

(* The device comes back, or another one in its place.                     *)
Attach(d) ==
  /\ ~present[d]
  /\ present' = [present EXCEPT ![d] = TRUE]
  /\ \E i \in incarnation[d]..MaxIncarnation :
       incarnation' = [incarnation EXCEPT ![d] = i]
  /\ events' = events \cup {d}
  /\ UNCHANGED <<unknown, device, listening, sampling, scraping, stop>>

Result(d) == IF present[d] THEN "ok" ELSE "error"

(* The device's RWMutex *)
WriteLocked(d) == rescanned = d
ReadLocked(d) == polled = d \/ scraped = d

-----------------------------------------------------------------------------
(* runEventListener() *)

(* EventListenEx() reports events and they are logged: the listener itself *)
(* is the only writer its RLock() could wait for.                          *)
ListenEvents ==
  /\ listener = "listen"
  /\ events # {}
  /\ flags' = events
  /\ events' = {}
  /\ listener' = "rescan"
  /\ UNCHANGED <<present, incarnation, unknown, device, rescanned, toInit, sampling, scraping,
                 stop>>

(* Nothing within the timeout, an error, or events that are only logged,   *)
(* such as a detach.  Events outlast an error: it only delays them.        *)
ListenNothing ==
  /\ listener = "listen" /\ events = {}
  /\ listener' = "check"
  /\ UNCHANGED <<environment, device, flags, rescanned, toInit, sampling, scraping,
                 stop>>

(* Mutant: the context is never looked at.                                 *)
ListenCheckMutant ==
  /\ listener = "check"
  /\ listener' = "listen"
  /\ UNCHANGED <<environment, device, flags, rescanned, toInit, sampling, scraping,
                 stop>>

ListenCheck ==
  /\ listener = "check"
  /\ listener' = IF "events" \in stop THEN "returned" ELSE "listen"
  /\ UNCHANGED <<environment, device, flags, rescanned, toInit, sampling, scraping,
                 stop>>

RescanNext ==
  /\ listener = "rescan"
  /\ \E d \in flags : rescanned' = d
  /\ listener' = "lock"
  /\ UNCHANGED <<environment, device, flags, toInit, sampling, scraping, stop>>

(* Mutant: the lock is not taken.                                          *)
RescanLockMutant ==
  /\ listener = "lock"
  /\ toInit' = InitCalls
  /\ listener' = "init"
  /\ UNCHANGED <<environment, device, flags, rescanned, sampling, scraping, stop>>

RescanLock ==
  /\ listener = "lock" /\ ~ReadLocked(rescanned)
  /\ toInit' = InitCalls
  /\ listener' = "init"
  /\ UNCHANGED <<environment, device, flags, rescanned, sampling, scraping, stop>>

(* Mutant: the state is not reset.                                         *)
InitPropertiesMutant ==
  LET d == rescanned IN
  /\ listener = "init" /\ toInit # <<>> /\ Head(toInit) = "properties"
  /\ \/ /\ present[d]
        /\ attributes' = [attributes EXCEPT ![d] = incarnation[d]]
        /\ scrapers' = [scrapers EXCEPT ![d] = FALSE]
        /\ toInit' = Tail(toInit)
     \/ /\ ~present[d]
        /\ toInit' = <<>>
        /\ UNCHANGED <<attributes, scrapers>>
  /\ UNCHANGED <<environment, disabled, freqAttributes, actual, samples, listener,
                 flags, rescanned, sampling, scraping, stop>>

(* init(): "on error the device is not altered", the first call decides.   *)
InitProperties ==
  LET d == rescanned IN
  /\ listener = "init" /\ toInit # <<>> /\ Head(toInit) = "properties"
  /\ \/ /\ present[d]
        /\ attributes' = [attributes EXCEPT ![d] = incarnation[d]]
        /\ disabled' = [disabled EXCEPT ![d] = {}]
        /\ scrapers' = [scrapers EXCEPT ![d] = FALSE]
        /\ toInit' = Tail(toInit)
     \/ /\ ~present[d]
        /\ toInit' = <<>>
        /\ UNCHANGED <<attributes, disabled, scrapers>>
  /\ UNCHANGED <<environment, freqAttributes, actual, samples, listener, flags,
                 rescanned, sampling, scraping, stop>>

(* A metric whose call fails during the scan is disabled.                  *)
InitCall ==
  LET c == Head(toInit) IN
  /\ listener = "init" /\ toInit # <<>> /\ c \notin {"properties", "enumerate"}
  /\ disabled' = [disabled EXCEPT ![rescanned] =
                    IF present[rescanned] THEN @ ELSE @ \cup {c}]
  /\ toInit' = Tail(toInit)
  /\ UNCHANGED <<environment, attributes, frequency, listener, flags, rescanned,
                 sampling, scraping, stop>>

(* Mutant: the samples of the earlier frequency domain are taken over.     *)
InitEnumerateMutant ==
  LET d == rescanned IN
  /\ listener = "init" /\ toInit # <<>> /\ Head(toInit) = "enumerate"
  /\ toInit' = IF present[d] THEN Tail(toInit) ELSE <<>>
  /\ scrapers' = [scrapers EXCEPT ![d] = present[d]]
  /\ freqAttributes' = [freqAttributes EXCEPT ![d] = attributes[d]]
  /\ actual' = [actual EXCEPT ![d] = TRUE]
  /\ UNCHANGED <<environment, attributes, disabled, samples, listener, flags,
                 rescanned, sampling, scraping, stop>>

(* enumFrequency(): a new frequency domain with an empty buffer, or none.  *)
InitEnumerate ==
  LET d == rescanned IN
  /\ listener = "init" /\ toInit # <<>> /\ Head(toInit) = "enumerate"
  /\ toInit' = IF present[d] THEN Tail(toInit) ELSE <<>>
  /\ scrapers' = [scrapers EXCEPT ![d] = present[d]]
  /\ freqAttributes' = [freqAttributes EXCEPT ![d] = attributes[d]]
  /\ actual' = [actual EXCEPT ![d] = present[d]]
  /\ samples' = [samples EXCEPT ![d] = {}]
  /\ UNCHANGED <<environment, attributes, disabled, listener, flags, rescanned,
                 sampling, scraping, stop>>

RescanUnlock ==
  /\ listener = "init" /\ toInit = <<>>
  /\ flags' = flags \ {rescanned}
  /\ rescanned' = NoDevice
  /\ listener' = IF flags' = {} THEN "check" ELSE "rescan"
  /\ UNCHANGED <<environment, device, toInit, sampling, scraping, stop>>

-----------------------------------------------------------------------------
(* runSampler(), pollAggregatedMetrics() *)

SamplerTick ==
  /\ sampler = "select"
  /\ sampler' = "pass"
  /\ toPoll' = Devices
  /\ UNCHANGED <<environment, device, listening, polled, pollResult, scraping, stop>>

SamplerDone ==
  /\ sampler = "select" /\ "metrics" \in stop
  /\ sampler' = "returned"
  /\ UNCHANGED <<environment, device, listening, toPoll, polled, pollResult, scraping,
                 stop>>

SamplerLock ==
  /\ sampler = "pass"
  /\ \E d \in toPoll :
       /\ ~WriteLocked(d)
       /\ polled' = d
       /\ toPoll' = toPoll \ {d}
  /\ sampler' = "poll"
  /\ UNCHANGED <<environment, device, listening, pollResult, scraping, stop>>

(* The next device is polled, or the next tick awaited.                    *)
AfterPoll == IF toPoll = {} THEN "select" ELSE "pass"

(* frequencyState's mutex, held from GetState() until the result is used.  *)
ScrapeHoldsState(d) ==
  scraped = d /\ callResult # "none" /\ Head(calls) = "frequency"
SamplerHoldsState(d) == polled = d /\ pollResult # <<>>

SamplerCall ==
  /\ sampler = "poll" /\ scrapers[polled] /\ actual[polled]
  /\ ~ScrapeHoldsState(polled)
  /\ pollResult' = <<IF present[polled] /\ polled \in unknown THEN "unknown"
                      ELSE Result(polled), incarnation[polled]>>
  /\ sampler' = "apply"
  /\ UNCHANGED <<environment, device, listening, toPoll, polled, scraping, stop>>

(* Mutant: the device stays locked when there is nothing to poll.          *)
SamplerNothingMutant ==
  /\ sampler = "poll" /\ ~(scrapers[polled] /\ actual[polled])
  /\ sampler' = "select"
  /\ toPoll' = {}
  /\ UNCHANGED <<environment, device, listening, polled, pollResult, scraping, stop>>

SamplerNothing ==
  /\ sampler = "poll" /\ ~(scrapers[polled] /\ actual[polled])
  /\ sampler' = AfterPoll
  /\ polled' = NoDevice
  /\ UNCHANGED <<environment, device, listening, toPoll, pollResult, scraping, stop>>

(* The sample is added, or the buffer given up until the next rescan.      *)
SamplerApply ==
  /\ sampler = "apply"
  /\ actual' = [actual EXCEPT ![polled] = pollResult[1] = "ok"]
  /\ samples' = [samples EXCEPT ![polled] =
                   IF pollResult[1] = "ok" THEN @ \cup {pollResult[2]} ELSE {}]
  /\ sampler' = AfterPoll /\ polled' = NoDevice /\ pollResult' = <<>>
  /\ UNCHANGED <<environment, attributes, disabled, scrapers, freqAttributes,
                 listening, toPoll, scraping, stop>>

-----------------------------------------------------------------------------
(* scrape() *)

ScrapeBegin ==
  /\ toScrape = {} /\ scraped = NoDevice /\ "metrics" \notin stop
  /\ toScrape' = Devices
  /\ UNCHANGED <<environment, device, listening, sampling, scraped, calls, callResult,
                 points, stop>>

(* Whether a metric is disabled is read where its call would be made: but  *)
(* only a rescan and that call itself ever change it.                      *)
Enabled(d, c) ==
  /\ c \notin disabled[d]
  /\ c \in FrequencyCalls => scrapers[d] /\ "frequency" \notin disabled[d]

CallIf(d, c) == IF Enabled(d, c) THEN <<c>> ELSE <<>>

(* The calls of a scrape of d in their order, without the disabled ones.   *)
ScrapeCalls(d) ==
  CallIf(d, "state") \o CallIf(d, "range") \o CallIf(d, "frequency")
    \o CallIf(d, "samples")

ScrapeLock ==
  /\ scraped = NoDevice
  /\ \E d \in toScrape :
       /\ ~WriteLocked(d)
       /\ scraped' = d
       /\ toScrape' = toScrape \ {d}
       /\ points' = {attributes[d]}
       /\ calls' = ScrapeCalls(d)
  /\ UNCHANGED <<environment, device, listening, sampling, callResult, stop>>

ScrapeCall ==
  /\ calls # <<>> /\ callResult = "none" /\ Head(calls) # "samples"
  /\ Head(calls) = "frequency" => ~SamplerHoldsState(scraped)
  /\ callResult' = Result(scraped)
  /\ UNCHANGED <<environment, device, listening, sampling, toScrape, scraped, calls,
                 points, stop>>

ScrapeApply ==
  /\ callResult # "none"
  /\ \/ /\ callResult = "ok"
        /\ points' = points \cup {IF Head(calls) \in FrequencyCalls
                                  THEN freqAttributes[scraped] ELSE attributes[scraped]}
        /\ UNCHANGED disabled
     \/ /\ callResult = "error"
        /\ disabled' = [disabled EXCEPT ![scraped] = @ \cup {Head(calls)}]
        /\ UNCHANGED points
  /\ calls' = Tail(calls) /\ callResult' = "none"
  /\ UNCHANGED <<environment, attributes, frequency, listening, sampling, toScrape,
                 scraped, stop>>

(* collect(): the samples are reported and the window reset.               *)
ScrapeSamples ==
  /\ calls # <<>> /\ Head(calls) = "samples"
  /\ ~SamplerHoldsState(scraped)
  /\ points' = IF samples[scraped] = {} THEN points
               ELSE points \cup {freqAttributes[scraped]}
  /\ samples' = [samples EXCEPT ![scraped] = {}]
  /\ calls' = Tail(calls)
  /\ UNCHANGED <<environment, attributes, disabled, scrapers, freqAttributes, actual,
                 listening, sampling, toScrape, scraped, callResult, stop>>

ScrapeUnlock ==
  /\ scraped # NoDevice /\ calls = <<>>
  /\ scraped' = NoDevice /\ points' = {}
  /\ UNCHANGED <<environment, device, listening, sampling, toScrape, calls, callResult,
                 stop>>

-----------------------------------------------------------------------------
(* Shutdown(), shutdown(): cancel the context.  They return as soon as the *)
(* goroutine they wait for has returned.                                   *)
Shutdown(c) ==
  /\ c \notin stop
  /\ c = "metrics" => toScrape = {} /\ scraped = NoDevice
  /\ stop' = stop \cup {c}
  /\ UNCHANGED <<environment, device, listening, sampling, scraping>>

Returned(c) == IF c = "events" THEN listener = "returned" ELSE sampler = "returned"

Terminated ==
  /\ \A c \in Components : Returned(c)
  /\ UNCHANGED vars

-----------------------------------------------------------------------------
Listen ==
  \/ ListenCheck \/ ListenEvents \/ ListenNothing \/ RescanNext
  \/ RescanLock \/ InitProperties \/ InitCall \/ InitEnumerate \/ RescanUnlock
Sample ==
  \/ SamplerTick \/ SamplerDone \/ SamplerLock
  \/ SamplerCall \/ SamplerNothing \/ SamplerApply
Scrape ==
  ScrapeLock \/ ScrapeCall \/ ScrapeApply \/ ScrapeSamples \/ ScrapeUnlock

Next ==
  \/ \E d \in Devices : Detach(d) \/ Attach(d)
  \/ Listen \/ Sample \/ ScrapeBegin \/ Scrape
  \/ \E c \in Components : Shutdown(c)
  \/ Terminated

Spec == Init /\ [][Next]_vars

(* The goroutines are scheduled, driver calls return, EventListenEx()      *)
(* reports what there is, and nobody starves at a mutex or waiting for the *)
(* lock.  select does not pass over a cancelled context for ever.          *)
Fairness ==
  WF_vars(Listen) /\ SF_vars(Sample) /\ SF_vars(SamplerDone) /\ SF_vars(Scrape)

FairSpec == Spec /\ Fairness

-----------------------------------------------------------------------------
(* Correctness properties *)

(* The data points of a device in one scrape describe one device: a rescan *)
(* in the middle of a scrape does not mix the attributes of two of them.   *)
ScrapeCoherent == \A a, b \in points : a = b

(* A device that was attached again is fully monitored again: once no      *)
(* attach event is left to handle, its attributes are the present ones and *)
(* no metric is disabled, although scrape and sampler act on the results   *)
(* of calls that failed before (device.go:171-172, events.go rescan).      *)
AttachRecovers ==
  \A d \in Devices :
    present[d] /\ d \notin events \cup flags =>
      /\ attributes[d] = incarnation[d]
      /\ disabled[d] = {}
      /\ scrapers[d] /\ (actual[d] \/ d \in unknown)

(* Samples of an earlier device are never reported as those of a later     *)
(* one that was attached in its place.                                     *)
NoSamplesOfEarlierDevice ==
  \A d \in Devices : scrapers[d] => \A s \in samples[d] : s >= freqAttributes[d]

(* An attach event leads to a rescan, whatever scrape and sampler do, and  *)
(* both components shut down, in the middle of a rescan or a pass as well. *)
AttachAndShutdownServed ==
  /\ \A d \in Devices :
       d \in events ~>
         (listener = "init" /\ rescanned = d) \/ "events" \in stop
  /\ \A c \in Components : c \in stop ~> Returned(c)
=============================================================================
