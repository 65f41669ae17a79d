------------------------- MODULE SysmanDeviceProofs -------------------------
(***************************************************************************)
(* Proofs about SysmanDevice, for every set of devices and any number of   *)
(* incarnations: the safety properties hold however scrape, sampler,       *)
(* rescan and the devices' coming and going interleave.                    *)
(*                                                                         *)
(* None of them is inductive: what a scrape reports depends on the lock    *)
(* that keeps a rescan out, and what a device recovers to on the results   *)
(* of driver calls that scrape and sampler have not acted on yet.  IInv    *)
(* says so; one lemma per conjunct shows that a step preserves it.         *)
(***************************************************************************)
EXTENDS SysmanDevice, TLAPS

(* The lock: only a device without readers is scanned again, its attach    *)
(* event in hand; the sampler holds a lock and a result where its program  *)
(* counter says so.                                                        *)
LockInv ==
  /\ listener \in {"check", "listen", "returned"} => flags = {} /\ rescanned = NoDevice
  /\ listener = "rescan" => flags # {} /\ rescanned = NoDevice
  /\ listener \in {"lock", "init"} => rescanned \in flags
  /\ listener = "init" => polled # rescanned /\ scraped # rescanned
  /\ polled # NoDevice <=> sampler \in {"poll", "apply"}
  /\ pollResult # <<>> <=> sampler = "apply"
  /\ toInit \in {InitCalls, <<"state", "enumerate", "range">>, <<"enumerate", "range">>,
                 <<"range">>, <<>>}

(* The calls a scrape may make on a device with or without scrapers.       *)
CallsWith(hasScrapers) ==
  {c \in {"state"} \cup FrequencyCalls : c \in FrequencyCalls => hasScrapers}

(* A scrape reports the attributes its device has while it is locked.      *)
ScrapeInv ==
  /\ scraped = NoDevice => calls = <<>> /\ callResult = "none" /\ points = {}
  /\ scraped # NoDevice => /\ points \subseteq {attributes[scraped]}
                           /\ calls \in Seq(CallsWith(scrapers[scraped]))
  /\ callResult # "none" => calls # <<>> /\ Head(calls) # "samples"

(* A frequency domain has its device's attributes, and its samples, those  *)
(* on their way as well, are not older than they are.                      *)
SampleInv ==
  /\ \A d \in Devices :
       /\ scrapers[d] => freqAttributes[d] = attributes[d]
       /\ attributes[d] <= incarnation[d] /\ freqAttributes[d] <= incarnation[d]
  /\ NoSamplesOfEarlierDevice
  /\ polled # NoDevice /\ pollResult # <<>> => pollResult[2] >= freqAttributes[polled]

(* The device is away, or an attach event of it is still to be handled.    *)
Pending(d) == ~present[d] \/ d \in events

(* What the rescan in progress has restored already.                       *)
Restored(d) ==
  /\ toInit # InitCalls => attributes[d] = incarnation[d] /\ disabled[d] = {}
  /\ toInit \in {<<"range">>, <<>>} => scrapers[d] /\ (actual[d] \/ d \in unknown)

(* A failure that scrape or sampler still has to act on, and one that has  *)
(* happened during the rescan, leaves an event for a rescan to come.       *)
RecoverInv ==
  /\ AttachRecovers
  /\ listener = "init" => Pending(rescanned) \/ Restored(rescanned)
  /\ scraped # NoDevice /\ callResult = "error" => Pending(scraped) \/ scraped \in flags
  /\ polled # NoDevice /\ pollResult # <<>> =>
       /\ pollResult[1] = "error" => Pending(polled) \/ polled \in flags
       /\ pollResult[1] = "unknown" => polled \in unknown

IInv == TypeOK /\ LockInv /\ ScrapeInv /\ SampleInv /\ RecoverInv

-----------------------------------------------------------------------------
(* Facts about the calls *)

(* Head and tail of a non-empty sequence.                                  *)
LEMMA NonEmptySeq ==
  ASSUME NEW S, NEW s \in Seq(S), s # <<>>
  PROVE  Head(s) \in S /\ Tail(s) \in Seq(S)
  OBVIOUS

(* No calls is a sequence of calls of any kind.                            *)
LEMMA NoCallsSeq == ASSUME NEW S PROVE <<>> \in Seq(S)
  OBVIOUS

(* A scrape makes only calls that the device's scrapers allow.             *)
LEMMA ScrapeCallsType ==
  ASSUME NEW d \in Devices
  PROVE  ScrapeCalls(d) \in Seq(CallsWith(scrapers[d]))
<1> DEFINE C == CallsWith(scrapers[d])
<1>1. ASSUME NEW c \in {"state"} \cup FrequencyCalls PROVE CallIf(d, c) \in Seq(C)
  <2>1. CASE Enabled(d, c)
    <3>1. c \in C
      BY <2>1 DEF Enabled, CallsWith
    <3> QED BY <2>1, <3>1 DEF CallIf
  <2>2. CASE ~Enabled(d, c)
    BY <2>2 DEF CallIf
  <2> QED BY <2>1, <2>2
<1>2. ASSUME NEW s \in Seq(C), NEW t \in Seq(C) PROVE s \o t \in Seq(C)
  OBVIOUS
<1> HIDE DEF C
<1>3. /\ CallIf(d, "state") \in Seq(C) /\ CallIf(d, "range") \in Seq(C)
      /\ CallIf(d, "frequency") \in Seq(C) /\ CallIf(d, "samples") \in Seq(C)
  BY <1>1 DEF FrequencyCalls
<1>4. ScrapeCalls(d) \in Seq(C)
  BY <1>2, <1>3 DEF ScrapeCalls
<1> QED BY <1>4 DEF C

(* They are calls of a scrape.                                             *)
LEMMA CallsWithType ==
  ASSUME NEW b \in BOOLEAN
  PROVE  Seq(CallsWith(b)) \subseteq Seq({"state"} \cup FrequencyCalls)
<1>1. CallsWith(b) \subseteq {"state"} \cup FrequencyCalls
  BY DEF CallsWith
<1> QED BY <1>1

(* The calls of init() left after each of them.                            *)
LEMMA InitCallsLeft ==
  /\ InitCalls # <<>> /\ Head(InitCalls) = "properties"
  /\ Tail(InitCalls) = <<"state", "enumerate", "range">>
  /\ Head(<<"state", "enumerate", "range">>) = "state"
  /\ Tail(<<"state", "enumerate", "range">>) = <<"enumerate", "range">>
  /\ Head(<<"enumerate", "range">>) = "enumerate"
  /\ Tail(<<"enumerate", "range">>) = <<"range">>
  /\ Head(<<"range">>) = "range" /\ Tail(<<"range">>) = <<>>
  BY DEF InitCalls

-----------------------------------------------------------------------------
(* Initial states *)

(* The devices as they are enumerated satisfy the invariant.               *)
LEMMA InitIInv == Init => IInv
<1> SUFFICES ASSUME Init PROVE IInv
  OBVIOUS
<1> USE SysmanAssumption DEF Init
<1>1. TypeOK
  BY DEF TypeOK
<1>2. LockInv
  BY DEF LockInv
<1>3. ScrapeInv
  BY DEF ScrapeInv
<1>4. SampleInv
  BY DEF SampleInv, NoSamplesOfEarlierDevice
<1>5. RecoverInv
  BY DEF RecoverInv, AttachRecovers
<1> QED BY <1>1, <1>2, <1>3, <1>4, <1>5 DEF IInv

-----------------------------------------------------------------------------
(* Steps *)

(* Every step keeps the types; scrape acts on calls it has.                *)
LEMMA TypeStep == TypeOK /\ LockInv /\ ScrapeInv /\ [Next]_vars => TypeOK'
<1> SUFFICES ASSUME TypeOK, LockInv, ScrapeInv, [Next]_vars PROVE TypeOK'
  OBVIOUS
<1> USE SysmanAssumption
    DEF environment, frequency, device, listening, sampling, scraping
<1>1. ASSUME NEW d \in Devices, Detach(d) PROVE TypeOK'
  <2>1. present' \in [Devices -> BOOLEAN]
    BY <1>1, SMTT(60) DEF Detach, TypeOK
  <2>2. UNCHANGED <<incarnation, events, unknown, device, listening, sampling, scraping, stop>>
    BY <1>1 DEF Detach
  <2> QED BY <2>1, <2>2, SMTT(60) DEF TypeOK
<1>2. ASSUME NEW d \in Devices, Attach(d) PROVE TypeOK'
  <2>1. present' \in [Devices -> BOOLEAN]
    BY <1>2, SMTT(60) DEF Attach, TypeOK
  <2>2. PICK i \in incarnation[d]..MaxIncarnation :
          incarnation' = [incarnation EXCEPT ![d] = i]
    BY <1>2 DEF Attach
  <2>3. incarnation[d] \in 1..MaxIncarnation
    BY SMTT(60) DEF TypeOK
  <2>4. i \in 1..MaxIncarnation
    BY <2>3
  <2>5. incarnation' \in [Devices -> 1..MaxIncarnation]
    BY <2>2, <2>4, SMTT(60) DEF TypeOK
  <2>6. /\ events' \subseteq Devices
        /\ UNCHANGED <<unknown, device, listening, sampling, scraping, stop>>
    BY <1>2, SMTT(60) DEF Attach, TypeOK
  <2> QED BY <2>1, <2>5, <2>6, SMTT(60) DEF TypeOK
<1>3. CASE ListenCheck
  BY <1>3, SMTT(60) DEF ListenCheck, TypeOK
<1>4. CASE ListenEvents
  BY <1>4, SMTT(60) DEF ListenEvents, TypeOK
<1>5. CASE ListenNothing
  BY <1>5, SMTT(60) DEF ListenNothing, TypeOK
<1>6. CASE RescanNext
  BY <1>6, SMTT(60) DEF RescanNext, TypeOK
<1>7. CASE RescanLock
  BY <1>7, SMTT(60) DEF RescanLock, InitCalls, TypeOK
<1>8. CASE InitProperties
  <2>1. Tail(toInit) \in Seq({"properties", "state", "enumerate", "range"})
    BY <1>8, NonEmptySeq, SMTT(60) DEF InitProperties, TypeOK
  <2>2. rescanned \in Devices
    BY <1>8, SMTT(60) DEF InitProperties, LockInv, TypeOK
  <2>3. /\ attributes \in [Devices -> 1..MaxIncarnation]
        /\ incarnation \in [Devices -> 1..MaxIncarnation]
        /\ disabled \in [Devices -> SUBSET {"state", "range", "frequency"}]
        /\ scrapers \in [Devices -> BOOLEAN]
    BY SMTT(60) DEF TypeOK
  <2>4. /\ attributes' \in [Devices -> 1..MaxIncarnation]
        /\ disabled' \in [Devices -> SUBSET {"state", "range", "frequency"}]
        /\ scrapers' \in [Devices -> BOOLEAN]
    BY <1>8, <2>2, <2>3 DEF InitProperties
  <2>5. toInit' \in {Tail(toInit), <<>>}
    BY <1>8 DEF InitProperties
  <2>6. UNCHANGED <<environment, freqAttributes, actual, samples, listener, flags,
                    rescanned, sampling, scraping, stop>>
    BY <1>8 DEF InitProperties
  <2>7. toInit' \in Seq({"properties", "state", "enumerate", "range"})
    BY <2>1, <2>5, NoCallsSeq
  <2> QED BY <2>4, <2>6, <2>7, SMTT(60) DEF TypeOK
<1>9. CASE InitCall
  <2>1. Tail(toInit) \in Seq({"properties", "state", "enumerate", "range"})
    BY <1>9, NonEmptySeq, SMTT(60) DEF InitCall, TypeOK
  <2>2. Head(toInit) \in {"state", "range"}
    BY <1>9, NonEmptySeq, SMTT(60) DEF InitCall, TypeOK
  <2>3. rescanned \in Devices
    BY <1>9, SMTT(60) DEF InitCall, LockInv, TypeOK
  <2> QED BY <1>9, <2>1, <2>2, <2>3, SMTT(60) DEF InitCall, TypeOK
<1>10. CASE InitEnumerate
  <2>1. Tail(toInit) \in Seq({"properties", "state", "enumerate", "range"})
    BY <1>10, NonEmptySeq, SMTT(60) DEF InitEnumerate, TypeOK
  <2>2. rescanned \in Devices
    BY <1>10, SMTT(60) DEF InitEnumerate, LockInv, TypeOK
  <2> QED BY <1>10, <2>1, <2>2, SMTT(60) DEF InitEnumerate, TypeOK
<1>11. CASE RescanUnlock
  BY <1>11, SMTT(60) DEF RescanUnlock, TypeOK
<1>12. CASE SamplerTick
  BY <1>12, SMTT(60) DEF SamplerTick, TypeOK
<1>13. CASE SamplerDone
  BY <1>13, SMTT(60) DEF SamplerDone, TypeOK
<1>14. CASE SamplerLock
  BY <1>14, SMTT(60) DEF SamplerLock, TypeOK
<1>15. CASE SamplerCall
  BY <1>15, SMTT(60) DEF SamplerCall, Result, LockInv, TypeOK
<1>16. CASE SamplerNothing
  BY <1>16, SMTT(60) DEF SamplerNothing, AfterPoll, TypeOK
<1>17. CASE SamplerApply
  <2>1. /\ polled \in Devices /\ pollResult # <<>>
        /\ pollResult \in {<<>>} \cup ({"ok", "unknown", "error"} \X (1..MaxIncarnation))
        /\ actual \in [Devices -> BOOLEAN]
        /\ samples \in [Devices -> SUBSET (1..MaxIncarnation)]
        /\ \A d \in Devices : samples[d] # {} => actual[d]
    BY <1>17 DEF SamplerApply, LockInv, TypeOK
  <2>2. pollResult[2] \in 1..MaxIncarnation
    BY <2>1
  <2>3. /\ actual' = [actual EXCEPT ![polled] = pollResult[1] = "ok"]
        /\ samples' = [samples EXCEPT ![polled] =
                         IF pollResult[1] = "ok" THEN @ \cup {pollResult[2]} ELSE {}]
    BY <1>17 DEF SamplerApply
  <2>4. /\ actual' \in [Devices -> BOOLEAN]
        /\ samples' \in [Devices -> SUBSET (1..MaxIncarnation)]
        /\ \A d \in Devices : samples'[d] # {} => actual'[d]
    BY <2>1, <2>2, <2>3
  <2>5. /\ sampler' \in {"select", "pass"} /\ polled' = NoDevice /\ pollResult' = <<>>
        /\ UNCHANGED <<environment, attributes, disabled, scrapers, freqAttributes,
                       listening, toPoll, scraping, stop>>
    BY <1>17 DEF SamplerApply, AfterPoll
  <2> QED BY <2>4, <2>5, SMTT(60) DEF TypeOK
<1>18. CASE ScrapeBegin
  BY <1>18, SMTT(60) DEF ScrapeBegin, TypeOK
<1>19. CASE ScrapeLock
  <2>1. PICK d \in toScrape : /\ scraped' = d /\ toScrape' = toScrape \ {d}
                              /\ points' = {attributes[d]} /\ calls' = ScrapeCalls(d)
    BY <1>19 DEF ScrapeLock
  <2>2. calls' \in Seq({"state"} \cup FrequencyCalls)
    <3>1. d \in Devices /\ scrapers[d] \in BOOLEAN
      BY <2>1, SMTT(60) DEF TypeOK
    <3> QED BY <2>1, <3>1, ScrapeCallsType, CallsWithType
  <2>3. points' \subseteq 1..MaxIncarnation
    BY <2>1, SMTT(60) DEF TypeOK
  <2> QED BY <1>19, <2>1, <2>2, <2>3, SMTT(60) DEF ScrapeLock, TypeOK
<1>20. CASE ScrapeCall
  BY <1>20, SMTT(60) DEF ScrapeCall, Result, TypeOK
<1>21. CASE ScrapeApply
  <2>1. calls # <<>> /\ Head(calls) # "samples" /\ scraped \in Devices
    BY <1>21, SMTT(60) DEF ScrapeApply, ScrapeInv, TypeOK
  <2>2. /\ Tail(calls) \in Seq({"state"} \cup FrequencyCalls)
        /\ Head(calls) \in {"state", "range", "frequency"}
    BY <2>1, NonEmptySeq, SMTT(60) DEF FrequencyCalls, TypeOK
  <2>3. /\ attributes[scraped] \in 1..MaxIncarnation
        /\ freqAttributes[scraped] \in 1..MaxIncarnation
        /\ points \subseteq 1..MaxIncarnation
        /\ disabled \in [Devices -> SUBSET {"state", "range", "frequency"}]
    BY <2>1, SMTT(60) DEF TypeOK
  <2>4. points' \subseteq 1..MaxIncarnation
    BY <1>21, <2>3 DEF ScrapeApply
  <2>5. disabled' \in [Devices -> SUBSET {"state", "range", "frequency"}]
    BY <1>21, <2>1, <2>2, <2>3 DEF ScrapeApply
  <2>6. /\ calls' = Tail(calls) /\ callResult' = "none"
        /\ UNCHANGED <<environment, attributes, frequency, listening, sampling, toScrape,
                       scraped, stop>>
    BY <1>21 DEF ScrapeApply
  <2> QED BY <2>2, <2>4, <2>5, <2>6, SMTT(60) DEF TypeOK
<1>22. CASE ScrapeSamples
  <2>1. Tail(calls) \in Seq({"state"} \cup FrequencyCalls) /\ scraped \in Devices
    BY <1>22, NonEmptySeq, SMTT(60) DEF ScrapeSamples, ScrapeInv, TypeOK
  <2>2. /\ freqAttributes[scraped] \in 1..MaxIncarnation
        /\ points \subseteq 1..MaxIncarnation
        /\ samples \in [Devices -> SUBSET (1..MaxIncarnation)]
        /\ \A d \in Devices : samples[d] # {} => actual[d]
    BY <2>1, SMTT(60) DEF TypeOK
  <2>3. points' \subseteq 1..MaxIncarnation
    BY <1>22, <2>2 DEF ScrapeSamples
  <2>4. /\ samples' \in [Devices -> SUBSET (1..MaxIncarnation)]
        /\ \A d \in Devices : samples'[d] # {} => actual[d]
    BY <1>22, <2>1, <2>2 DEF ScrapeSamples
  <2>5. /\ calls' = Tail(calls)
        /\ UNCHANGED <<environment, attributes, disabled, scrapers, freqAttributes, actual,
                       listening, sampling, toScrape, scraped, callResult, stop>>
    BY <1>22 DEF ScrapeSamples
  <2> QED BY <2>1, <2>3, <2>4, <2>5, SMTT(60) DEF TypeOK
<1>23. CASE ScrapeUnlock
  BY <1>23, SMTT(60) DEF ScrapeUnlock, TypeOK
<1>24. ASSUME NEW c \in Components, Shutdown(c) PROVE TypeOK'
  BY <1>24, SMTT(60) DEF Shutdown, TypeOK
<1>25. CASE UNCHANGED vars
  BY <1>25, SMTT(60) DEF vars, TypeOK
<1> QED BY <1>1, <1>2, <1>3, <1>4, <1>5, <1>6, <1>7, <1>8, <1>9, <1>10, <1>11, <1>12,
           <1>13, <1>14, <1>15, <1>16, <1>17, <1>18, <1>19, <1>20, <1>21, <1>22,
           <1>23, <1>24, <1>25
        DEF Next, Listen, Sample, Scrape, Terminated

(* Every step keeps the discipline of the lock.                            *)
LEMMA LockStep == TypeOK /\ LockInv /\ [Next]_vars => LockInv'
<1> SUFFICES ASSUME TypeOK, LockInv, [Next]_vars PROVE LockInv'
  OBVIOUS
<1>0. /\ NoDevice \notin Devices /\ flags \subseteq Devices /\ toPoll \subseteq Devices
      /\ toScrape \subseteq Devices
  BY SysmanAssumption DEF TypeOK
<1> USE <1>0 DEF LockInv, listening, sampling, scraping
<1>1. CASE UNCHANGED <<listening, sampling, scraped>>
  BY <1>1
<1>2. CASE ListenCheck
  BY <1>2 DEF ListenCheck
<1>3. CASE ListenEvents
  BY <1>3 DEF ListenEvents
<1>4. CASE ListenNothing
  BY <1>4 DEF ListenNothing
<1>5. CASE RescanNext
  BY <1>5 DEF RescanNext
<1>6. CASE RescanLock
  BY <1>6 DEF RescanLock, ReadLocked
<1>7. CASE InitProperties
  BY <1>7, InitCallsLeft DEF InitProperties
<1>8. CASE InitCall
  BY <1>8, InitCallsLeft DEF InitCall
<1>9. CASE InitEnumerate
  BY <1>9, InitCallsLeft DEF InitEnumerate
<1>10. CASE RescanUnlock
  BY <1>10 DEF RescanUnlock
<1>11. CASE SamplerTick
  BY <1>11 DEF SamplerTick
<1>12. CASE SamplerDone
  BY <1>12 DEF SamplerDone
<1>13. CASE SamplerLock
  BY <1>13 DEF SamplerLock, WriteLocked
<1>14. CASE SamplerCall
  BY <1>14 DEF SamplerCall
<1>15. CASE SamplerNothing
  BY <1>15 DEF SamplerNothing, AfterPoll
<1>16. CASE SamplerApply
  BY <1>16 DEF SamplerApply, AfterPoll
<1>17. CASE ScrapeLock
  BY <1>17 DEF ScrapeLock, WriteLocked
<1>18. CASE ScrapeUnlock
  BY <1>18 DEF ScrapeUnlock
<1>19. ASSUME NEW d \in Devices, Detach(d) \/ Attach(d) PROVE LockInv'
  BY <1>19, <1>1 DEF Detach, Attach
<1>20. CASE ScrapeBegin \/ ScrapeCall \/ ScrapeApply \/ ScrapeSamples
  BY <1>20, <1>1 DEF ScrapeBegin, ScrapeCall, ScrapeApply, ScrapeSamples
<1>21. ASSUME NEW c \in Components, Shutdown(c) PROVE LockInv'
  BY <1>21, <1>1 DEF Shutdown
<1>22. CASE UNCHANGED vars
  BY <1>22, <1>1 DEF vars
<1> QED BY <1>2, <1>3, <1>4, <1>5, <1>6, <1>7, <1>8, <1>9, <1>10, <1>11, <1>12, <1>13,
           <1>14, <1>15, <1>16, <1>17, <1>18, <1>19, <1>20, <1>21, <1>22
        DEF Next, Listen, Sample, Scrape, Terminated

(* What a reader of a device sees of it is not changed under it: only      *)
(* init() changes the attributes and the scrapers, and only of rescanned.  *)
LEMMA ReadersStable ==
  ASSUME TypeOK, LockInv, [Next]_vars, NEW d \in Devices,
         listener # "init" \/ rescanned # d
  PROVE  /\ attributes'[d] = attributes[d] /\ scrapers'[d] = scrapers[d]
         /\ freqAttributes'[d] = freqAttributes[d]
<1> USE DEF environment, frequency, device, TypeOK
<1>1. CASE InitProperties
  BY <1>1 DEF InitProperties
<1>2. CASE InitEnumerate
  BY <1>2 DEF InitEnumerate
<1>3. CASE UNCHANGED <<attributes, scrapers, freqAttributes>>
  BY <1>3
<1>4. CASE Scrape \/ Sample \/ ScrapeBegin
  BY <1>3, <1>4 DEF Scrape, Sample, SamplerTick, SamplerDone, SamplerLock, SamplerCall,
                    SamplerNothing, SamplerApply, ScrapeBegin, ScrapeLock, ScrapeCall,
                    ScrapeApply, ScrapeSamples, ScrapeUnlock
<1>5. CASE \/ ListenCheck \/ ListenEvents \/ ListenNothing \/ RescanNext \/ RescanLock
           \/ InitCall \/ RescanUnlock
  BY <1>3, <1>5 DEF ListenCheck, ListenEvents, ListenNothing, RescanNext, RescanLock,
                    InitCall, RescanUnlock
<1>6. CASE \/ \E e \in Devices : Detach(e) \/ Attach(e)
           \/ \E c \in Components : Shutdown(c)
           \/ UNCHANGED vars
  BY <1>3, <1>6 DEF Detach, Attach, Shutdown, vars
<1> QED BY <1>1, <1>2, <1>4, <1>5, <1>6 DEF Next, Listen, Terminated

(* Every step keeps a scrape to its device's attributes.                   *)
LEMMA ScrapeStep ==
  TypeOK /\ LockInv /\ ScrapeInv /\ SampleInv /\ [Next]_vars => ScrapeInv'
<1> SUFFICES ASSUME TypeOK, LockInv, ScrapeInv, SampleInv, [Next]_vars PROVE ScrapeInv'
  OBVIOUS
<1>0. NoDevice \notin Devices /\ toScrape \subseteq Devices
  BY SysmanAssumption DEF TypeOK
<1>1. ASSUME scraped # NoDevice
      PROVE  /\ scraped \in Devices
             /\ attributes'[scraped] = attributes[scraped]
             /\ scrapers'[scraped] = scrapers[scraped]
             /\ scrapers[scraped] => freqAttributes[scraped] = attributes[scraped]
  BY <1>1, ReadersStable DEF TypeOK, LockInv, SampleInv
<1>2. CASE UNCHANGED <<scraped, calls, callResult, points>>
  BY <1>1, <1>2 DEF ScrapeInv
<1>3. CASE ScrapeLock
  <2>1. PICK d \in toScrape : /\ scraped' = d /\ ~WriteLocked(d)
                              /\ points' = {attributes[d]} /\ calls' = ScrapeCalls(d)
    BY <1>3 DEF ScrapeLock
  <2>2. calls' \in Seq(CallsWith(scrapers[d]))
    BY <1>0, <2>1, ScrapeCallsType
  <2>3. UNCHANGED <<callResult, attributes, scrapers>> /\ scraped = NoDevice
    BY <1>3 DEF ScrapeLock, device, frequency
  <2> QED BY <1>0, <2>1, <2>2, <2>3 DEF ScrapeInv
<1>4. CASE ScrapeCall
  <2>1. scraped # NoDevice
    BY <1>4 DEF ScrapeCall, ScrapeInv
  <2> QED BY <1>1, <1>4, <2>1 DEF ScrapeCall, ScrapeInv
<1>5. CASE ScrapeApply
  <2>1. scraped # NoDevice /\ calls # <<>> /\ calls \in Seq(CallsWith(scrapers[scraped]))
    BY <1>5 DEF ScrapeApply, ScrapeInv
  <2>2. /\ Head(calls) \in CallsWith(scrapers[scraped])
        /\ Tail(calls) \in Seq(CallsWith(scrapers[scraped]))
    BY <2>1, NonEmptySeq
  <2>3. Head(calls) \in FrequencyCalls => freqAttributes[scraped] = attributes[scraped]
    BY <1>1, <2>1, <2>2 DEF CallsWith
  <2>4. points' \subseteq {attributes[scraped]}
    BY <1>5, <2>1, <2>3 DEF ScrapeApply, ScrapeInv
  <2>5. calls' = Tail(calls) /\ callResult' = "none" /\ scraped' = scraped
    BY <1>5 DEF ScrapeApply
  <2> QED BY <1>1, <2>1, <2>2, <2>4, <2>5 DEF ScrapeInv
<1>6. CASE ScrapeSamples
  <2>1. scraped # NoDevice /\ calls # <<>> /\ calls \in Seq(CallsWith(scrapers[scraped]))
    BY <1>6 DEF ScrapeSamples, ScrapeInv
  <2>2. /\ Head(calls) \in CallsWith(scrapers[scraped])
        /\ Tail(calls) \in Seq(CallsWith(scrapers[scraped]))
    BY <2>1, NonEmptySeq
  <2>3. freqAttributes[scraped] = attributes[scraped]
    BY <1>1, <1>6, <2>1, <2>2 DEF CallsWith, FrequencyCalls, ScrapeSamples
  <2>4. points' \subseteq {attributes[scraped]}
    BY <1>6, <2>1, <2>3 DEF ScrapeSamples, ScrapeInv
  <2>5. callResult = "none"
    BY <1>6 DEF ScrapeSamples, ScrapeInv
  <2>6. calls' = Tail(calls) /\ UNCHANGED <<scraped, callResult>>
    BY <1>6 DEF ScrapeSamples
  <2> QED BY <1>1, <2>1, <2>2, <2>4, <2>5, <2>6 DEF ScrapeInv
<1>7. CASE ScrapeUnlock
  <2>1. callResult = "none"
    BY <1>7 DEF ScrapeUnlock, ScrapeInv
  <2> QED BY <1>7, <2>1 DEF ScrapeUnlock, ScrapeInv
<1>8. CASE Listen
  BY <1>2, <1>8 DEF scraping, Listen, ListenCheck, ListenEvents, ListenNothing, RescanNext,
                    RescanLock, InitProperties, InitCall, InitEnumerate, RescanUnlock
<1>9. CASE Sample \/ ScrapeBegin
  BY <1>2, <1>9 DEF scraping, Sample, SamplerTick, SamplerDone, SamplerLock, SamplerCall,
                    SamplerNothing, SamplerApply, ScrapeBegin
<1>10. CASE \/ \E e \in Devices : Detach(e) \/ Attach(e)
            \/ \E c \in Components : Shutdown(c)
            \/ UNCHANGED vars
  BY <1>2, <1>10 DEF scraping, Detach, Attach, Shutdown, vars
<1> QED BY <1>3, <1>4, <1>5, <1>6, <1>7, <1>8, <1>9, <1>10
        DEF Next, Scrape, Terminated

(* Every step keeps the samples of a device not older than its attributes. *)
LEMMA SampleStep == TypeOK /\ LockInv /\ SampleInv /\ [Next]_vars => SampleInv'
<1> SUFFICES ASSUME TypeOK, LockInv, SampleInv, [Next]_vars PROVE SampleInv'
  OBVIOUS
<1> DEFINE Fresh(d) ==
      /\ scrapers[d] => /\ freqAttributes[d] = attributes[d]
                        /\ \A s \in samples[d] : s >= freqAttributes[d]
      /\ attributes[d] <= incarnation[d] /\ freqAttributes[d] <= incarnation[d]
<1>0. /\ NoDevice \notin Devices
      /\ incarnation \in [Devices -> 1..MaxIncarnation]
      /\ attributes \in [Devices -> 1..MaxIncarnation]
      /\ freqAttributes \in [Devices -> 1..MaxIncarnation]
      /\ scrapers \in [Devices -> BOOLEAN]
      /\ samples \in [Devices -> SUBSET (1..MaxIncarnation)]
      /\ MaxIncarnation \in Nat
  BY SysmanAssumption DEF TypeOK
<1>1. ASSUME NEW d \in Devices PROVE Fresh(d)
  BY DEF SampleInv, NoSamplesOfEarlierDevice
<1>2. ASSUME polled # NoDevice
      PROVE  polled \in Devices /\ freqAttributes'[polled] = freqAttributes[polled]
  BY <1>2, ReadersStable DEF TypeOK, LockInv
<1>3. SUFFICES /\ \A d \in Devices : Fresh(d)'
               /\ (polled # NoDevice /\ pollResult # <<>> =>
                     pollResult[2] >= freqAttributes[polled])'
  BY DEF SampleInv, NoSamplesOfEarlierDevice
<1>4. CASE /\ UNCHANGED <<incarnation, attributes, scrapers, freqAttributes, samples>>
           /\ polled' = NoDevice \/ UNCHANGED <<polled, pollResult>>
  BY <1>1, <1>2, <1>4 DEF SampleInv
<1>5. ASSUME NEW e \in Devices, Attach(e)
      PROVE  /\ \A d \in Devices : Fresh(d)'
             /\ (polled # NoDevice /\ pollResult # <<>> =>
                   pollResult[2] >= freqAttributes[polled])'
  <2>1. PICK i \in incarnation[e]..MaxIncarnation :
          incarnation' = [incarnation EXCEPT ![e] = i]
    BY <1>5 DEF Attach
  <2>2. i >= incarnation[e] /\ i \in Nat
    BY <1>0
  <2>3. \A d \in Devices : incarnation'[d] \in Nat /\ incarnation'[d] >= incarnation[d]
    BY <1>0, <2>1, <2>2
  <2>4. UNCHANGED <<attributes, scrapers, freqAttributes, samples, polled, pollResult>>
    BY <1>5 DEF Attach, device, frequency, sampling
  <2>5. ASSUME NEW d \in Devices PROVE Fresh(d)'
    <3>1. /\ attributes[d] \in Nat /\ freqAttributes[d] \in Nat /\ incarnation[d] \in Nat
          /\ incarnation'[d] \in Nat /\ incarnation'[d] >= incarnation[d]
      BY <1>0, <2>3
    <3> QED BY <1>1, <2>4, <3>1
  <2> QED BY <1>2, <2>4, <2>5 DEF SampleInv
<1>6. CASE InitProperties
  <2>1. ASSUME NEW d \in Devices PROVE Fresh(d)'
    <3>1. UNCHANGED <<incarnation, freqAttributes, samples>>
      BY <1>6 DEF InitProperties, environment
    <3>2. \/ attributes'[d] = attributes[d] /\ scrapers'[d] = scrapers[d]
          \/ attributes'[d] = incarnation[d] /\ scrapers'[d] = FALSE
      BY <1>0, <1>6 DEF InitProperties
    <3>3. incarnation[d] \in Nat
      BY <1>0
    <3> QED BY <1>1, <3>1, <3>2, <3>3
  <2>2. UNCHANGED <<polled, pollResult>>
    BY <1>6 DEF InitProperties, sampling
  <2> QED BY <1>2, <2>1, <2>2 DEF SampleInv
<1>7. CASE InitEnumerate
  <2>1. \A d \in Devices : Fresh(d)'
    BY <1>0, <1>1, <1>7 DEF InitEnumerate, environment
  <2>2. UNCHANGED <<polled, pollResult>>
    BY <1>7 DEF InitEnumerate, sampling
  <2> QED BY <1>2, <2>1, <2>2 DEF SampleInv
<1>8. CASE SamplerLock
  <2>1. pollResult' = <<>>
    BY <1>8 DEF SamplerLock, LockInv
  <2> QED BY <1>1, <1>8, <2>1 DEF SamplerLock, environment, device, frequency
<1>9. CASE SamplerCall
  <2>1. polled \in Devices /\ pollResult'[2] = incarnation[polled]
    BY <1>9 DEF SamplerCall, LockInv, TypeOK
  <2>2. pollResult'[2] >= freqAttributes'[polled]
    BY <1>0, <1>1, <1>2, <2>1
  <2> QED BY <1>1, <1>9, <2>2 DEF SamplerCall, environment, device, frequency
<1>10. CASE SamplerApply
  <2>1. polled \in Devices /\ pollResult # <<>> /\ pollResult[2] >= freqAttributes[polled]
    BY <1>10 DEF SamplerApply, LockInv, TypeOK, SampleInv
  <2>2. \A d \in Devices : Fresh(d)'
    BY <1>0, <1>1, <1>10, <2>1 DEF SamplerApply, environment
  <2> QED BY <1>10, <2>2 DEF SamplerApply
<1>11. CASE ScrapeSamples
  <2>1. \A d \in Devices : Fresh(d)'
    BY <1>0, <1>1, <1>11 DEF ScrapeSamples, environment
  <2>2. UNCHANGED <<polled, pollResult>>
    BY <1>11 DEF ScrapeSamples, sampling
  <2> QED BY <1>2, <2>1, <2>2 DEF SampleInv
<1>12. CASE SamplerTick \/ SamplerDone \/ SamplerNothing \/ ScrapeBegin
  BY <1>4, <1>12 DEF environment, device, frequency, sampling, SamplerTick, SamplerDone,
                     SamplerNothing, ScrapeBegin
<1>13. CASE ScrapeLock \/ ScrapeCall \/ ScrapeApply \/ ScrapeUnlock
  BY <1>4, <1>13 DEF environment, device, frequency, sampling, ScrapeLock, ScrapeCall,
                     ScrapeApply, ScrapeUnlock
<1>14. CASE \/ ListenCheck \/ ListenEvents \/ ListenNothing \/ RescanNext \/ RescanLock
            \/ InitCall \/ RescanUnlock
  BY <1>4, <1>14 DEF environment, device, frequency, sampling, ListenCheck, ListenEvents,
                     ListenNothing, RescanNext, RescanLock, InitCall, RescanUnlock
<1>15. CASE \/ \E e \in Devices : Detach(e)
            \/ \E c \in Components : Shutdown(c)
            \/ UNCHANGED vars
  BY <1>4, <1>15 DEF environment, device, frequency, sampling, Detach, Shutdown, vars
<1> QED BY <1>5, <1>6, <1>7, <1>8, <1>9, <1>10, <1>11, <1>12, <1>13, <1>14, <1>15
        DEF Next, Listen, Sample, Scrape, Terminated

(* Every step keeps the way back open for a device that was attached.      *)
LEMMA RecoverStep ==
  TypeOK /\ LockInv /\ ScrapeInv /\ RecoverInv /\ [Next]_vars => RecoverInv'
<1> SUFFICES ASSUME TypeOK, LockInv, ScrapeInv, RecoverInv, [Next]_vars PROVE RecoverInv'
  OBVIOUS
<1> DEFINE Monitored(d) == /\ attributes[d] = incarnation[d] /\ disabled[d] = {}
                           /\ scrapers[d] /\ (actual[d] \/ d \in unknown)
           ListenerOK == listener = "init" => Pending(rescanned) \/ Restored(rescanned)
           ScrapeOK == scraped # NoDevice /\ callResult = "error" =>
                         Pending(scraped) \/ scraped \in flags
           PollOK == polled # NoDevice /\ pollResult # <<>> =>
                       /\ pollResult[1] = "error" => Pending(polled) \/ polled \in flags
                       /\ pollResult[1] = "unknown" => polled \in unknown
<1>0. /\ NoDevice \notin Devices
      /\ present \in [Devices -> BOOLEAN] 
      /\ disabled \in [Devices -> SUBSET {"state", "range", "frequency"}]
      /\ attributes \in [Devices -> 1..MaxIncarnation] /\ scrapers \in [Devices -> BOOLEAN]
      /\ incarnation \in [Devices -> 1..MaxIncarnation] /\ actual \in [Devices -> BOOLEAN]
      /\ flags \subseteq Devices /\ events \subseteq Devices /\ rescanned \in Devices \cup {NoDevice}
      /\ scraped \in Devices \cup {NoDevice} /\ polled \in Devices \cup {NoDevice}
  BY SysmanAssumption DEF TypeOK
<1>1. /\ \A d \in Devices : Monitored(d) \/ Pending(d) \/ d \in flags
      /\ ListenerOK /\ ScrapeOK /\ PollOK
  BY DEF RecoverInv, AttachRecovers, Pending
<1>2. SUFFICES /\ (\A d \in Devices : Monitored(d) \/ Pending(d) \/ d \in flags)'
               /\ ListenerOK' /\ ScrapeOK' /\ PollOK'
  BY DEF RecoverInv, AttachRecovers, Pending
<1> USE DEF Pending
<1>3. CASE /\ UNCHANGED <<environment, device, flags>>
           /\ \/ listener' # "init"
              \/ UNCHANGED <<listener, rescanned, toInit>>
           /\ callResult' = "none" \/ scraped' = NoDevice \/ UNCHANGED <<scraped, callResult>>
           /\ pollResult' = <<>> \/ polled' = NoDevice \/ UNCHANGED <<polled, pollResult>>
  <2>1. (\A d \in Devices : Monitored(d) \/ Pending(d) \/ d \in flags)'
    BY <1>1, <1>3 DEF environment, device, frequency
  <2>2. ListenerOK'
    BY <1>1, <1>3 DEF environment, device, frequency, Restored
  <2>3. ScrapeOK' /\ PollOK'
    BY <1>1, <1>3 DEF environment
  <2> QED BY <2>1, <2>2, <2>3
<1>4. CASE ListenCheck \/ ListenNothing \/ RescanNext
  BY <1>3, <1>4 DEF ListenCheck, ListenNothing, RescanNext, sampling, scraping
<1>5. CASE RescanUnlock
  <2>1. UNCHANGED <<environment, device, sampling, scraping>> /\ flags' = flags \ {rescanned}
    BY <1>5 DEF RescanUnlock
  <2>2. /\ listener = "init" /\ toInit = <<>> /\ listener' # "init"
        /\ scraped # rescanned /\ polled # rescanned /\ rescanned \in Devices
    BY <1>0, <1>5 DEF RescanUnlock, LockInv
  <2>3. Monitored(rescanned) \/ Pending(rescanned)
    BY <1>1, <2>2 DEF Restored, InitCalls
  <2>4. (\A d \in Devices : Monitored(d) \/ Pending(d) \/ d \in flags)'
    BY <1>1, <2>1, <2>3 DEF environment, device, frequency
  <2> QED BY <1>1, <2>1, <2>2, <2>4 DEF environment, sampling, scraping
<1>6. CASE SamplerTick \/ SamplerDone \/ SamplerNothing \/ ScrapeBegin
  <2>1. CASE SamplerTick \/ SamplerDone
    BY <1>3, <2>1 DEF SamplerTick, SamplerDone, listening, scraping
  <2>2. CASE SamplerNothing
    BY <1>3, <2>2 DEF SamplerNothing, listening, scraping
  <2>3. CASE ScrapeBegin
    BY <1>3, <2>3 DEF ScrapeBegin, listening, sampling
  <2> QED BY <1>6, <2>1, <2>2, <2>3
<1>7. CASE SamplerLock
  <2>1. pollResult' = <<>>
    BY <1>7 DEF SamplerLock, LockInv
  <2> QED BY <1>3, <1>7, <2>1 DEF SamplerLock, listening, scraping
<1>8. CASE ScrapeLock
  <2>1. callResult' = "none"
    BY <1>8 DEF ScrapeLock, ScrapeInv
  <2> QED BY <1>3, <1>8, <2>1 DEF ScrapeLock, listening, sampling
<1>9. CASE ScrapeUnlock
  BY <1>3, <1>9 DEF ScrapeUnlock, listening, sampling
<1>10. ASSUME NEW c \in Components, Shutdown(c)
       PROVE  /\ (\A d \in Devices : Monitored(d) \/ Pending(d) \/ d \in flags)'
              /\ ListenerOK' /\ ScrapeOK' /\ PollOK'
  BY <1>3, <1>10 DEF Shutdown, listening, sampling, scraping
<1>11. CASE UNCHANGED vars
  BY <1>3, <1>11 DEF vars, listening, sampling, scraping
<1>12. ASSUME NEW e \in Devices, Detach(e)
       PROVE  /\ (\A d \in Devices : Monitored(d) \/ Pending(d) \/ d \in flags)'
              /\ ListenerOK' /\ ScrapeOK' /\ PollOK'
  <2>1. /\ UNCHANGED <<incarnation, events, unknown, device, listening, sampling, scraping>>
        /\ \A d \in Devices : present'[d] => present[d]
    BY <1>0, <1>12 DEF Detach
  <2>2. (\A d \in Devices : Monitored(d) \/ Pending(d) \/ d \in flags)'
    BY <1>1, <2>1 DEF device, frequency, listening
  <2>3. ListenerOK'
    BY <1>0, <1>1, <2>1 DEF device, frequency, listening, Restored, LockInv
  <2>4. ScrapeOK' /\ PollOK'
    BY <1>0, <1>1, <2>1 DEF listening, sampling, scraping
  <2> QED BY <2>2, <2>3, <2>4
<1>13. ASSUME NEW e \in Devices, Attach(e)
       PROVE  /\ (\A d \in Devices : Monitored(d) \/ Pending(d) \/ d \in flags)'
              /\ ListenerOK' /\ ScrapeOK' /\ PollOK'
  <2>1. /\ UNCHANGED <<unknown, device, listening, sampling, scraping>>
        /\ events' = events \cup {e}
        /\ \A d \in Devices \ {e} : present'[d] = present[d] /\ incarnation'[d] = incarnation[d]
    BY <1>0, <1>13 DEF Attach
  <2>2. (\A d \in Devices : Monitored(d) \/ Pending(d) \/ d \in flags)'
    BY <1>1, <2>1 DEF device, frequency, listening
  <2>3. ListenerOK'
    BY <1>0, <1>1, <2>1 DEF device, frequency, listening, Restored, LockInv
  <2>4. ScrapeOK' /\ PollOK'
    BY <1>0, <1>1, <2>1 DEF listening, sampling, scraping
  <2> QED BY <2>2, <2>3, <2>4
<1>14. CASE ListenEvents
  <2>1. /\ UNCHANGED <<present, incarnation, unknown, device, sampling, scraping>>
        /\ flags = {} /\ flags' = events /\ events' = {} /\ listener' = "rescan"
    BY <1>14 DEF ListenEvents, LockInv
  <2>2. (\A d \in Devices : Monitored(d) \/ Pending(d) \/ d \in flags)'
    BY <1>1, <2>1 DEF device, frequency
  <2> QED BY <1>1, <2>1, <2>2 DEF sampling, scraping
<1>15. CASE RescanLock
  <2>1. /\ UNCHANGED <<environment, device, flags, rescanned, sampling, scraping>>
        /\ toInit' = InitCalls
    BY <1>15 DEF RescanLock
  <2>2. ListenerOK'
    BY <2>1 DEF Restored, InitCalls
  <2> QED BY <1>1, <2>1, <2>2 DEF environment, device, frequency, sampling, scraping
<1>16. CASE InitProperties
  <2>1. /\ UNCHANGED <<environment, actual, flags, rescanned, sampling, scraping, listener>>
        /\ rescanned \in flags /\ rescanned \in Devices
        /\ scraped # rescanned /\ polled # rescanned
    BY <1>0, <1>16 DEF InitProperties, LockInv
  <2>2. \A d \in Devices \ {rescanned} :
          /\ attributes'[d] = attributes[d] /\ disabled'[d] = disabled[d]
          /\ scrapers'[d] = scrapers[d]
    BY <1>0, <1>16 DEF InitProperties
  <2>3. (\A d \in Devices : Monitored(d) \/ Pending(d) \/ d \in flags)'
    BY <1>1, <2>1, <2>2 DEF environment
  <2>4. ListenerOK'
    <3>1. CASE present[rescanned]
      <4>1. toInit = InitCalls
        BY <1>16, InitCallsLeft DEF InitProperties, LockInv
      <4>2. toInit' = <<"state", "enumerate", "range">>
        BY <1>16, <3>1, <4>1, InitCallsLeft DEF InitProperties
      <4>3. attributes'[rescanned] = incarnation'[rescanned] /\ disabled'[rescanned] = {}
        BY <1>0, <1>16, <2>1, <3>1 DEF InitProperties, environment
      <4> QED BY <2>1, <4>2, <4>3 DEF Restored
    <3>2. CASE ~present[rescanned]
      BY <2>1, <3>2 DEF environment
    <3> QED BY <3>1, <3>2
  <2> QED BY <1>1, <2>1, <2>3, <2>4 DEF environment, sampling, scraping
<1>17. CASE InitCall
  <2>1. /\ UNCHANGED <<environment, attributes, frequency, listener, flags, rescanned,
                       sampling, scraping>>
        /\ listener = "init" /\ rescanned \in flags /\ rescanned \in Devices
        /\ scraped # rescanned /\ polled # rescanned
    BY <1>0, <1>17 DEF InitCall, LockInv
  <2>2. /\ \A d \in Devices \ {rescanned} : disabled'[d] = disabled[d]
        /\ present[rescanned] => disabled'[rescanned] = disabled[rescanned]
    BY <1>0, <1>17 DEF InitCall
  <2>3. (\A d \in Devices : Monitored(d) \/ Pending(d) \/ d \in flags)'
    BY <1>1, <2>1, <2>2 DEF environment, frequency
  <2>4. /\ toInit # InitCalls
        /\ toInit' \in {<<"range">>, <<>>} => toInit \in {<<"range">>, <<>>}
    <3>1. /\ toInit \in {<<"state", "enumerate", "range">>, <<"range">>}
          /\ toInit' = Tail(toInit) /\ toInit # InitCalls
      BY <1>17, InitCallsLeft DEF InitCall, LockInv
    <3>2. /\ <<"enumerate", "range">> # <<"range">>
          /\ <<"enumerate", "range">> # <<>>
      OBVIOUS
    <3> QED BY <3>1, <3>2, InitCallsLeft
  <2>5. ListenerOK'
    BY <1>1, <2>1, <2>2, <2>4 DEF environment, frequency, Restored
  <2> QED BY <1>1, <2>1, <2>3, <2>5 DEF environment, sampling, scraping
<1>18. CASE InitEnumerate
  <2>1. /\ UNCHANGED <<environment, attributes, disabled, listener, flags, rescanned,
                       sampling, scraping>>
        /\ listener = "init" /\ rescanned \in flags /\ rescanned \in Devices
        /\ scraped # rescanned /\ polled # rescanned
    BY <1>0, <1>18 DEF InitEnumerate, LockInv
  <2>2. /\ \A d \in Devices \ {rescanned} :
             scrapers'[d] = scrapers[d] /\ actual'[d] = actual[d]
        /\ scrapers'[rescanned] = present[rescanned]
        /\ actual'[rescanned] = present[rescanned]
    BY <1>0, <2>1, <1>18 DEF InitEnumerate
  <2>3. (\A d \in Devices : Monitored(d) \/ Pending(d) \/ d \in flags)'
    BY <1>1, <2>1, <2>2 DEF environment
  <2>4. toInit # InitCalls
    BY <1>18, InitCallsLeft DEF InitEnumerate
  <2>5. ListenerOK'
    BY <1>1, <2>1, <2>2, <2>4 DEF environment, Restored
  <2> QED BY <1>1, <2>1, <2>3, <2>5 DEF environment, sampling, scraping
<1>19. CASE SamplerCall
  <2>1. UNCHANGED <<environment, device, listening, polled, scraping>>
    BY <1>19 DEF SamplerCall
  <2>2. pollResult' = <<IF present[polled] /\ polled \in unknown THEN "unknown"
                         ELSE Result(polled), incarnation[polled]>>
    BY <1>19 DEF SamplerCall
  <2>3. pollResult'[1] = IF present[polled] /\ polled \in unknown THEN "unknown"
                         ELSE IF present[polled] THEN "ok" ELSE "error"
    BY <2>2 DEF Result
  <2>4. PollOK'
    BY <2>1, <2>3 DEF environment
  <2>5. (\A d \in Devices : Monitored(d) \/ Pending(d) \/ d \in flags)'
    BY <1>1, <2>1 DEF environment, device, frequency, listening
  <2>6. ListenerOK' /\ ScrapeOK'
    BY <1>1, <2>1 DEF environment, device, frequency, listening, scraping, Restored
  <2> QED BY <2>4, <2>5, <2>6
<1>20. CASE SamplerApply
  <2>1. /\ UNCHANGED <<environment, attributes, disabled, scrapers, listening, scraping>>
        /\ polled' = NoDevice /\ actual' = [actual EXCEPT ![polled] = pollResult[1] = "ok"]
        /\ polled # NoDevice /\ pollResult # <<>> /\ polled \in Devices
    BY <1>0, <1>20 DEF SamplerApply, LockInv
  <2>2. pollResult[1] \in {"ok", "unknown", "error"}
    BY <2>1 DEF TypeOK
  <2>3. /\ \A d \in Devices \ {polled} : actual'[d] = actual[d]
        /\ actual'[polled] \/ polled \in unknown \/ Pending(polled) \/ polled \in flags
    BY <1>0, <1>1, <2>1, <2>2
  <2>4. (\A d \in Devices : Monitored(d) \/ Pending(d) \/ d \in flags)'
    BY <1>1, <2>1, <2>3 DEF environment, listening
  <2>5. listener = "init" => polled # rescanned /\ rescanned \in Devices
    BY <1>0 DEF LockInv
  <2>6. ListenerOK'
    BY <1>1, <2>1, <2>3, <2>5 DEF environment, listening, Restored
  <2> QED BY <1>1, <2>1, <2>4, <2>6 DEF environment, listening, scraping
<1>21. CASE ScrapeCall
  <2>1. /\ UNCHANGED <<environment, device, listening, sampling, scraped>>
        /\ callResult' = "error" => ~present[scraped]
    BY <1>21 DEF ScrapeCall, Result
  <2>2. (\A d \in Devices : Monitored(d) \/ Pending(d) \/ d \in flags)'
    BY <1>1, <2>1 DEF environment, device, frequency, listening
  <2>3. ListenerOK' /\ PollOK'
    BY <1>1, <2>1 DEF environment, device, frequency, listening, sampling, Restored
  <2> QED BY <2>1, <2>2, <2>3 DEF environment
<1>22. CASE ScrapeApply
  <2>1. /\ UNCHANGED <<environment, attributes, frequency, listening, sampling, scraped>>
        /\ callResult' = "none" /\ scraped # NoDevice /\ scraped \in Devices
    BY <1>0, <1>22 DEF ScrapeApply, ScrapeInv
  <2>2. /\ \A d \in Devices \ {scraped} : disabled'[d] = disabled[d]
        /\ disabled'[scraped] = disabled[scraped] \/ Pending(scraped) \/ scraped \in flags
    BY <1>0, <1>1, <1>22, <2>1 DEF ScrapeApply
  <2>3. (\A d \in Devices : Monitored(d) \/ Pending(d) \/ d \in flags)'
    BY <1>1, <2>1, <2>2 DEF environment, frequency, listening
  <2>4. listener = "init" => scraped # rescanned /\ rescanned \in Devices
    BY <1>0 DEF LockInv
  <2>5. ListenerOK'
    BY <1>1, <2>1, <2>2, <2>4 DEF environment, frequency, listening, Restored
  <2> QED BY <1>1, <2>1, <2>3, <2>5 DEF environment, listening, sampling
<1>23. CASE ScrapeSamples
  <2>1. UNCHANGED <<environment, attributes, disabled, scrapers, actual, listening, sampling,
                    scraped, callResult>>
    BY <1>23 DEF ScrapeSamples
  <2>2. (\A d \in Devices : Monitored(d) \/ Pending(d) \/ d \in flags)'
    BY <1>1, <2>1 DEF environment, listening
  <2>3. ListenerOK'
    BY <1>1, <2>1 DEF environment, listening, Restored
  <2> QED BY <1>1, <2>1, <2>2, <2>3 DEF environment, listening, sampling
<1> QED BY <1>4, <1>5, <1>6, <1>7, <1>8, <1>9, <1>10, <1>11, <1>12, <1>13, <1>14, <1>15,
           <1>16, <1>17, <1>18, <1>19, <1>20, <1>21, <1>22, <1>23
        DEF Next, Listen, Sample, Scrape, Terminated

-----------------------------------------------------------------------------
(* Theorems *)

(* IInv holds in every reachable state.                                    *)
THEOREM Invariance == Spec => []IInv
<1>1. IInv /\ [Next]_vars => IInv'
  BY TypeStep, LockStep, ScrapeStep, SampleStep, RecoverStep DEF IInv
<1> QED BY InitIInv, <1>1, PTL DEF Spec

(* scrape(): the data points of a device in one scrape describe one device *)
(* although runEventListener() replaces its attributes at any time.        *)
THEOREM ScrapeIsCoherent == Spec => []ScrapeCoherent
<1>1. IInv => ScrapeCoherent
  BY DEF IInv, ScrapeInv, ScrapeCoherent
<1> QED BY Invariance, <1>1, PTL

(* A device that was attached again and scanned has its own attributes and *)
(* no metric disabled, whatever results of earlier calls were acted on.    *)
THEOREM AttachedDeviceRecovers == Spec => []AttachRecovers
<1>1. IInv => AttachRecovers
  BY DEF IInv, RecoverInv
<1> QED BY Invariance, <1>1, PTL

(* collect() never reports the samples runSampler() took of an earlier     *)
(* device as those of the one attached in its place.                       *)
THEOREM SamplesAreOfThisDevice == Spec => []NoSamplesOfEarlierDevice
<1>1. IInv => NoSamplesOfEarlierDevice
  BY DEF IInv, SampleInv
<1> QED BY Invariance, <1>1, PTL
=============================================================================
