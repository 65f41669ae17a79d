----------------------------- MODULE DumpCommand -----------------------------
(***************************************************************************)
(* xpu-smi dump and xpu-smi --query-gpu: the sampling loops of             *)
(* ial/cmn/cmd_dump.cpp on one device, the cache of counter snapshots that *)
(* turns two readings into a rate (ial/cmn/metrics_registry.cpp and        *)
(* metrics/*.cpp), and the thread that waits for a key (getch() and        *)
(* restoreTerminal() of oal/lin/lin.cpp).                                  *)
(*                                                                         *)
(* A counter counts one event per tick of the device's clock, the memory   *)
(* counter of each of two modules as well, so a rate is a number of ticks. *)
(* The clock starts at 1: the code takes timestamp 0 for "no reading".     *)
(* Times are in intervals. The engine groups behave alike, and so do both  *)
(* energy domains and both directions of a link or a memory: one of each   *)
(* is modelled. Metrics read without a cache keep no state and are left    *)
(* out, as is the layout of a row.                                         *)
(***************************************************************************)
EXTENDS Integers, FiniteSets

CONSTANTS
  DumpLines,      \* command lines, see DumpLine
  CounterBits,    \* the width of a counter, 64 in the code
  MaxDumpRows,    \* bound on count and time
  MaxEndlessRows, \* bound on the rows of a dump or query without a limit
  MaxDumpFaults   \* bound on failing reads and on restarts of the counters

Kinds == {"engine", "energy", "pci", "memory"}

(* What a sample may fail to read: a counter, the second memory module     *)
(* after the first one was added, or (in the first one) the properties.    *)
FailureSets ==
  {f \in SUBSET (Kinds \cup {"module2"}) :
     Cardinality(f) <= MaxDumpFaults /\ ~({"memory", "module2"} \subseteq f)}

NA == -1   \* "N/A" in a row
Zero == [ts |-> 0, val |-> 0]
None == [ts |-> 0, val |-> -1]

(* count and time are 0 where they are not given; a query may be given a   *)
(* negative count, which ends nothing.                                     *)
DumpLine ==
  [kind : {"dump", "query"}, count : -1 .. MaxDumpRows, time : 0 .. MaxDumpRows + 1,
   loop : BOOLEAN, file : BOOLEAN, tty : BOOLEAN]

(* A dump has a positive count or none, a query neither file nor time      *)
(* (cmd_dump.cpp:355-396, 843); no counter wraps while a process runs.     *)
ASSUME DumpAssumption ==
  /\ MaxDumpRows \in Nat /\ MaxEndlessRows \in Nat /\ CounterBits \in Nat
  /\ 2 * (MaxDumpRows + MaxEndlessRows + 3) < 2 ^ CounterBits
  /\ DumpLines \subseteq DumpLine
  /\ \A l \in DumpLines : IF l.kind = "query" THEN ~l.file /\ l.time = 0 ELSE l.count >= 0

(* Command lines whose process ends whatever happens at the keyboard.      *)
Limited(l) == l.count > 0 \/ l.time > 0 \/ (l.kind = "query" /\ ~l.loop)

VARIABLES
  dmLine, dmPc,
  dmClock,    \* [now, since]: the device's clock, and when its counters began
  dmCache,    \* MetricCache
  dmSeen,     \* [prev, cur]: history, the whole readings of the last two samples
  dmRow,      \* the values of the last row
  dmRows,     \* rows written
  dmIter,     \* iter, remaining: rows still to be written, 0 for no limit
  dmElapsed,  \* intervals since the start
  dmQuit,     \* quitSource: "no", "key" or "end"
  dmInput,    \* the input thread: "none", "test", "enter", "read", "end"
  dmRaw,      \* the terminal is neither canonical nor echoing
  dmFile,     \* the file is open
  dmFaults

dmVars == <<dmLine, dmPc, dmClock, dmCache, dmSeen, dmRow, dmRows, dmIter, dmElapsed,
            dmQuit, dmInput, dmRaw, dmFile, dmFaults>>
dmMetrics == <<dmClock, dmCache, dmSeen, dmRow, dmRows, dmFaults>>

EmptyCache ==
  [before |-> [k \in Kinds |-> Zero], after |-> [k \in Kinds |-> Zero],
   pcieAvail |-> FALSE, pcieBandwidthAvail |-> FALSE, memAvail |-> FALSE]

DmInit ==
  /\ dmLine \in DumpLines /\ dmPc = "start"
  /\ dmClock = [now |-> 1, since |-> 0]
  /\ dmCache = EmptyCache
  /\ dmSeen = [prev |-> [k \in Kinds |-> None], cur |-> [k \in Kinds |-> None]]
  /\ dmRow = [k \in Kinds |-> NA] /\ dmRows = 0 /\ dmIter = 0 /\ dmElapsed = 0
  /\ dmQuit = "no" /\ dmInput = "none" /\ dmRaw = FALSE /\ dmFile = FALSE
  /\ dmFaults = 0

-----------------------------------------------------------------------------
(* The cache of snapshots *)

(* getMemoryRW() adds module by module to its result: what it added before *)
(* a failure stays in the snapshot. The other readings leave zeros when    *)
(* they fail.                                                              *)
getMemoryRW(failed, clk) ==
  IF "memory" \in failed THEN Zero
  ELSE [ts |-> clk.now,
        val |-> (clk.now - clk.since) * IF "module2" \in failed THEN 1 ELSE 2]

Snapshots(failed, clk) ==
  [k \in Kinds |-> CASE k = "memory" -> getMemoryRW(failed, clk)
                     [] k \in failed -> Zero
                     [] OTHER -> [ts |-> clk.now, val |-> clk.now - clk.since]]

populateMetricCacheBegin(failed, props, clk) ==
  [EmptyCache EXCEPT !.before = Snapshots(failed, clk),
                     !.pcieAvail = "pci" \notin failed, !.pcieBandwidthAvail = props]

populateMetricCacheEnd(cache, failed, clk) ==
  LET after == Snapshots(failed, clk)
  IN [cache EXCEPT
        !.after = after,
        !.pcieAvail = @ /\ "pci" \notin failed /\ after["pci"].ts > cache.before["pci"].ts,
        !.memAvail = /\ failed \cap {"memory", "module2"} = {}
                     /\ cache.before["memory"].ts # 0
                     /\ after["memory"].ts > cache.before["memory"].ts]

(* Mutant: one bad tick latches the availability of the link's rates.      *)
populateMetricCacheContinuousMutant(prev, failed, clk) ==
  populateMetricCacheEnd(
    [EmptyCache EXCEPT !.before = prev.after, !.pcieAvail = prev.pcieAvail,
                       !.pcieBandwidthAvail = prev.pcieBandwidthAvail],
    failed, clk)

(* The last snapshot becomes the first of the next delta.                  *)
populateMetricCacheContinuous(prev, failed, clk) ==
  populateMetricCacheEnd(
    [EmptyCache EXCEPT !.before = prev.after, !.pcieAvail = prev.after["pci"].ts # 0,
                       !.pcieBandwidthAvail = prev.pcieBandwidthAvail],
    failed, clk)

(* The getters of the metrics. Differences are of unsigned integers.       *)
Advanced(b, a) == b.ts # 0 /\ a.ts > b.ts
utilFromCache(b, a) ==
  IF ~Advanced(b, a) THEN NA ELSE IF a.val < b.val THEN 0 ELSE a.val - b.val
powerDraw(b, a) == IF ~Advanced(b, a) \/ a.val < b.val THEN NA ELSE a.val - b.val
Throughput(cache, b, a) ==
  IF cache.pcieAvail /\ cache.pcieBandwidthAvail THEN (a.val - b.val) % 2^CounterBits ELSE NA
Bandwidth(cache, b, a) ==
  IF cache.memAvail /\ a.ts > b.ts THEN (a.val - b.val) % 2^CounterBits ELSE NA

emitMetrics(cache) ==
  LET b == cache.before
      a == cache.after
  IN [engine |-> utilFromCache(b.engine, a.engine), energy |-> powerDraw(b.energy, a.energy),
      pci |-> Throughput(cache, b.pci, a.pci), memory |-> Bandwidth(cache, b.memory, a.memory)]

-----------------------------------------------------------------------------
(* History: what a sample read in whole.                                   *)
WholeReadings(failed, clk) ==
  [k \in Kinds |-> IF k \in failed \/ (k = "memory" /\ "module2" \in failed)
                   THEN None ELSE Snapshots(failed, clk)[k]]

(* One sample after a sleep: the driver's counters may or may not have     *)
(* been updated since the last one, and any of them may fail to be read.   *)
Sample(first) ==
  \E failed \in FailureSets, step \in {0, 1} :
    /\ dmFaults + Cardinality(failed) <= MaxDumpFaults
    /\ dmFaults' = dmFaults + Cardinality(failed)
    /\ dmClock' = [dmClock EXCEPT !.now = @ + step]
    /\ dmCache' = IF first THEN populateMetricCacheEnd(dmCache, failed, dmClock')
                  ELSE populateMetricCacheContinuous(dmCache, failed, dmClock')
    /\ dmSeen' = [prev |-> dmSeen.cur, cur |-> WholeReadings(failed, dmClock')]
    /\ dmRow' = emitMetrics(dmCache')
    /\ dmRows' = dmRows + 1

(* The counters of the device begin again, as after a reset of the GPU.    *)
CountersRestart ==
  /\ dmPc \in {"first", "loop"} /\ dmFaults < MaxDumpFaults
  /\ dmClock.since = 0
  /\ dmClock' = [dmClock EXCEPT !.since = dmClock.now]
  /\ dmFaults' = dmFaults + 1
  /\ UNCHANGED <<dmLine, dmPc, dmCache, dmSeen, dmRow, dmRows, dmIter, dmElapsed,
                 dmQuit, dmInput, dmRaw, dmFile>>

-----------------------------------------------------------------------------
(* The loops *)

(* Mutant: every query in a loop listens to the keyboard.                  *)
WantsInputMutant(l) ==
  /\ l.tty
  /\ CASE l.kind = "query" -> TRUE
       [] OTHER -> (l.count = 0 /\ ~l.file) \/ (l.file /\ l.time = 0)

WantsInput(l) ==
  /\ l.tty
  /\ CASE l.kind = "query" -> l.count = 0
       [] OTHER -> (l.count = 0 /\ ~l.file) \/ (l.file /\ l.time = 0)

(* A count and a time exclude each other; other bad values are among what  *)
(* DumpRefused stands for.                                                 *)
parseSamplingTiming(l) == l.count = 0 \/ l.time = 0

(* run() and runQuery() up to the first reading: an option, the metrics or *)
(* the device are refused, the file cannot be opened, or only help is      *)
(* wanted; a dump starts its input thread first.                           *)
DumpRefused ==
  /\ dmPc = "start"
  /\ dmPc' = "refused"
  /\ UNCHANGED <<dmLine, dmMetrics, dmIter, dmElapsed, dmQuit, dmInput, dmRaw, dmFile>>

DumpStart ==
  /\ dmPc = "start"
  /\ parseSamplingTiming(dmLine)
  /\ dmPc' = "begin"
  /\ dmIter' = dmLine.count
  /\ dmFile' = dmLine.file
  /\ dmInput' = IF dmLine.kind = "dump" /\ WantsInput(dmLine) THEN "test" ELSE "none"
  /\ UNCHANGED <<dmLine, dmMetrics, dmElapsed, dmQuit, dmRaw>>

DumpBegin ==
  /\ dmPc = "begin"
  /\ \E failed \in FailureSets, props \in BOOLEAN :
       LET faults == Cardinality(failed) + IF props THEN 0 ELSE 1
       IN /\ faults <= MaxDumpFaults
             /\ dmFaults' = faults
          /\ dmCache' = populateMetricCacheBegin(failed, props, dmClock)
          /\ dmSeen' = [dmSeen EXCEPT !.cur = WholeReadings(failed, dmClock)]
  /\ dmPc' = "first"
  /\ UNCHANGED <<dmLine, dmClock, dmRow, dmRows, dmIter, dmElapsed, dmQuit, dmInput,
                 dmRaw, dmFile>>

(* Mutant: the first row of a dump is not counted.                         *)
DumpFirstMutant ==
  /\ dmPc = "first" /\ dmLine.kind = "dump"
  /\ Sample(TRUE)
  /\ dmPc' = "loop"
  /\ dmElapsed' = 2
  /\ UNCHANGED <<dmLine, dmIter, dmQuit, dmInput, dmRaw, dmFile>>

(* The first row of a dump, an interval after the first reading, and the   *)
(* sleep that follows.                                                     *)
DumpFirst ==
  /\ dmPc = "first" /\ dmLine.kind = "dump"
  /\ dmPc' = "loop"
  /\ dmElapsed' = 2
  /\ Sample(TRUE)
  /\ dmIter' = IF dmIter > 0 THEN dmIter - 1 ELSE dmIter
  /\ dmQuit' = IF dmIter = 1 /\ dmQuit = "no" THEN "end" ELSE dmQuit
  /\ UNCHANGED <<dmLine, dmInput, dmRaw, dmFile>>

(* The row of a query, and the entry of runQueryLoopMode().                *)
QueryFirst ==
  /\ dmPc = "first" /\ dmLine.kind = "query"
  /\ Sample(TRUE)
  /\ IF dmLine.loop /\ dmIter # 1
     THEN /\ dmIter' = IF dmIter > 1 THEN dmIter - 1 ELSE dmIter
          /\ dmInput' = IF WantsInput(dmLine) THEN "test" ELSE "none"
          /\ dmPc' = "loop"
     ELSE dmPc' = "ended" /\ UNCHANGED <<dmIter, dmInput>>
  /\ UNCHANGED <<dmLine, dmElapsed, dmQuit, dmRaw, dmFile>>

(* One turn of a loop: a key pressed during the turn is looked at when the *)
(* next one begins. Reading the counters may take longer than an interval. *)
DumpTurn ==
  /\ dmPc = "loop" /\ dmQuit = "no"
  /\ Limited(dmLine) \/ dmRows < MaxEndlessRows
  /\ Sample(FALSE)
  /\ \E d \in IF dmLine.time > 0 THEN {1, 2} ELSE {1} :
       LET elapsed == dmElapsed + d
           last == dmIter = 1 \/ (dmLine.time > 0 /\ elapsed >= dmLine.time)
       IN /\ dmElapsed' = IF dmLine.time > 0 THEN elapsed ELSE dmElapsed
          /\ dmIter' = IF dmIter > 0 THEN dmIter - 1 ELSE dmIter
          /\ dmQuit' = IF last /\ dmLine.kind = "dump" THEN "end" ELSE dmQuit
          /\ dmPc' = IF last THEN "leave" ELSE "loop"
  /\ UNCHANGED <<dmLine, dmInput, dmRaw, dmFile>>

(* A loop is left at its end or at its test. The file is closed, the input *)
(* thread, if any, detached (it runs on until the process ends), and the   *)
(* terminal restored.                                                      *)
DumpLeave ==
  /\ dmPc = "leave" \/ (dmPc = "loop" /\ dmQuit # "no")
  /\ dmFile' = FALSE
  /\ dmRaw' = FALSE
  /\ dmPc' = "return"
  /\ UNCHANGED <<dmLine, dmMetrics, dmIter, dmElapsed, dmQuit, dmInput>>

(* The jthread of a query is joined where it goes out of scope.            *)
DumpReturn ==
  /\ dmPc = "return"
  /\ dmLine.kind = "query" => dmInput \in {"none", "end"}
  /\ dmPc' = "ended"
  /\ UNCHANGED <<dmLine, dmMetrics, dmIter, dmElapsed, dmQuit, dmInput, dmRaw, dmFile>>

-----------------------------------------------------------------------------
(* The input thread. getch() leaves ISIG alone: Ctrl-C is no key but a     *)
(* signal that ends the process.                                           *)
DumpOver == {"refused", "ended", "killed"}
InputUnchanged ==
  UNCHANGED <<dmLine, dmPc, dmMetrics, dmIter, dmElapsed, dmFile>>

InputTest ==
  /\ dmInput = "test" /\ dmPc \notin DumpOver
  /\ dmInput' = IF dmQuit # "no" \/ (dmPc = "return" /\ dmLine.kind = "query")
                THEN "end" ELSE "enter"
  /\ InputUnchanged /\ UNCHANGED <<dmQuit, dmRaw>>

getchEnter ==
  /\ dmInput = "enter" /\ dmPc \notin DumpOver
  /\ dmInput' = "read" /\ dmRaw' = TRUE
  /\ InputUnchanged /\ UNCHANGED dmQuit

getchKey ==
  /\ dmInput = "read" /\ dmPc \notin DumpOver
  /\ dmRaw' = FALSE
  /\ \/ /\ dmInput' = "end"                      \* q, Q or ESC
        /\ dmQuit' = IF dmQuit = "no" THEN "key" ELSE dmQuit
     \/ dmInput' = "test" /\ UNCHANGED dmQuit
  /\ InputUnchanged

(* Ctrl-C, or any other end of the process from outside; its memory goes.  *)
DumpKilled ==
  /\ dmPc \notin DumpOver
  /\ dmPc' = "killed"
  /\ dmCache' = EmptyCache
  /\ dmSeen' = [prev |-> [k \in Kinds |-> None], cur |-> [k \in Kinds |-> None]]
  /\ dmRow' = [k \in Kinds |-> NA] /\ dmRows' = 0 /\ dmIter' = 0 /\ dmElapsed' = 0
  /\ dmInput' = "none" /\ dmFile' = FALSE
  /\ UNCHANGED <<dmLine, dmClock, dmFaults, dmQuit, dmRaw>>

DumpStep ==
  \/ DumpRefused \/ DumpStart \/ DumpBegin \/ DumpFirst \/ QueryFirst \/ DumpTurn
  \/ DumpLeave \/ DumpReturn
DmNext == DumpStep \/ InputTest \/ getchEnter \/ getchKey \/ CountersRestart \/ DumpKilled

DmTypeOK ==
  /\ dmLine \in DumpLine
  /\ dmPc \in {"start", "begin", "first", "loop", "leave", "return"} \cup DumpOver
  /\ dmRows \in 0 .. MaxDumpRows /\ dmIter \in -1 .. MaxDumpRows
  /\ dmQuit \in {"no", "key", "end"} /\ dmInput \in {"none", "test", "enter", "read", "end"}
  /\ dmRaw \in BOOLEAN /\ dmFile \in BOOLEAN /\ dmFaults \in 0 .. MaxDumpFaults

-----------------------------------------------------------------------------
(* Correctness properties *)

(* A rate in a row (metrics_registry.cpp, metrics/*.cpp) is the difference *)
(* of the readings of this sample and of the one before, and it is there   *)
(* whenever both were whole and the clock advanced: a bad reading costs    *)
(* the two rows it is part of and no more. Where counters began again,     *)
(* utilization is 0, power N/A, and what the others report is not said;    *)
(* nor is it for the memory after a reading that failed at the second      *)
(* module. PCI rates are N/A throughout if the properties, asked for once, *)
(* could not be read.                                                      *)
PartialBefore(k) ==
  k = "memory" /\ dmSeen.prev[k] = None /\ dmCache.before[k].ts # 0
RateOfTheTick ==
  dmRows > 0 =>
    \A k \in Kinds :
      LET p == dmSeen.prev[k]
          c == dmSeen.cur[k]
          comparable == /\ p # None /\ c # None /\ c.ts > p.ts
                        /\ k = "pci" => dmCache.pcieBandwidthAvail
      IN CASE comparable /\ c.val >= p.val -> dmRow[k] = c.val - p.val
           [] comparable /\ c.val < p.val ->
                /\ k = "engine" => dmRow[k] = 0
                /\ k = "energy" => dmRow[k] = NA
           [] OTHER -> dmRow[k] = NA \/ PartialBefore(k)

(* A process that returned wrote as many rows as it was told to, unless a  *)
(* key ended it, closed its file, and gave the terminal back - except a    *)
(* dump that ended by count or time: its detached input thread may make    *)
(* the terminal raw once more after restoreTerminal() (cmd_dump.cpp:835).  *)
DumpEndsClean ==
  dmPc = "ended" =>
    /\ ~dmFile
    /\ dmLine.count > 0 /\ dmQuit # "key" =>
         dmRows = IF dmLine.kind = "dump" \/ dmLine.loop THEN dmLine.count ELSE 1
    /\ dmRaw => dmLine.kind = "dump" /\ dmQuit = "end"
=============================================================================
