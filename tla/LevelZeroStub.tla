---------------------------- MODULE LevelZeroStub ----------------------------
(***************************************************************************)
(* The Level Zero stub that xpumd is tested against                        *)
(* (xpumd/level-zero-go/level-zero-stub): a tree of drivers, devices and   *)
(* components read from a YAML file, the Sysman calls that answer from it, *)
(* and the control API that loads, resets and watches the file.            *)
(*                                                                         *)
(* g_state_lock guards the tree. A call takes it once and is one action;   *)
(* only sysman_watch_start() keeps it while it waits, and an event listen  *)
(* gives it back to sleep. Handles are positions, not addresses: they      *)
(* outlive the tree they came from.                                        *)
(***************************************************************************)
EXTENDS Integers, Sequences, FiniteSets, FiniteSetsExt

CONSTANTS
  CtlThreads,     \* threads that use the control API
  ApiThreads,     \* threads that make Sysman calls
  Listeners,      \* threads that listen for events
  StubPaths,      \* configuration files
  StubTrees,      \* what a file may hold; NoTree does not parse
  StubFns,        \* the calls the API threads make
  StubHandles,    \* the handles they have
  HandleBits,     \* the width of a position in a handle: 16
  ListenRequests, \* [drv, devs, ptr, timeout] of event listens
  StubCaps,       \* the rooms of their buffers
  MaxChanges,     \* bound: times a file is replaced
  MaxStubOps      \* bound: calls, of the control API and of Sysman

NoPath == "none"
NoOne == "nobody"
NoBuffer == -1      \* the caller only asks for the count
Untouched == -1     \* a count that the call has not written
Forever == -1       \* UINT64_MAX
EmptyTree == [drivers |-> <<>>, rv |-> {}]
NoTree == [drivers |-> <<>>, rv |-> {"unparsable"}]    \* stands for a file that does not parse

VARIABLES
  stTree,     \* g_sysman_state
  stPath,     \* g_config_path
  stFile,     \* per path, the file: its version and what it holds
  stSeen,     \* per path, the version last read
  stLock,     \* owner of g_state_lock
  stLife,     \* owner of g_watch_lifecycle_mu
  stWatch,    \* the watcher: thread, g_watch_path, eventfd, inotify queue
  stCtl,      \* per control thread, where it is
  stApi,      \* per API thread, the last answer: result, what was filled in
  stListen,   \* per listener, its call
  stChanges, stOps

stWatcher == <<stLock, stLife, stWatch, stCtl>>
stVars == <<stTree, stPath, stFile, stSeen, stWatcher, stApi, stListen, stChanges, stOps>>

-----------------------------------------------------------------------------
(* The Sysman calls, by the section of zes_stub.c. A call works on a kind  *)
(* of handle and has one of these shapes:                                  *)
(*   enum, list  fill the caller's buffer with handles, with data;         *)
(*   sized       a list that fails when the buffer is too small;           *)
(*   get         writes data that is always there;                         *)
(*   always      a get that cannot be unsupported;                         *)
(*   multi       a get of many ports: one that does not resolve, or has no *)
(*               data, is skipped;                                         *)
(*   opt         data that may be absent, asked before the pointer is;     *)
(*   optLast     data that may be absent, asked after the pointer is;      *)
(*   optEnum     an enum of a part that may be absent;                     *)
(*   optIn       absent data, but no pointer is needed;                    *)
(*   set         accepted and forgotten; clear is zesRasClearStateExp().   *)
On(kind, shape) == [on |-> kind, shape |-> shape, of |-> "none"]
EnumOf(kind) == [on |-> "device", shape |-> "enum", of |-> kind]

DriverCalls ==
  [zesInit      |-> On("system", "set"),
   zesDriverGet |-> [on |-> "system", shape |-> "enum", of |-> "driver"],
   zesDriverGetExtensionProperties |-> On("driver", "list"),
   zesDeviceGet |-> [on |-> "driver", shape |-> "enum", of |-> "device"]]

DeviceCalls ==
  [zesDeviceGetProperties |-> On("device", "opt"),
   zesDeviceGetState      |-> On("device", "optLast"),
   zesDeviceReset         |-> On("device", "set"),
   zesDeviceResetExt      |-> On("device", "set"),
   zesDeviceEventRegister |-> On("device", "set"),
   zesDeviceProcessesGetState |-> On("device", "sized")]

PciCalls ==
  [zesDevicePciGetProperties |-> On("device", "optLast"),
   zesDevicePciGetState      |-> On("device", "optLast"),
   zesDevicePciGetBars       |-> On("device", "list"),
   zesDevicePciGetStats      |-> On("device", "optLast"),
   zesDevicePciLinkSpeedUpdateExt |-> On("device", "always")]

OverclockDeviceCalls ==
  [zesDeviceSetOverclockWaiver     |-> On("device", "set"),
   zesDeviceGetOverclockDomains    |-> On("device", "opt"),
   zesDeviceGetOverclockControls   |-> On("device", "optIn"),
   zesDeviceResetOverclockSettings |-> On("device", "set"),
   zesDeviceReadOverclockState     |-> On("device", "opt"),
   zesDeviceEnumOverclockDomains   |-> [EnumOf("oc") EXCEPT !.shape = "optEnum"]]

OverclockDomainCalls ==
  [zesOverclockGetDomainProperties        |-> On("oc", "opt"),
   zesOverclockGetDomainVFProperties      |-> On("oc", "opt"),
   zesOverclockGetDomainControlProperties |-> On("oc", "opt"),
   zesOverclockGetControlCurrentValue     |-> On("oc", "opt"),
   zesOverclockGetControlPendingValue     |-> On("oc", "opt"),
   zesOverclockSetControlUserValue        |-> On("oc", "set"),
   zesOverclockGetControlState            |-> On("oc", "opt"),
   zesOverclockGetVFPointValues           |-> On("oc", "set"),
   zesOverclockSetVFPointValues           |-> On("oc", "set")]

DiagnosticsCalls ==
  [zesDeviceEnumDiagnosticTestSuites |-> EnumOf("diag"),
   zesDiagnosticsGetProperties       |-> On("diag", "opt"),
   zesDiagnosticsGetTests            |-> On("diag", "list"),
   zesDiagnosticsRunTests            |-> On("diag", "get")]

EccCalls ==
  [zesDeviceEccAvailable    |-> On("device", "optLast"),
   zesDeviceEccConfigurable |-> On("device", "optLast"),
   zesDeviceGetEccState     |-> On("device", "optLast"),
   zesDeviceSetEccState     |-> On("device", "optLast")]

EngineCalls ==
  [zesDeviceEnumEngineGroups |-> EnumOf("engine"),
   zesEngineGetProperties    |-> On("engine", "get"),
   zesEngineGetActivity      |-> On("engine", "get"),
   zesEngineGetActivityExt   |-> On("engine", "list")]

FabricPortCalls ==
  [zesDeviceEnumFabricPorts            |-> EnumOf("fabric"),
   zesFabricPortGetProperties          |-> On("fabric", "opt"),
   zesFabricPortGetLinkType            |-> On("fabric", "opt"),
   zesFabricPortGetConfig              |-> On("fabric", "opt"),
   zesFabricPortSetConfig              |-> On("fabric", "set"),
   zesFabricPortGetState               |-> On("fabric", "opt"),
   zesFabricPortGetThroughput          |-> On("fabric", "opt"),
   zesFabricPortGetFabricErrorCounters |-> On("fabric", "opt"),
   zesFabricPortGetMultiPortThroughput |-> On("device", "multi")]

FanCalls ==
  [zesDeviceEnumFans       |-> EnumOf("fan"),
   zesFanGetProperties     |-> On("fan", "opt"),
   zesFanGetConfig         |-> On("fan", "opt"),
   zesFanSetDefaultMode    |-> On("fan", "set"),
   zesFanSetFixedSpeedMode |-> On("fan", "set"),
   zesFanSetSpeedTableMode |-> On("fan", "set"),
   zesFanGetState          |-> On("fan", "get")]

FirmwareCalls ==
  [zesDeviceEnumFirmwares      |-> EnumOf("firmware"),
   zesFirmwareGetProperties    |-> On("firmware", "opt"),
   zesFirmwareFlash            |-> On("firmware", "set"),
   zesFirmwareGetFlashProgress |-> On("firmware", "get"),
   zesFirmwareGetConsoleLogs   |-> On("firmware", "list")]

FrequencyCalls ==
  [zesDeviceEnumFrequencyDomains  |-> EnumOf("freq"),
   zesFrequencyGetProperties      |-> On("freq", "opt"),
   zesFrequencyGetAvailableClocks |-> On("freq", "list"),
   zesFrequencyGetRange           |-> On("freq", "opt"),
   zesFrequencySetRange           |-> On("freq", "set"),
   zesFrequencyGetState           |-> On("freq", "opt"),
   zesFrequencyGetThrottleTime    |-> On("freq", "opt")]

LedCalls ==
  [zesDeviceEnumLeds   |-> EnumOf("led"),
   zesLedGetProperties |-> On("led", "opt"),
   zesLedGetState      |-> On("led", "opt"),
   zesLedSetState      |-> On("led", "set"),
   zesLedSetColor      |-> On("led", "set")]

MemoryCalls ==
  [zesDeviceEnumMemoryModules |-> EnumOf("mem"),
   zesMemoryGetProperties     |-> On("mem", "opt"),
   zesMemoryGetState          |-> On("mem", "opt"),
   zesMemoryGetBandwidth      |-> On("mem", "opt")]

PerformanceCalls ==
  [zesDeviceEnumPerformanceFactorDomains |-> EnumOf("perf"),
   zesPerformanceFactorGetProperties     |-> On("perf", "opt"),
   zesPerformanceFactorGetConfig         |-> On("perf", "get"),
   zesPerformanceFactorSetConfig         |-> On("perf", "set")]

PowerCalls ==
  [zesDeviceEnumPowerDomains  |-> EnumOf("pwr"),
   zesPowerGetProperties      |-> On("pwr", "opt"),
   zesPowerGetEnergyCounter   |-> On("pwr", "opt"),
   zesPowerGetLimitsExt       |-> On("pwr", "list"),
   zesPowerSetLimitsExt       |-> On("pwr", "set"),
   zesPowerGetEnergyThreshold |-> On("pwr", "opt"),
   zesPowerSetEnergyThreshold |-> On("pwr", "set")]

PsuCalls ==
  [zesDeviceEnumPsus   |-> EnumOf("psu"),
   zesPsuGetProperties |-> On("psu", "opt"),
   zesPsuGetState      |-> On("psu", "opt")]

RasCalls ==
  [zesDeviceEnumRasErrorSets |-> EnumOf("ras"),
   zesRasGetProperties       |-> On("ras", "opt"),
   zesRasGetConfig           |-> On("ras", "opt"),
   zesRasSetConfig           |-> On("ras", "set"),
   zesRasGetState            |-> On("ras", "opt"),
   zesRasGetStateExp         |-> On("ras", "list"),
   zesRasClearStateExp       |-> On("ras", "clear")]

SchedulerCalls ==
  [zesDeviceEnumSchedulers                |-> EnumOf("sched"),
   zesSchedulerGetProperties              |-> On("sched", "opt"),
   zesSchedulerGetCurrentMode             |-> On("sched", "get"),
   zesSchedulerGetTimeoutModeProperties   |-> On("sched", "opt"),
   zesSchedulerGetTimesliceModeProperties |-> On("sched", "opt"),
   zesSchedulerSetTimeoutMode             |-> On("sched", "get"),
   zesSchedulerSetTimesliceMode           |-> On("sched", "get"),
   zesSchedulerSetExclusiveMode           |-> On("sched", "get")]

StandbyCalls ==
  [zesDeviceEnumStandbyDomains |-> EnumOf("standby"),
   zesStandbyGetProperties     |-> On("standby", "opt"),
   zesStandbyGetMode           |-> On("standby", "get"),
   zesStandbySetMode           |-> On("standby", "set")]

TemperatureCalls ==
  [zesDeviceEnumTemperatureSensors |-> EnumOf("temp"),
   zesTemperatureGetProperties     |-> On("temp", "opt"),
   zesTemperatureGetConfig         |-> On("temp", "opt"),
   zesTemperatureSetConfig         |-> On("temp", "set"),
   zesTemperatureGetState          |-> On("temp", "get")]

Sections ==
  {DriverCalls, DeviceCalls, PciCalls, OverclockDeviceCalls, OverclockDomainCalls,
   DiagnosticsCalls, EccCalls, EngineCalls, FabricPortCalls, FanCalls, FirmwareCalls,
   FrequencyCalls, LedCalls, MemoryCalls, PerformanceCalls, PowerCalls, PsuCalls, RasCalls,
   SchedulerCalls, StandbyCalls, TemperatureCalls}

Calls ==
  [fn \in UNION {DOMAIN s : s \in Sections} |-> (CHOOSE s \in Sections : fn \in DOMAIN s)[fn]]

(* What a file describes: the components of each kind that a device has,   *)
(* the entries of its lists, and the calls that are unsupported, that have *)
(* a return value of their own, or whose data is absent.                   *)
Kinds == {"oc", "diag", "engine", "fabric", "fan", "firmware", "freq", "led", "mem", "perf",
          "pwr", "psu", "ras", "sched", "standby", "temp"}
StubDevice ==
  [n : [Kinds -> Nat], items : Nat, unsup : SUBSET STRING, rv : SUBSET STRING,
   absent : SUBSET STRING, events : BOOLEAN, errors : Nat]
StubDriver ==
  [devices : Seq(StubDevice), items : Nat, unsup : SUBSET STRING, rv : SUBSET STRING,
   absent : SUBSET STRING]
StubTree == [drivers : Seq(StubDriver), rv : SUBSET STRING]

ASSUME StubAssumption ==
  /\ StubTrees \subseteq StubTree /\ StubFns \subseteq DOMAIN Calls /\ StubCaps \subseteq Nat
  /\ 2 ^ HandleBits \in Nat \ {0} /\ IsFiniteSet(StubHandles)
  /\ \A h \in StubHandles :
       /\ h \in [kind : STRING, drv : Nat, dev : Nat, comp : Nat]
       /\ {h.drv, h.dev, h.comp} \subseteq 0 .. (2 ^ HandleBits) - 1

-----------------------------------------------------------------------------
(* resolve_handle(): the driver, the device and the position of the        *)
(* component are looked up in the tree of this moment.                     *)
Handle(kind, drv, dev, comp) == [kind |-> kind, drv |-> drv, dev |-> dev, comp |-> comp]

(* MAKE_*_HANDLE(): the handle of the entry at position i that an          *)
(* enumeration below a driver or a device returns. A position is a bit     *)
(* field of the handle: what it has no room for is cut off.                *)
Entry(of, drv, dev, i) ==
  LET pos == i % (2 ^ HandleBits)
  IN CASE of = "driver" -> Handle(of, pos, 0, 0)
       [] of = "device" -> Handle(of, drv, pos, 0)
       [] OTHER         -> Handle(of, drv, dev, pos)

DriverOf(h) == stTree.drivers[h.drv + 1]
DeviceOf(h) == DriverOf(h).devices[h.dev + 1]

Resolves(h, kind) ==
  \/ kind = "system"
  \/ /\ h.kind = kind /\ h.drv < Len(stTree.drivers)
     /\ \/ kind = "driver"
        \/ /\ h.dev < Len(DriverOf(h).devices)
           /\ kind = "device" \/ h.comp < DeviceOf(h).n[kind]

(* The object whose return values and optional parts a call looks at. The  *)
(* components of a device are alike.                                       *)
Object(h, kind) == CASE kind = "system" -> stTree [] kind = "driver" -> DriverOf(h)
                     [] OTHER -> DeviceOf(h)

(* How many there are to enumerate or to list.                             *)
Total(fn, h) ==
  LET c == Calls[fn]
  IN CASE c.of = "driver" -> Len(stTree.drivers)
       [] c.of = "device" -> Len(DriverOf(h).devices)
       [] c.of = "none"   -> Object(h, c.on).items
       [] OTHER           -> DeviceOf(h).n[c.of]

Fills(fn) == Calls[fn].shape \in {"enum", "optEnum", "list", "sized"}

(* What a call answers: the first of its checks that fails, in their order.*)
Answer(fn, h, arg) ==
  LET c == Calls[fn]
      o == Object(h, c.on)
      checks == << <<c.on # "system" /\ c.shape # "always" /\ fn \in o.unsup, "unsupported">>,
                   <<fn \in o.rv /\ (c.shape = "multi" => o.n["fabric"] > 0), "injected">>,
                   <<c.shape \in {"opt", "optEnum", "optIn"} /\ fn \in o.absent,
                     "unsupported">>,
                   <<c.shape \notin {"set", "clear", "optIn"} /\ ~arg.ptr, "null_pointer">>,
                   <<c.shape = "optLast" /\ fn \in o.absent, "unsupported">>,
                   <<c.shape = "sized" /\ arg.cap # NoBuffer /\ arg.cap < Total(fn, h), "size">>,
                   <<c.shape = "clear" /\ ~arg.ptr, "argument">> >>
      failed == {i \in DOMAIN checks : checks[i][1]}
  IN IF ~Resolves(h, c.on) THEN "null_handle"
     ELSE IF failed = {} THEN "ok" ELSE checks[Min(failed)][2]

(* The ports whose throughput is there.                                    *)
PortsRead(ports) ==
  {p \in ports : /\ Resolves(p, "fabric")
                 /\ "zesFabricPortGetThroughput" \notin DeviceOf(p).absent}

(* The room the caller made: for many ports, one place each.               *)
Room(fn, arg) == IF Calls[fn].shape = "multi" THEN Cardinality(arg.ports) ELSE arg.cap

(* Mutant: the count the caller passed is not looked at.                   *)
WrittenMutant(fn, h, arg) ==
  IF Fills(fn) /\ arg.cap # NoBuffer THEN Total(fn, h)
  ELSE IF Calls[fn].shape = "multi" THEN Cardinality(PortsRead(arg.ports)) ELSE 0

(* What is written to the buffer: no more than it holds. A sized list that *)
(* fails fills it, too.                                                    *)
Written(fn, h, arg) ==
  IF Fills(fn) /\ arg.cap # NoBuffer THEN Min({arg.cap, Total(fn, h)})
  ELSE IF Calls[fn].shape = "multi" THEN Cardinality(PortsRead(arg.ports)) ELSE 0

NoAnswer == [of |-> "none", dev |-> <<0, 0>>, cap |-> NoBuffer, n |-> 0, res |-> "none"]

CountCall == stOps < MaxStubOps /\ stOps' = stOps + 1

Caps(fn) == {NoBuffer} \cup (IF Fills(fn) THEN StubCaps ELSE {})
PortLists(fn) ==
  IF Calls[fn].shape = "multi" THEN SUBSET {h \in StubHandles : h.kind = "fabric"} ELSE {{}}

(* One Sysman call. arg.ptr: the pointers are given (for                   *)
(* zesRasClearStateExp(): the category exists). That call is the only one  *)
(* that changes the tree.                                                  *)
SysmanCall(a) ==
  /\ stLock = NoOne /\ CountCall
  /\ \E fn \in StubFns, h \in StubHandles, ptr \in BOOLEAN :
     \E cap \in Caps(fn), ports \in PortLists(fn) :
       LET arg == [ptr |-> ptr, cap |-> cap, ports |-> ports]
           res == Answer(fn, h, arg)
           room == Room(fn, arg)
       IN /\ stApi' = [stApi EXCEPT ![a] =
               IF res \notin {"ok", "size"} \/ room = NoBuffer THEN [NoAnswer EXCEPT !.res = res]
               ELSE [of |-> Calls[fn].of, dev |-> <<h.drv, h.dev>>, cap |-> room,
                     n |-> Written(fn, h, arg), res |-> res]]
          /\ stTree' = IF Calls[fn].shape = "clear" /\ res = "ok"
                         THEN [stTree EXCEPT !.drivers[h.drv + 1].devices[h.dev + 1].errors = 0]
                         ELSE stTree
  /\ UNCHANGED <<stPath, stFile, stSeen, stWatcher, stListen, stChanges>>

-----------------------------------------------------------------------------
(* driver_event_listen_peek(): its result, by the first check that fails.  *)
Bad(q) == {i \in DOMAIN q.devs : ~Resolves(q.devs[i], "device") \/ q.devs[i].drv # q.drv}

PeekResult(q) ==
  LET drv == Handle("driver", q.drv, 0, 0)
  IN IF ~Resolves(drv, "driver") THEN "null_handle"
     ELSE IF "zesDriverEventListen" \in DriverOf(drv).unsup THEN "unsupported"
     ELSE IF "zesDriverEventListen" \in DriverOf(drv).rv THEN "injected"
     ELSE IF ~q.ptr THEN "null_pointer"
     ELSE IF Bad(q) # {} THEN "argument" ELSE "ok"

(* The devices it comes to, in the order of the caller.                    *)
Reached(q) ==
  IF PeekResult(q) \notin {"ok", "argument"} THEN {}
  ELSE {i \in (DOMAIN q.devs) \ Bad(q) : \A k \in Bad(q) : i < k}

(* What a peek leaves in the buffers b of the caller, *pNumDeviceEvents    *)
(* and pEvents: an error leaves the count alone, and the events of the     *)
(* devices that it does not come to.                                       *)
Peek(q, b) ==
  LET ev == [i \in DOMAIN q.devs |-> IF i \in Reached(q) THEN DeviceOf(q.devs[i]).events
                                    ELSE b.ev[i]]
  IN [res |-> PeekResult(q), ev |-> ev,
      num |-> IF PeekResult(q) = "ok" THEN Cardinality({i \in DOMAIN q.devs : ev[i]}) ELSE b.num]

(* The buffers as the caller made them.                                    *)
Fresh(q) == [res |-> "ok", num |-> Untouched, ev |-> [i \in DOMAIN q.devs |-> FALSE]]

NoRequest == [drv |-> 0, devs |-> <<>>, ptr |-> TRUE, timeout |-> 0]

ListenReturns(l, p) ==
  stListen' = [stListen EXCEPT ![l] = [pc |-> "idle", req |-> NoRequest, slept |-> 0, got |-> p]]

(* zesDriverEventListen(): the first peek only looks for errors; events it *)
(* finds are reported after the first sleep, unless the timeout is 0.      *)
StartListen(l) ==
  /\ stListen[l].pc = "idle" /\ stLock = NoOne /\ CountCall
  /\ \E q \in ListenRequests :
       LET p == Peek(q, Fresh(q))
       IN IF p.res # "ok" \/ q.timeout = 0 THEN ListenReturns(l, p)
          ELSE stListen' = [stListen EXCEPT ![l] =
                 [pc |-> "sleep", req |-> q, slept |-> 0, got |-> p]]
  /\ UNCHANGED <<stTree, stPath, stFile, stSeen, stWatcher, stApi, stChanges>>

(* Mutant: the timeout goes before the peek, and what an earlier one found is *)
(* returned.                                                               *)
WakeListenMutant(l) ==
  /\ stListen[l].pc = "sleep" /\ stLock = NoOne
  /\ LET q == stListen[l].req
         p == Peek(q, stListen[l].got)
         s == IF q.timeout = Forever THEN 0 ELSE stListen[l].slept + 1
     IN IF s = q.timeout THEN ListenReturns(l, stListen[l].got)
        ELSE IF p.res # "ok" \/ p.num > 0 THEN ListenReturns(l, p)
        ELSE stListen' = [stListen EXCEPT ![l].slept = s, ![l].got = p]
  /\ UNCHANGED <<stTree, stPath, stFile, stSeen, stWatcher, stApi, stChanges, stOps>>

(* The sleep is over: everything is resolved again, under the lock.        *)
WakeListen(l) ==
  /\ stListen[l].pc = "sleep" /\ stLock = NoOne
  /\ LET q == stListen[l].req
         p == Peek(q, stListen[l].got)
         s == IF q.timeout = Forever THEN 0 ELSE stListen[l].slept + 1
     IN IF p.res # "ok" \/ p.num > 0 \/ s = q.timeout THEN ListenReturns(l, p)
        ELSE stListen' = [stListen EXCEPT ![l].slept = s, ![l].got = p]
  /\ UNCHANGED <<stTree, stPath, stFile, stSeen, stWatcher, stApi, stChanges, stOps>>

-----------------------------------------------------------------------------
(* sysman_state_load_locked(): the old tree is freed only when the new one *)
(* has been read, parsed and resolved. NoPath stands for a load without a  *)
(* path and without SYSMAN_STUB_CONFIG.                                    *)
LoadTree(p) ==
  /\ stSeen' = IF p = NoPath THEN stSeen ELSE [stSeen EXCEPT ![p] = stFile[p].ver]
  /\ \/ p = NoPath /\ stTree' = EmptyTree /\ stPath' = NoPath
     \/ p # NoPath /\ stFile[p].tree = NoTree /\ UNCHANGED <<stTree, stPath>>
     \/ /\ p # NoPath /\ stFile[p].tree # NoTree
        /\ stTree' = stFile[p].tree /\ stPath' = p

Control(t) == stCtl[t] = "idle" /\ CountCall
CtlGoto(t, l) == stCtl' = [stCtl EXCEPT ![t] = l]

StateLoad(t) ==
  /\ Control(t) /\ stLock = NoOne
  /\ \E p \in StubPaths \cup {NoPath} : LoadTree(p)
  /\ UNCHANGED <<stFile, stWatcher, stApi, stListen, stChanges>>

StateReset(t) ==
  /\ Control(t) /\ stLock = NoOne
  /\ stTree' = EmptyTree /\ stPath' = NoPath
  /\ UNCHANGED <<stFile, stSeen, stWatcher, stApi, stListen, stChanges>>

(* sysman_watch_start() takes g_state_lock, then g_watch_lifecycle_mu.     *)
WatchStartLock(t) ==
  /\ Control(t) /\ stLock = NoOne
  /\ stLock' = t /\ CtlGoto(t, "startLife")
  /\ UNCHANGED <<stTree, stPath, stFile, stSeen, stLife, stWatch, stApi, stListen, stChanges>>

(* sysman_watch_start_locked() up to the new thread. g_watch_path is       *)
(* written before a running watcher is noticed.                            *)
WatchStart(t) ==
  /\ stCtl[t] = "startLife" /\ stLife = NoOne
  /\ \/ /\ stPath # NoPath /\ ~stWatch.started
        /\ stWatch' = [stWatch EXCEPT !.path = stPath, !.thr = "init", !.started = TRUE,
                                      !.ready = "pending", !.stop = FALSE]
        /\ stLife' = t /\ CtlGoto(t, "await") /\ UNCHANGED stLock
     \/ \* no path, already watching, or no eventfd or thread to be had
        /\ stWatch' = IF stPath = NoPath THEN stWatch ELSE [stWatch EXCEPT !.path = stPath]
        /\ stLock' = NoOne /\ CtlGoto(t, "idle") /\ UNCHANGED stLife
  /\ UNCHANGED <<stTree, stPath, stFile, stSeen, stApi, stListen, stChanges, stOps>>

WatchReady(t) ==
  /\ stCtl[t] = "await" /\ stWatch.ready # "pending"
  /\ IF stWatch.ready = "ready"
       THEN /\ stLock' = NoOne /\ stLife' = NoOne /\ CtlGoto(t, "idle") /\ UNCHANGED stWatch
       ELSE /\ stWatch' = [stWatch EXCEPT !.stop = TRUE, !.started = FALSE]
            /\ CtlGoto(t, "join") /\ UNCHANGED <<stLock, stLife>>
  /\ UNCHANGED <<stTree, stPath, stFile, stSeen, stApi, stListen, stChanges, stOps>>

(* Mutant: g_state_lock is taken as well, in the order of sysman_watch_start(). *)
WatchStopMutant(t) ==
  /\ Control(t) /\ stLife = NoOne /\ stLock = NoOne
  /\ IF stWatch.started
       THEN /\ stLife' = t /\ stLock' = t /\ CtlGoto(t, "join")
            /\ stWatch' = [stWatch EXCEPT !.stop = TRUE, !.started = FALSE]
       ELSE UNCHANGED <<stLife, stLock, stCtl, stWatch>>
  /\ UNCHANGED <<stTree, stPath, stFile, stSeen, stApi, stListen, stChanges>>

(* sysman_watch_stop(): the eventfd is written, then the thread joined.    *)
WatchStop(t) ==
  /\ Control(t) /\ stLife = NoOne
  /\ IF stWatch.started
       THEN /\ stLife' = t /\ CtlGoto(t, "join")
            /\ stWatch' = [stWatch EXCEPT !.stop = TRUE, !.started = FALSE]
       ELSE UNCHANGED <<stLife, stCtl, stWatch>>
  /\ UNCHANGED <<stTree, stPath, stFile, stSeen, stLock, stApi, stListen, stChanges>>

JoinWatcher(t) ==
  /\ stCtl[t] = "join" /\ stWatch.thr = "exited"
  /\ stWatch' = [stWatch EXCEPT !.thr = "none", !.stop = FALSE]
  /\ stLife' = NoOne /\ stLock' = IF stLock = t THEN NoOne ELSE stLock
  /\ CtlGoto(t, "idle")
  /\ UNCHANGED <<stTree, stPath, stFile, stSeen, stApi, stListen, stChanges, stOps>>

-----------------------------------------------------------------------------
(* watch_thread_fn(). Its steps leave all but the watcher alone.           *)
WatchGoto(w) ==
  /\ stWatch' = w
  /\ UNCHANGED <<stTree, stPath, stFile, stSeen, stLock, stLife, stCtl, stApi, stListen,
                 stChanges, stOps>>

(* The directory is watched from here on, or the thread gives up.          *)
WatchInit ==
  /\ stWatch.thr = "init"
  /\ \/ WatchGoto([stWatch EXCEPT !.thr = "exited", !.ready = "error"])
     \/ WatchGoto([stWatch EXCEPT !.thr = "poll", !.ready = "ready", !.on = stWatch.path,
                                  !.base = stFile[stWatch.path].ver, !.queued = FALSE])

(* poll(): the stop signal goes before an event; a failure ends the loop.  *)
WatchPoll ==
  /\ stWatch.thr = "poll"
  /\ \/ stWatch.stop /\ WatchGoto([stWatch EXCEPT !.thr = "exited"])
     \/ /\ ~stWatch.stop /\ stWatch.queued
        /\ WatchGoto([stWatch EXCEPT !.thr = "debounce", !.queued = FALSE])

WatchPollFails ==
  /\ stWatch.thr = "poll" /\ ~stWatch.stop /\ WatchGoto([stWatch EXCEPT !.thr = "exited"])

(* Mutant: an event within the 100 ms makes it wait again, but is drained. *)
WatchDebounceMutant ==
  /\ stWatch.thr = "debounce"
  /\ WatchGoto([stWatch EXCEPT !.thr = IF stWatch.queued THEN "poll" ELSE "check", !.queued = FALSE])

(* What arrived within the 100 ms is drained before the file is read.      *)
WatchDebounce ==
  /\ stWatch.thr = "debounce" /\ WatchGoto([stWatch EXCEPT !.thr = "check", !.queued = FALSE])

WatchCheck ==
  /\ stWatch.thr = "check"
  /\ WatchGoto([stWatch EXCEPT !.thr = IF stWatch.stop THEN "exited" ELSE "load"])

(* sysman_state_load(g_watch_path).                                        *)
WatchLoad ==
  /\ stWatch.thr = "load" /\ stLock = NoOne /\ LoadTree(stWatch.path)
  /\ stWatch' = [stWatch EXCEPT !.thr = "poll"]
  /\ UNCHANGED <<stFile, stLock, stLife, stCtl, stApi, stListen, stChanges, stOps>>

(* External: a file is replaced, atomically (README of the stub).          *)
ReplaceFile ==
  /\ stChanges < MaxChanges /\ stChanges' = stChanges + 1
  /\ \E p \in StubPaths, c \in StubTrees \cup {NoTree} :
       /\ stFile' = [stFile EXCEPT ![p] = [ver |-> @.ver + 1, tree |-> c]]
       /\ stWatch' = [stWatch EXCEPT !.queued = @ \/ (p = stWatch.on /\ stWatch.thr \notin
                                                        {"none", "init", "exited"})]
  /\ UNCHANGED <<stTree, stPath, stSeen, stLock, stLife, stCtl, stApi, stListen, stOps>>

-----------------------------------------------------------------------------
(* sysman_auto_init(): with SYSMAN_STUB_CONFIG the file has been loaded    *)
(* and is watched, if both succeeded; without it the stub is empty.        *)
StubInit ==
  /\ stFile \in [StubPaths -> {[ver |-> 1, tree |-> c] : c \in StubTrees}]
  /\ \E p \in StubPaths \cup {NoPath}, watched \in BOOLEAN :
       /\ stPath = p /\ stTree = IF p = NoPath THEN EmptyTree ELSE stFile[p].tree
       /\ stSeen = [q \in StubPaths |-> IF q = p THEN 1 ELSE 0]
       /\ p = NoPath => ~watched
       /\ stWatch = [thr |-> IF watched THEN "poll" ELSE "none",
                     on |-> IF watched THEN p ELSE NoPath, path |-> p, base |-> 1,
                     ready |-> "pending", stop |-> FALSE, queued |-> FALSE, started |-> watched]
  /\ stLock = NoOne /\ stLife = NoOne
  /\ stCtl = [t \in CtlThreads |-> "idle"]
  /\ stApi = [a \in ApiThreads |-> NoAnswer]
  /\ stListen = [l \in Listeners |->
       [pc |-> "idle", req |-> NoRequest, slept |-> 0, got |-> Fresh(NoRequest)]]
  /\ stChanges = 0 /\ stOps = 0

CtlStep(t) == WatchStart(t) \/ WatchReady(t) \/ JoinWatcher(t)
WatchStep == WatchInit \/ WatchPoll \/ WatchDebounce \/ WatchCheck \/ WatchLoad

StubNext ==
  \/ \E t \in CtlThreads : \/ StateLoad(t) \/ StateReset(t) \/ WatchStartLock(t)
                           \/ WatchStop(t) \/ CtlStep(t)
  \/ WatchStep \/ WatchPollFails \/ ReplaceFile
  \/ \E a \in ApiThreads : SysmanCall(a)
  \/ \E l \in Listeners : StartListen(l) \/ WakeListen(l)

(* Threads run when they can; a control call or a Sysman call need not be  *)
(* made, and a file need not change.                                       *)
StubSpec ==
  /\ StubInit /\ [][StubNext]_stVars
  /\ \A t \in CtlThreads : WF_stVars(CtlStep(t))
  /\ WF_stVars(WatchStep)
  /\ \A l \in Listeners : WF_stVars(WakeListen(l))

StubTypeOK ==
  /\ stTree \in {EmptyTree} \cup UNION {{c} \cup {[c EXCEPT !.drivers[i].devices[j].errors = 0] :
        i \in DOMAIN c.drivers, j \in {1} \cap DOMAIN c.drivers[1].devices} : c \in StubTrees}
  /\ stPath \in StubPaths \cup {NoPath}
  /\ {stLock, stLife} \subseteq CtlThreads \cup {NoOne}
  /\ stCtl \in [CtlThreads -> {"idle", "startLife", "await", "join"}]

-----------------------------------------------------------------------------
(* A start waits for the lifecycle mutex with g_state_lock in its hand.    *)
StartBehind == \E t \in CtlThreads : stCtl[t] = "startLife" /\ stLife # NoOne

(* A buffer is never written beyond what the caller made room for, not by  *)
(* the list that is too long and reports it, nor by many ports of which    *)
(* some are gone (zes_stub.c:349-352, 1388-1395); and every handle an      *)
(* enumeration returned resolves, whatever was loaded between the call for *)
(* the count and this one, and no two are the same, unless there are more  *)
(* than the bits of a handle can tell apart (sysman_state.h:51-57).        *)
HandlesFitAndResolve ==
  [][\A a \in ApiThreads :
       LET c == stApi'[a]
           H(i) == Entry(c.of, c.dev[1], c.dev[2], i - 1)
       IN c # stApi[a] =>
            /\ c.n <= Max({c.cap, 0})
            /\ c.of # "none" => \A i \in 1 .. c.n :
                 /\ Resolves(H(i), c.of)
                 /\ c.n <= 2 ^ HandleBits => \A k \in 1 .. c.n : H(i) = H(k) => i = k]_stVars

(* What an event listen that slept leaves with the caller, whatever files  *)
(* were loaded meanwhile (zes_stub.c:1142-1184). A success is about the    *)
(* tree of the moment it returns: every device is still there, its events  *)
(* are those it has now, the count is theirs, and it is 0 only when the    *)
(* time is up. An error has its reason in that tree; then, and only then,  *)
(* results of earlier looks survive: the count, and the events of devices  *)
(* that the failing look did not come to (zes_stub.c:1111-1142).           *)
ListenIsCurrent ==
  [][\A l \in Listeners :
       stListen[l].pc = "sleep" /\ stListen'[l].pc = "idle" =>
         LET q == stListen[l].req
             was == stListen[l].got
             got == stListen'[l].got
             now == {i \in DOMAIN q.devs : DeviceOf(q.devs[i]).events}
         IN IF got.res = "ok"
              THEN /\ Resolves(Handle("driver", q.drv, 0, 0), "driver")
                   /\ \A i \in DOMAIN q.devs : /\ Resolves(q.devs[i], "device")
                                               /\ got.ev[i] = DeviceOf(q.devs[i]).events
                   /\ got.num = Cardinality(now)
                   /\ got.num = 0 => stListen[l].slept + 1 = q.timeout
              ELSE /\ got.res = PeekResult(q) /\ got.num = was.num
                   /\ \A i \in DOMAIN q.devs : got.ev[i] # was.ev[i] =>
                        /\ Resolves(q.devs[i], "device")
                        /\ got.ev[i] = DeviceOf(q.devs[i]).events]_stVars

(* A file replaced while it is watched is read in its newest version,      *)
(* however the replacement falls into the debouncing, as long as the       *)
(* watcher runs. (path # on: a second start renamed what it reads.)        *)
Stale ==
  /\ stWatch.thr \in {"poll", "debounce", "check", "load"} /\ stWatch.path = stWatch.on
  /\ stFile[stWatch.on].ver > stWatch.base
  /\ stSeen[stWatch.on] # stFile[stWatch.on].ver

UpdateNotMissed == Stale ~> (~Stale \/ StartBehind)

(* A stop and a start return, a listen with a timeout ends: nobody waits   *)
(* for ever, unless a start waits behind a stop: it then holds the lock    *)
(* the watcher needs to end.                                               *)
ControlReturns ==
  /\ \A t \in CtlThreads : stCtl[t] # "idle" ~> (stCtl[t] = "idle" \/ StartBehind)
  /\ \A l \in Listeners :
       (stListen[l].pc = "sleep" /\ stListen[l].req.timeout # Forever)
          ~> (stListen[l].pc = "idle" \/ StartBehind)
=============================================================================
