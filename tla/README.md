# Intel XPU Manager: TLA+ verification

This directory holds TLA+ models of the parts of XPU Manager (`xpu-smi`, in C++) and of
`xpumd` (an OpenTelemetry collector distribution, in Go) that change state, run
concurrently or follow a protocol, TLC configurations that check them on small
instances, and TLAPS proofs of the safety properties for all sizes. `PROJECT.json` maps
every definition to the source lines it models and lists the hazards of the code, each
at its line, with the properties that cover it.

## 1. Inventory of the system

| Part | State | Operations | What is hard |
|---|---|---|---|
| `hal/core/logger` (`AsyncSink`) | bounded queue, four counters, worker thread, two condition variables | `log`, `flushNow`, `getStats`, destructor | lost and misdirected notifications, overflow policies, drain on shutdown |
| `hal/core` device managers | handles of the Level Zero driver | query and set calls | a setting is applied to several handles, and a call in the middle fails |
| `hal/amc` sessions | per card: socket, instance ID, EID, PLDM types, PDR repository | initialisation of every card, PDRs, sensors, FRU, file transfer, GPU reset | refused, late, lost and repeated responses; transfers in several parts |
| `hal/amc` PLDM firmware update | command sequence, package file, progress | `fwUpdInitialize`, `readFromFD`, `writeToAMCCompXfer` | failures at any command, requests in any order, cleanup |
| `hal/fwupd` | progress, shared flags | `updateAMC`, `updateFW` | flash and progress threads |
| `ial`: `main`, `config` | the settings of one command line | one setter per setting, exit code | unspecified order of settings, first error, resets that end the process |
| `ial`: `vgpu` with `oal/lin/linvf.cpp` | SR-IOV files of the kernel, `vgpu.conf` | create, remove | several processes without a lock, a kill between two writes |
| `ial`: `updatefw` with `oal/lin/fs_lock.cpp` | lock file, worker threads | lock, update, unlock | the lock file is unlinked when it is released |
| `ial`: `amc` | reset threads | GPU reset, sensor, file | choice of the card, result of several threads |
| `ial`: `dump`, `--query-gpu` | cache of counter snapshots, input thread, terminal, file | sampling loops, rates | failing, standing and restarted counters; keys and the end of the loop |
| `ial`: other read-only commands | - | query and print | sequential |
| `oal`: cold reset | sysfs files | power cycle of a slot | every write may be refused, the GPU comes back late or never |
| `oal`: rest | - | OS calls, HTTP, debug logs | sequential |
| `xpumd/receiver/intelxpu` | ring buffers of samples, devices, events | `add`, `collect`, scrape, attach/detach | wrap-around, several readers, rescans |
| `xpumd/receiver/intelcrashlog` | `processedFiles`, watcher | `Start`, `Shutdown`, scan, notifications | the directory changes meanwhile |
| `xpumd/processor/intelxpustatus` | thresholds | evaluation per batch | pure function |
| `xpumd/exporter/intelxpuinfo` | cached health data, client registries | two streaming calls, two pushes, `shutdown` | slow and broken clients, overlapping pushes, forced stop |
| `xpumd/level-zero-go/level-zero-stub` | tree of devices, watcher thread | Sysman calls, control API | the tree is replaced under its callers, three locks |
| bindings, charts, validation | - | - | no control of their own |

Interactions: the C++ side is layered `ial` -> `hal` -> `oal`; every layer logs
through the sink. Every command of `xpu-smi` is a process of its own; processes meet in
the kernel's files, in the lock file and in the devices. In `xpumd` the receivers feed
the processors, and those call the exporter's `pushMetrics` and `pushLogs`; the parts
share no state. The stub takes the driver's place in the tests of `xpumd`.

## 2. Modules

### AsyncSink (`hal/core/logger/async_sink.h`)

Variables are the class's members (`queue`, the counters, the stop flag) plus a
program counter per thread. A critical section of `queueMutex` is one step, except
where it ends in a wait: a thread that has evaluated its predicate and not begun to
wait is in `gap` and still holds the mutex. That is where notifications sent without
the mutex (`notify_one` after `unlock`, the destructor's `notify_all`) are lost.
`queueCv` has one set of waiters, worker and blocked producers, so `notify_one` may
wake either; wake-ups may be spurious. `WorkerTimeout` is the timeout of `wait_for`.
The worker retires a record in a step of its own (`WorkerRetire`) because the two
atomic increments of `processBatch` are visible in between. `nQueued` is read by
`flushNow` without the mutex (`FlushBegin`). A `log()` call may run out of memory while it
holds the mutex, after an eviction even (`EnqueueFails`). `delivered`, `evicted`, `drained`
(how much had been queued when `drainQueue` took the queue), `nLogged` and `nFailed` (the
numbers of `log()` calls and of those out of memory) are history variables.

### SampleWindow, AggregatedMetric (`xpumd/receiver/intelxpu/sysman/aggregated.go`)

`SampleWindow` says what a reader is promised: statistics over the newest
`BufferSize` samples since its last `collect` and the number of the earlier ones.
`AggregatedMetric` is the ring buffer with `head` and one tail per reader; every
operation runs under the struct's mutex, hence one step each. The buffer has one
slot more than requested, and the slot under `head` is never part of a window. The
average is kept as sum and number of samples. `ImplementsSampleWindow` instantiates
the abstract module with the window read out of the ring.

### CrashlogReceiver (`xpumd/receiver/intelcrashlog/receiver.go`)

The receiver's goroutine runs against an external directory in which files are put
by rename, replaced and removed at any time, with a bounded queue of notifications
that may overflow (fsnotify, external). A file has a number, so that two files under
one name are told apart. `handlePath` is one step (glob, `Lstat`, age, `processedFiles`),
reading and `ConsumeLogs` are steps of their own: the directory may change between
them. `PutFile` gives each file nondeterministically an age and a type (`eligible`) and
records what `EmittedOnce` excepts: whether it replaced a file of a processed name (`over`),
and how many Removes of its name were still queued (`stale`).

### DeviceInfoServer (`xpumd/exporter/intelxpuinfo/deviceinfo.go`, `exporter.go`)

One handler per client stream, pushers of metrics and logs, and `shutdown()` with its
goroutine. `healthDataLock` is a Go RWMutex, held for reading during `Send()`; a
waiting writer keeps new readers out. `sync.Map.Range` visits what was registered when
it began and not removed since, and may visit later registrations. `Send()` returns
when the client reads (`InitialSent`, `HealthSent`, `EventSent`), which nothing
forces, or fails when the stream is closed or its handler has returned. Health data
is the number of its push, and events are numbered per log pusher (`gotEvents`), as several
may push at a time; what the translators compute is left out. `Workloads` bounds
which clients connect and who pushes how often. `ClientsFreed` allows for the one thing
that may hold a goroutine back while the server runs, a client that does not read
(`Stalled`), and demands that `shutdown()` frees them all.

### SysmanDevice (`xpumd/receiver/intelxpu/sysman/{device,frequency,scraper,events}.go`)

The collector's scrape, the sampler and the event listener share the devices. The
device's RWMutex is read off the program counters: scrape (`scraped`) and sampler
(`polled`) hold it for reading, the rescan (`rescanned`) for writing from the moment
it asks for it, as a waiting writer keeps readers out. A driver call and the use of its
result are two steps, since the device may go and come back in between; the mutex of
the frequency's state spans both. The device is external: it is detached and attached
at any time, as itself or as another one (its `incarnation`), and calls succeed exactly
while it is present; other driver failures are left out. `"state"` stands for the four
metrics of the device (ECC, reset, PCI link, PCI counters), which are disabled one by
one after a failure, and the frequency domain for the scrapers of all subsystems; it is
the only one that is sampled. Metric values are left out.

### AmcFirmwareUpdate (`hal/amc/pldm_fwupdate*.cpp`, `hal/fwupd/amcupd.cpp`)

The update agent, the thread that runs it, the progress thread and `updateAMC()`. A
command is one step: its write may fail (the AMC is untouched), its read may fail
(the AMC has executed it), or the AMC refuses. The AMC is external and follows the
states that `fwuStates` names; it asks for any part of the image, in any order,
repeatedly and beyond the end, and may report a failure at each stage. It is assumed
to report a stage as successful only if it has all bytes of the component. Bytes are
their position in the package file, so that a wrong offset or a missing padding is
visible. Formats, CRCs and version strings are left out.

### AmcSession (`hal/amc`, `ial/cmn/cmd_amc.cpp`)

One process: `amcCardDiscovery()`, the session with every card (`initCommands`: MCTP
control commands, with the retries of SetEID, then PLDM discovery), and one operation:
the reset of the GPUs in a thread per card, a sensor (PDR repository, then the reading),
a file (open, multipart read, close) or the card information (FRU table in parts). A
request and the read of its response is one step (`Command`), since nothing else happens
on the card's socket between them; the file transfer is a step per packet. The AMC is external: it
may refuse, answer too late (the response is then what the next read finds in `outbox`)
or not at all, and packets may get lost or come twice. `misread` remembers that a
response was taken for another request's. Contents are positions in the file, so that
loss, repetition and disorder show. The conversions of sensor readings and the parsing of
FRU fields are left out.

### Amc

Composes the two: a process opens its sessions and then runs an operation or updates a
card, whose commands go on with the session's instance ID. Updates start from sessions
without a fault, as their own commands fail in every way already.

### XpuSmi, ConfigCommand, ColdReset, VgpuCommand, UpdateFwCommand, DumpCommand (`ial`, `hal/core`, `oal/lin`)

`XpuSmi` is `main()` with the dispatch and composes the commands that change something
and the sampling loops. `smiMode` chooses the command a behaviour is about: processes of different commands meet
nowhere but in the devices. `main()` is spelled out for `config`; the processes of
the others begin with their `run()`, whose refusals include those of `main()`.

* `ConfigCommand`: the settings of a command line are applied in an unspecified order
  (an `unordered_map`), each by a setter that goes through the handles of its kind.
  A driver call is one step and may fail; setters differ in what they do then (stop, go on, accept if one
  handle took the setting, look for another handle), and each is modelled as it is. A
  `gpu` is a record of its handles; tile and fan IDs keep their width (`TileBits`). `ignored`
  remembers the commands that went on after a query of the driver failed.
* `ColdReset`: the power cycle of the slot, one step per access of sysfs, against the
  kernel's PCI core (external), which removes, enumerates and binds in its own time. A
  sysfs file is written through a buffer, so a refused write is not seen (`refused`).
* `VgpuCommand`: processes that create and remove virtual functions, one step per file
  written, killed at any moment. Which sections of `vgpu.conf` a create takes its values from is
  `SectionsFor` or `LoneDefault`. What the PF and its clients use of the memory is an input
  (`OthersUse`), and the free memory keeps its width (`LmemBits`). No lock is taken; `vgOverlap`,
  `vgLost` and `vgWrapped` remember what excuses a property (two processes at a time, a refused
  write, a subtraction that wrapped).
* `UpdateFwCommand`: the lock file with its inodes (a lock belongs to an inode, a path may
  lose it), a worker thread per device, and `fwupd::updateFW()` with its progress thread.
* `DumpCommand`: both sampling loops on one device, with the cache that turns the
  snapshots of two samples into a rate, and the thread that waits for a key. A counter
  counts one event per tick of the device's clock, so a rate is a number of ticks; a
  timestamp of 0 means "no reading", as in the code. `dmSeen` is history: what the last two
  samples read in whole. A turn of a loop is one step, since a key pressed meanwhile is
  looked at when the next turn begins.

### LevelZeroStub (`xpumd/level-zero-go/level-zero-stub`)

A Sysman call takes `g_state_lock` once and is one step; calls are grouped by what they do
with the tree (enumerate, read a component, read by index, global calls). `Calls` joins the
sections of all of them; `StubTree` says what a file may hold. Handles
encode positions, cut to `HandleBits` bits each, and outlive the tree they came from. What a call
writes to the caller's buffer is recorded with its answer, also when a list reports that the
buffer is too small; what the peeks of an event listen write to the caller's count and events is
in `got`. An event listen gives the lock back to sleep;
`sysman_watch_start()` keeps it while it waits. The control API (load, reset, watch
start and stop) and the watcher thread use three locks; the file is external and is
replaced at any time, with parsing reduced to success or failure.

MC modules (`MCAsyncSink`, `MCDeviceInfoServer`, `MCAmc`, `MCXpuSmi`, `MCLevelZeroStub`)
add the functions, records and sequences that a configuration file cannot write
down.

Mutants (definitions whose name ends in `Mutant`) are plausible mistakes in the code;
each shows that a property notices one. They are used by no specification.

## 3. Runs

| Run | Bounds | Distinct states | Result |
|---|---|---|---|
| `asyncsink` | 2 producers, 1 flusher, destructor overlapping calls; a blocking or evicting queue of 1, one of 2 that rejects; batch of 2, 3 messages | 145,402 | passes |
| `asyncsink_flush` | 1 producer, queue of 1, `DropOldest` | - | `FlushDelivers` violated |
| `aggregated_metric` | 2 readers, buffer of 2, 2 values, lost counts up to 2 | 36,499 | passes |
| `crashlog` | a matching and another name, 3 files, 2 pending notifications | 605,873 | passes |
| `deviceinfo` | 1 client with 2 overlapping pushers and 3 pushes; 2 clients with 1 pusher and 2 pushes; an event client with batches of up to 2 events of 2 log pushers; shutdown at any time | 132,235 | passes |
| `amc` | 2 cards, 1 fault, a file of up to one part and a half, 4 PDRs, a sensor and a file with each ID, 3 sensor IDs, FRU table of 2 parts, 8 instance IDs; package with 2 components, transfers of 2 | 444,106 | passes |
| `amc_result` | 1 card, 1 component | - | `SuccessIsActivated` violated |
| `amc_device` | 2 cards, no fault | - | `ResetsNamedDevice` violated |
| `sysman_device` | 1 device, attached without limit, replaced once | 183,223 | passes |
| `xpu_smi` | `config`: every kind of command line on a GPU with and one without tiles; `vgpu`: 2 processes, 2 commands, 1 fault, others using 1 or all of a memory of 6; `updatefw`: 2 processes, 2 devices, 2 commands; `dump`: each kind of end, up to 3 rows (2 without a limit), 2 faults | 495,285 | passes |
| `fw_lock` | 2 processes, 3 commands, 1 device | - | `UpdatesExclude` violated |
| `level_zero_stub` | 2 control threads, 1 caller, 1 listener for one and for two devices, 4 functions on 4 handles, a buffer of 3, handles of 1 bit, files of one and of two devices, 2 replacements, 3 calls | 251,202 | passes |

What the passing runs show:

* `asyncsink`: counters are exact and the queue is bounded (`RetireAccounting`,
  `Capacity`), nothing but a call out of memory is uncounted (`NoSilentLoss`), a caller's messages stay in
  order (`CallOrder`), `flushNow()` and the destructor deliver what they promise
  (`FlushDeliversUnlessEvicting`, `ShutdownDelivers`), every call returns (`CallsReturn`).
* `aggregated_metric`: every sample is in a reader's window or counted as lost
  (`EverySampleAccounted`), and the ring implements the abstract window
  (`ImplementsSampleWindow`).
* `crashlog`: each eligible file is emitted, and once (`EmittedOnce`), but for failed reads, a
  lost notification and the two exceptions listed under further observations; `processedFiles`
  does not grow with files that are gone (`ProcessedPruned`), `Shutdown()` ends and nothing
  is emitted after it (`ShutdownIsFinal`).
* `deviceinfo`: `InitialSendAlone`, `BroadcastComplete` (a client that is registered
  throughout a push has been sent its data), `NeverBackwards` (no client sees older data
  after newer), `ClientsFreed`.
* `amc`: a successful update activates exactly the package (`ActivatesThePackage`), a failed
  one leaves the AMC idle and every one closes the file once, after a failed `fseek` twice
  (`FailureCleansUp`), a reported reset
  happened (`ResetIsReal`), a file is whole (`FileReadWhole`), sensor, card information and
  EIDs are those asked for (`AnswersWhatWasAsked`), the command ends (`AmcCommandEnds`).
* `sysman_device`: a scrape mixes no two devices (`ScrapeCoherent`), a device that came
  back is fully monitored again (`AttachRecovers`), samples of an earlier device are gone
  (`NoSamplesOfEarlierDevice`), attach and shutdown are served (`AttachAndShutdownServed`).
* `xpu_smi`: exit code 0 means that every setting was applied (`ExitCodeTells`,
  `SuccessMeansApplied`), to nothing but the selected handles (`WritesWithinSelection`); a
  reported cold reset took the power off (`ColdResetIsReal`); a successful `vgpu --create`
  provisions every VF and `--remove` gives everything back (`VfsProvisioned`,
  `RemoveGivesBack`); progress is printed within its update only and a failed device fails
  the command (`UpdateReported`); a rate is that of its two readings, and a bad reading costs
  no more than the rows it is part of (`RateOfTheTick`); a dump writes as many rows as it was
  told to and gives back its file and the terminal (`DumpEndsClean`); all processes end
  (`CommandsEnd`). Each statement names the exceptions the code has.
* `level_zero_stub`: a caller's buffer is never overrun, and what was enumerated resolves and
  is told apart (`HandlesFitAndResolve`), a listen that succeeds reports the tree of its return
  and an error has its reason there (`ListenIsCurrent`), a
  replaced file is loaded (`UpdateNotMissed`), control calls return (`ControlReturns`).

Why these bounds are enough to meet the interesting cases:

* with a blocking queue of one, two messages make a producer wait on `queueCv` together with
  the worker, and a third both producers: `notify_one` may wake the wrong one; in a queue
  of two a batch has an order; an eviction from a queue of one leaves it empty if the new
  record fails;
* a ring of three slots wraps within four samples and readers drift apart;
* three files under one name give processed, replaced and re-created files, and three
  notifications overflow a queue of two;
* two pushers overlap in every order of store and broadcast; two clients let a stalled one
  hold up the other;
* one fault per process is a refusal, a late, lost or repeated response anywhere; two
  faults were checked once without the liveness property;
  a component of 3 bytes with transfers of 2 has a request that reaches beyond its
  end into the next component; a file of 4 bytes in parts of 3 has a short last part;
* one device suffices for `sysman_device`, as every lock is a device's own; two
  incarnations tell what belongs to the earlier one;
* the two GPUs differ in every kind of handle (tiles in the driver's own order, locked and
  absent power limits, no ECC, no fans that can be set); the command lines combine a setting with each
  value of tile and fan that the code treats differently;
* two `vgpu` processes create and remove over each other, and a kill may fall between any
  two writes; three runs of `updatefw` are the fewest that break the lock;
* three rows after two failures or restarts show a bad reading as the last and as the first
  of a rate, and a good row after it; the input thread is at each of its points when a loop ends;
* a GPU whose others use all of its memory leaves less than `lmem_spare`, so that the free memory wraps;
* two control threads and the watcher are the fewest that wait for each other in the stub; four
  entries for a buffer of three and handles of one bit are cut off and alias, two are not; a
  listen for two devices of which a reload takes one away ends with an error half way.

`deviceinfo`, `xpu_smi` and `level_zero_stub` do not check for deadlock: with every
process ended, every client gone and every call used up, nothing is left to do.
`CommandsEnd`, `ClientsFreed` and `ControlReturns` say what must not get stuck.

### Disagreements with the documentation

The four runs that expect a violation show them (`findings` in `PROJECT.json`):

* `flushNow()` may return before delivery under the default policy `DropOldest`;
* a failing `GetStatus` or `ActivateFirmware` is reported as a successful update;
* `xpu-smi amc --gpureset` with a PCI address resets card 0;
* the firmware update lock is unlinked when it is released, so that two updates may run.

### Further observations

Behaviour met while modelling that a maintainer should know of; properties state these as
exceptions, or they are outside the models.

* Sink: `Sink::log` is `noexcept` and swallows a backend's exception, so failures are counted
  as processed, although `Stats` says of `processed` "successfully sent to backend" and of
  `dropped` "overflow or backend error" (`async_sink.h:67-68`, also `:194-195`); a `log()` call that runs
  out of memory is counted nowhere; if it has evicted the only record of a queue of one before,
  a `flushNow()` that waits for that record is not notified (`Stranded`).
* Crash logs: a file renamed over a processed name is not emitted (a Create without a Remove);
  a file put under a name whose Remove is still queued is emitted twice if the scan reads it
  first, as the late Remove prunes the new file's name too; an overflow of the kernel's queue
  is only logged, without a new scan.
* Device info: a client that does not read holds `healthDataLock`, and with it every push
  and every new client, until it goes or the server shuts down.
* `config`: `_Exit(0)` after a reset hides failures of other settings; a huge scheduler
  value throws out of `stoull` and aborts; standby and power limit ignore `--tile`; a failing ECC query
  is taken as "not supported", so that `--memoryecc 0` reports a GPU with ECC as done
  (`ecc.cpp:81-121`, `cmd_config.cpp:1351-1359`; excepted by `SuccessMeansApplied`); a frequency
  range for all tiles of a GPU without GPU domain succeeds. `WritesWithinSelection` excepts, and
  the code does: tile 0 means the whole device if the number of subdevices cannot be asked for
  (`frequency.cpp:532-546`); tile 2^32 - 1 means all tiles (`frequency.cpp:496-505`); the
  device's scheduler is changed for a tile without a readable one (`frequency.cpp:949-971`).
* Cold reset: writes refused by the kernel are not noticed; a GPU that comes back at the
  last poll counts as a failure; a kill between off and on leaves the slot off.
* `vgpu`: `lmemSizeFree -= lmem_spare` wraps (`linvf.cpp:520`) if `vram_mm` cannot be read or
  less than `lmem_spare` is free, and a create then passes the check for any size; `writeFile()`
  ignores write errors; removing after a killed create leaves quotas; `vgpu.conf:11-15` calls the
  quotas of a DEF section "Equally divided to each vgpu", but a lone one is given to each VF whole
  (`linvf.cpp:567-568`). `VfsProvisioned` states both as its exceptions.
* `updatefw` with the AMC type and no card reports success.
* `dump`: a memory reading that fails at a later module leaves a partial sum with a
  timestamp, and the next row reports a rate against it, although the comment in
  `metrics_registry.cpp` asks for a successful call at both ends; counters that begin again
  make PCI and memory rates wrap, while utilization reports 0 and power N/A; if the PCI
  properties cannot be read at the start, PCI rates are N/A for the whole run; the input thread is
  also started with a count and a file, or with a time and no file, which its comment denies,
  and as it is detached it may make the terminal raw after `restoreTerminal()`; `getch()`
  leaves `ISIG` set, so Ctrl-C is a signal and leaves the terminal raw; `--time` is looked
  at after the second row only; a negative `--count` makes a loop that no key ends.
* AMC: responses are mostly not compared with requests, so that a late response to SetEID
  shifts all later ones (`misread`), although three comments say that the instance ID is
  compared: `mctp_control_resp.cpp:65-81` ("Instance ID matches original request"),
  `pldm_discovery_resp.cpp:122-133` and `pldm_fru_resp.cpp:121-132`; DF_OPEN and SETTID,
  DF_CLOSE and GETTID share codes; `pfGetSensorValuesById` takes the first PDR of any type
  with the ID, where its comment says "the sensor PDR" (`pldm_platform.cpp:373`); after a failed
  `fseek` the package file is closed by `writeToAMCCompXfer` and again by `fwUpdInitialize`
  (`pldm_fwupdate_helper.cpp:315`, `pldm_fwupdate.cpp:244`); a multipart
  receive ends successfully on a short part that is not the last; the PDR, FRU and
  multipart loops and `readFromFD()` end only when the AMC lets them; a lost response to DF_OPEN leaves
  the file open; `amcGetCardInfo` refuses a version longer than the serial number;
  `done * 100` in the progress callbacks overflows 32 bits for large images;
  `--device -1` resets every card; `amc.rst` names file type 0, the code accepts 1 to 4.
* Stub: `sysman_watch_start()` behind another one waits with `g_state_lock` held while the
  watcher needs it (`StartBehind`); a refused start has already overwritten
  `g_watch_path`; a file changed before the watch is registered is not seen. An event listen
  that ends with an error leaves the count of an earlier look, and events of devices that the
  last look did not come to (`zes_stub.c:1111-1142`). A list that reports `INVALID_SIZE` has filled
  the buffer and leaves the count alone (`:349-352`). More than 2^16 entries of a kind alias
  (`sysman_state.h:51-57`). `zesDevicePciLinkSpeedUpdateExt` cannot be made unsupported, and
  `zesFabricPortGetMultiPortThroughput` skips ports that do not resolve, whichever device they
  belong to, without telling which.

### Fairness

Only threads of the program are assumed to be scheduled; no environment action is
fair: nobody has to log, connect, read, push, change the directory, replace a file or
shut down, the kernel need not bring a device back, and an AMC that is being updated need
not ask for anything.

* AsyncSink: strong fairness of each thread, as some steps need `queueMutex` and a mutex that
  is free again and again is eventually had; the others stay enabled until taken.
* CrashlogReceiver: weak fairness of the goroutine (including that the consumer
  returns) and strong fairness of `RunDone`: Go's `select` picks at random among the
  ready cases, so it cannot pass over the cancelled context for ever.
* DeviceInfoServer: strong fairness of the health handlers and metric pushers, which need
  `healthDataLock` (an `RWMutex` starves nobody), weak fairness of event handlers and log
  pushers and of shutdown including its timeout. `Send()` to a client that does not read is
  not fair.
* Amc: weak fairness of the session's process, whose reads have a timeout, and of the
  threads of `updateAMC()`; the agent's wait for the AMC is not fair.
* SysmanDevice: weak fairness of the event listener, strong fairness of sampler and
  scrape, which wait at the device's lock and at the frequency's mutex; neither starves
  anybody. Strong fairness of `SamplerDone` because `select` picks at random.
* XpuSmi: weak fairness of the steps of the `config` process, of the main thread of a `dump`
  (nobody has to press a key, and its input thread need not run) and of each `updatefw`
  process and its threads. `vgpu` has none: its properties are safety and it may be killed.
* LevelZeroStub: weak fairness of control calls under way, of the watcher and of a
  listener's periodic wake-up; starting a call is not fair.

## 4. Proofs

Every safety property that a run checks, and the refinement of `SampleWindow`, is also a
theorem: it holds for every value of the constants that their assumptions admit. Eight
modules hold the proofs, one beside each model (`XpuSmiProofs` for all commands,
`AmcProofs` for update and sessions). Each has an inductive invariant, kept by every step:
one lemma per action, or per conjunct with one step per action. The properties themselves
are seldom inductive; what has to be added is said below.

**AsyncSinkProofs.** `IInv` adds three parts to the types and the two counting invariants:
`BatchInv` (the batch is empty exactly where the worker's program counter says so, otherwise
`WorkerRetire` could retire what is not there), `OrderInv` (without eviction, delivered
records, batch and queue carry the consecutive numbers 1..`nQueued`, which turns the count
that `flushNow()` waits for into a statement about messages) and `TargetInv` (a flusher that
returned has seen its target retired or the stop flag). Four more give the other
properties: `CallInv` (backend, batch and queue hold a thread's records in the order of its
calls) gives `CallOrder`; `KeptInv` (each queued record is evicted, delivered, in the batch
or in the queue), `StopInv` (how far destructor and worker are) and `LateInv` (after
`drainQueue()` the queue holds only what was queued after it) give `ShutdownDelivers`. `NoSilentLoss`
counts the threads inside `enqueue()`, which is where the set of producers has to be finite.

**AggregatedMetricProofs.** `EverySampleAccounted` is inductive with the types: arithmetic
modulo the size of the ring. `ImplementsTheWindow` maps every step to a step of
`SampleWindow` or to a stutter. Its lemmas say what the window between tail and head is
after `add` and `collect`, and what the loops over it return. The loops are recursive
functions; that they compute sum, minimum and maximum of the window is shown by taking a
smallest counterexample (`WFMin` of the library's well-founded induction), since no
induction theorem can be instantiated.

**CrashlogReceiverProofs.** The link between directory and goroutine are the notifications
in the queue. `ControlInv` relates the program counters; `EmitInv` says which notification
stands for a file not emitted yet, `PruneInv` which one for a processed name that is gone,
`DuplicateInv` that records given and records still to come of the file under a name are no
more than one and the Removes that were queued when it was put there. `SilentAfterShutdown` is the safety half of `ShutdownIsFinal`.

**DeviceInfoServerProofs.** `PushInv`: a broadcast deals only with clients of its kind that
have registered. `ReceivedInv`: what a client has received is what was
pushed so far, and who is not visited yet has nothing of this batch. `OwedInv`: a client owed
a broadcast is still to be visited, has it, or is broken. `NeverBackwards` is an action
property and follows from `ReceivedInv` before the step.

**SysmanDeviceProofs.** `LockInv`: a device without readers only is scanned again.
`ScrapeInv` and `SampleInv`: what a scrape or a sampler has in hand is of the device that it
has locked. `RecoverInv`: what was disabled, or not read, is so because of a device that an
attach event will have scanned again.

**XpuSmiProofs.** The processes of different commands share nothing, so each part has its
own invariant under the steps of all:

* `ColdInv`: what must have happened before each phase of the cold reset is reached;
* `FwInv` (`JobGood` per worker): the phase of an update's worker says what came of it, and
  whether its progress thread has ended;
* `DmInv`: `RowsInv` counts rows and samples, `InputInv` relates the input thread, the
  terminal and the loop, `CacheInv` says that the cached snapshot is that of the last sample
  that was read. `RateOfTheTick` needs the assumption that no counter wraps;
* `CfgInv`: `RunInv` keeps the books of `run()` (settings done, failed, to do), and
  `CallInv` says of the setter under way which of its handles are written and which owners it
  may reach after a failed query, with parts of its own
  for the setters whose loops differ (`FrequencyInv`, `FanInv`); `ExitInv` adds `main()`;
* `VgInv`: `InFiles` ties the quotas of the VFs' files to what the device has, `Alone` says that
  at most one process is at work unless the properties are excused, and `AtWork` what the one
  at work has written and has left to write; unless a subtraction wrapped, the free memory it
  read is what neither VFs nor others have (`Known`). The memory of the VFs is a sum over a set; lemmas
  (`Lmem...`) say that it grows and shrinks by what is written, proved by a smallest
  counterexample as above; `AttrsCombined` says what a create computes from `vgpu.conf`.

**AmcProofs.** The update has `UpdInv`: where agent, package file and AMC are (`AgentInv`,
`StageInv`), what was applied (`AppliedInv`), and that what was transferred is the package
byte by byte (`ImageInv`). The sessions have `SessionInv`, whose core is `AgeInv`: the
unread responses of a card are at most `RETRY_COUNT` and carry the instance IDs used just
before that of the next request, so that none can pass for the answer to a reset. That is why
the retries have to be fewer than the IDs. `FileInv` says which packets may be in the way of a part
of the file and that the bytes so far are a prefix of it; `CleanInv` that without a fault
nothing is in the way; `EidInv`, `PdrInv` and `FruInv` that EIDs, records (the first one with the
sensor's ID) and FRU table are those asked for as long as no response of an earlier request was read.

**LevelZeroStubProofs.** `CallsOk` goes through the tables of all 117 calls. `StubInv` types the
tree, the files and the paths; then a handle that resolves leads to a device
(`DeviceFound`), an entry below the total of an enumeration resolves (`EntryResolves`), as
cutting a position off makes it no larger (`ModBelow`), and positions that fit the bits give
different handles (`EntryTells`): these, and that no more ports are read than were asked for
(`PortsFit`), are `HandlesFitAndResolve`. For `ListenIsCurrent`, `PeekIsCurrent` says what one
look leaves in buffers that earlier looks have written, and `Looked` that a listen returns by
such a look, with its count or at its timeout.

### Assumptions

TLC evaluates them in the runs. Most give the constants' types; these say more:

* `AsyncSinkAssumption`: sizes are positive (the constructor throws on 0), producers finitely many;
* `AmcAssumption`: components are not empty and lie within the package file, the transfer size
  is positive, there are at least two instance IDs;
* `AmcSessionAssumption`: a part of a file is larger than 1 byte, an AMC has at least one PDR, and the
  retries of SetEID are fewer than the instance IDs less one (3 and 32 in the code);
* `DumpAssumption`: counters do not wrap within the rows of a dump, times and counts are as
  the parsers leave them;
* `VgAssumption`: sizes are 31-bit numbers of MiB, so that the product with the number of VFs
  does not wrap in 64 bits or, for a negative number, stays above any memory size; and
  `MaxVfNum`, the key of a default section, is above the number of VFs a GPU has; the memory
  fits its bits and is no smaller than `lmem_spare`;
* `StubAssumption`: files hold trees, handles are finitely many and their positions fit the bits,
  the functions called are in `Calls`.

### Only model-checked

* Liveness under fairness, which the prover does not reach: `CallsReturn`, `ClientsFreed`,
  `AmcCommandEnds`, `AttachAndShutdownServed`, `CommandsEnd`, `UpdateNotMissed`,
  `ControlReturns`, and that `Shutdown()` ends in `ShutdownIsFinal`.
* The four runs that expect a violation are counterexamples and need no proof.

## 5. Plan

1. Done: the modules, runs and proofs above.
2. Next models: the counter rates of the sysman subsystems (wrap-around against a
   replaced device) and SysmanDevice composed with AggregatedMetric; the status processor
   and the translators (the worst state must not depend on the order of data points); the
   GSC firmware tools; the debug logs.
3. Done: a theorem for every safety property of the runs and for the refinement.
4. Next proofs: those of the next models; the shape of `StubTypeOK` and of the other type
   invariants that no property needed.

## 6. Not modelled

* The other read-only commands of `xpu-smi` (discovery, stats, topology, ...), the queries of
  the device managers and the metric streamer: each asks the driver once and formats the
  answer; nothing is kept, nothing runs concurrently, and their correctness is in
  data conversions that a model would only repeat.
* The Level Zero headers `ze_api.h` and `zes_api.h` (27,500 lines, vendored), the generated
  Go bindings, and the Windows variant of the OS layer.
* Command-line syntax, file formats, output and network I/O.

These make up most of the repository's lines: the share of lines that `map` covers is
bounded by them.

Memory ordering is taken as sequentially consistent; the counters of AsyncSink use acquire
and release, or are read under the mutex. Out of the AMC update: 32-bit overflow of the
progress percentage and components of size 0. The thread wrapper `hal/core/threading.cpp`
initialises a result after the thread's start; only tests use it. Two log pushers whose
`Send()` calls overlap on one stream, which gRPC forbids, are modelled as two calls, one after the other.
