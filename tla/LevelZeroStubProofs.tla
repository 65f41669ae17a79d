------------------------ MODULE LevelZeroStubProofs ------------------------
(***************************************************************************)
(* Proofs about LevelZeroStub: what the tables of the calls say, what a    *)
(* handle that resolves leads to, the types of the tree, the files and the *)
(* paths (StubInv), and from them what an enumeration and a listen answer. *)
(***************************************************************************)
EXTENDS LevelZeroStub, SequenceTheorems, FiniteSetTheorems, TLAPS

(* What the sections say of a call: the handle a list or an enumeration is *)
(* asked of, and that only the components of a device are cleared.         *)
CallOk(c) ==
  /\ c.on \in Kinds \cup {"driver", "device", "system"}
  /\ c.of \in Kinds \cup {"driver", "device", "none"}
  /\ c.of = "driver" => c.on = "system"
  /\ c.of = "device" => c.on = "driver"
  /\ c.of \in Kinds => c.on = "device"
  /\ c.of = "none" => c.shape \notin {"enum", "optEnum"}
  /\ c.shape \in {"list", "sized"} => c.on # "system"
  /\ c.shape = "clear" => c.on = "ras"
  /\ c.shape = "multi" => c.of = "none"

SectionOk(s) == \A fn \in DOMAIN s : CallOk(s[fn])

LEMMA SectionsOk == \A s \in Sections : SectionOk(s)
<1>1. SectionOk(DriverCalls) /\ SectionOk(DeviceCalls) /\ SectionOk(PciCalls)
  BY DEF SectionOk, CallOk, DriverCalls, DeviceCalls, PciCalls, On, Kinds
<1>2. SectionOk(OverclockDeviceCalls) /\ SectionOk(OverclockDomainCalls)
  BY DEF SectionOk, CallOk, OverclockDeviceCalls, OverclockDomainCalls, On, EnumOf, Kinds
<1>3. SectionOk(DiagnosticsCalls) /\ SectionOk(EccCalls) /\ SectionOk(EngineCalls)
  BY DEF SectionOk, CallOk, DiagnosticsCalls, EccCalls, EngineCalls, On, EnumOf, Kinds
<1>4. SectionOk(FabricPortCalls) /\ SectionOk(FanCalls) /\ SectionOk(FirmwareCalls)
  BY DEF SectionOk, CallOk, FabricPortCalls, FanCalls, FirmwareCalls, On, EnumOf, Kinds
<1>5. SectionOk(FrequencyCalls) /\ SectionOk(LedCalls) /\ SectionOk(MemoryCalls)
  BY DEF SectionOk, CallOk, FrequencyCalls, LedCalls, MemoryCalls, On, EnumOf, Kinds
<1>6. SectionOk(PerformanceCalls) /\ SectionOk(PowerCalls) /\ SectionOk(PsuCalls)
  BY DEF SectionOk, CallOk, PerformanceCalls, PowerCalls, PsuCalls, On, EnumOf, Kinds
<1>7. SectionOk(RasCalls) /\ SectionOk(SchedulerCalls)
  BY DEF SectionOk, CallOk, RasCalls, SchedulerCalls, On, EnumOf, Kinds
<1>8. SectionOk(StandbyCalls) /\ SectionOk(TemperatureCalls)
  BY DEF SectionOk, CallOk, StandbyCalls, TemperatureCalls, On, EnumOf, Kinds
<1> QED
  BY <1>1, <1>2, <1>3, <1>4, <1>5, <1>6, <1>7, <1>8 DEF Sections

LEMMA CallsOk == \A fn \in DOMAIN Calls : CallOk(Calls[fn])
<1> SUFFICES ASSUME NEW fn \in DOMAIN Calls
             PROVE  CallOk(Calls[fn])
  OBVIOUS
<1>1. DOMAIN Calls = UNION {DOMAIN s : s \in Sections}
  BY DEF Calls
<1>2. \E s \in Sections : fn \in DOMAIN s
  BY <1>1
<1> DEFINE sec == CHOOSE s \in Sections : fn \in DOMAIN s
<1>3. sec \in Sections /\ fn \in DOMAIN sec
  BY <1>2, Zenon
<1>4. Calls[fn] = sec[fn]
  BY <1>1 DEF Calls
<1> HIDE DEF sec
<1> QED
  BY <1>3, <1>4, SectionsOk DEF SectionOk

-----------------------------------------------------------------------------
(* The tree *)

(* What a handle of a kind that resolves leads to.                         *)
LEMMA DriverFound ==
  ASSUME stTree \in StubTree, NEW h, h.drv \in Nat, NEW kind, kind # "system", Resolves(h, kind)
  PROVE  /\ h.drv + 1 \in DOMAIN stTree.drivers
         /\ DriverOf(h) \in StubDriver
<1>1. stTree.drivers \in Seq(StubDriver)
  BY DEF StubTree
<1>2. h.drv < Len(stTree.drivers)
  BY DEF Resolves
<1> QED
  BY <1>1, <1>2 DEF DriverOf

LEMMA DeviceFound ==
  ASSUME stTree \in StubTree, NEW h, h.drv \in Nat, h.dev \in Nat,
         NEW kind, kind \in Kinds \cup {"device"}, Resolves(h, kind)
  PROVE  /\ h.dev + 1 \in DOMAIN DriverOf(h).devices
         /\ DeviceOf(h) \in StubDevice
<1>1. kind # "system" /\ kind # "driver"
  BY DEF Kinds
<1>2. DriverOf(h) \in StubDriver
  BY <1>1, DriverFound
<1>3. DriverOf(h).devices \in Seq(StubDevice)
  BY <1>2 DEF StubDriver
<1>4. h.dev < Len(DriverOf(h).devices)
  BY <1>1 DEF Resolves
<1> QED
  BY <1>3, <1>4 DEF DeviceOf

(* A call that is answered has resolved its handle.                        *)
LEMMA AnsweredResolves ==
  ASSUME NEW fn, NEW h, NEW arg, Answer(fn, h, arg) # "null_handle"
  PROVE  Resolves(h, Calls[fn].on)
  BY Zenon DEF Answer

(* How many there are is a number.                                         *)
LEMMA TotalIsNat ==
  ASSUME stTree \in StubTree, NEW fn, CallOk(Calls[fn]), Fills(fn), NEW h,
         h.drv \in Nat, h.dev \in Nat, Resolves(h, Calls[fn].on)
  PROVE  Total(fn, h) \in Nat
<1> DEFINE c == Calls[fn]
<1>1. CASE c.of = "driver"
  <2>1. Total(fn, h) = Len(stTree.drivers)
    BY <1>1 DEF Total
  <2> QED BY <2>1 DEF StubTree
<1>2. CASE c.of = "device"
  <2>1. Total(fn, h) = Len(DriverOf(h).devices)
    BY <1>2 DEF Total
  <2>2. c.on = "driver"
    BY <1>2 DEF CallOk
  <2>3. DriverOf(h) \in StubDriver
    BY <2>2, DriverFound
  <2> QED BY <2>1, <2>3 DEF StubDriver
<1>3. CASE c.of \in Kinds
  <2>1. c.of \notin {"driver", "device", "none"}
    BY <1>3 DEF Kinds
  <2>2. Total(fn, h) = DeviceOf(h).n[c.of]
    BY <2>1 DEF Total
  <2>3. c.on = "device"
    BY <1>3 DEF CallOk
  <2>4. DeviceOf(h) \in StubDevice
    BY <2>3, DeviceFound
  <2> QED BY <2>2, <2>4, <1>3 DEF StubDevice
<1>4. CASE c.of = "none"
  <2>1. Total(fn, h) = Object(h, c.on).items
    BY <1>4 DEF Total
  <2>2. c.shape \in {"list", "sized"}
    BY <1>4 DEF Fills, CallOk
  <2>3. c.on # "system"
    BY <2>2 DEF CallOk
  <2>4. CASE c.on = "driver"
    BY <2>1, <2>4, DriverFound DEF Object, StubDriver
  <2>5. CASE c.on # "driver"
    <3>1. c.on \in Kinds \cup {"device"}
      BY <2>3, <2>5 DEF CallOk
    <3>2. DeviceOf(h) \in StubDevice
      BY <3>1, DeviceFound
    <3>3. Object(h, c.on) = DeviceOf(h)
      BY <2>3, <2>5 DEF Object
    <3> QED BY <2>1, <3>2, <3>3 DEF StubDevice
  <2> QED BY <2>4, <2>5
<1> QED
  BY <1>1, <1>2, <1>3, <1>4 DEF CallOk

(* The smaller and the larger of two numbers.                              *)
LEMMA MinOfTwo ==
  ASSUME NEW m \in Int, NEW n \in Int
  PROVE  Min({m, n}) \in {m, n} /\ Min({m, n}) <= m /\ Min({m, n}) <= n
<1>1. \E x \in {m, n} : \A y \in {m, n} : x <= y
  OBVIOUS
<1>2. Min({m, n}) \in {m, n} /\ \A y \in {m, n} : Min({m, n}) <= y
  BY <1>1, Zenon DEF Min
<1> QED
  BY <1>2

LEMMA MaxOfTwo ==
  ASSUME NEW m \in Int, NEW n \in Int
  PROVE  Max({m, n}) \in {m, n} /\ m <= Max({m, n}) /\ n <= Max({m, n})
<1>1. \E x \in {m, n} : \A y \in {m, n} : x >= y
  OBVIOUS
<1>2. Max({m, n}) \in {m, n} /\ \A y \in {m, n} : Max({m, n}) >= y
  BY <1>1, Zenon DEF Max
<1> QED
  BY <1>2

(* What is left of a position in the bits of a handle.                     *)
LEMMA ModSmall ==
  ASSUME NEW x \in Nat, NEW m \in Int, x < m
  PROVE  x % m = x
  OBVIOUS

LEMMA ModBelow ==
  ASSUME NEW x \in Nat, NEW m \in Nat \ {0}
  PROVE  x % m \in Nat /\ x % m <= x
<1>1. x % m \in 0 .. m - 1
  OBVIOUS
<1>2. CASE x < m
  BY <1>2, ModSmall
<1>3. CASE ~ x < m
  BY <1>1, <1>3
<1> QED
  BY <1>2, <1>3

(* An entry of an enumeration, below the total, resolves: the position in  *)
(* its handle is no later than its own.                                    *)
LEMMA EntryResolves ==
  ASSUME NEW fn, CallOk(Calls[fn]), Calls[fn].of # "none", NEW h,
         Resolves(h, Calls[fn].on), NEW j \in Nat, NEW total \in Nat, total = Total(fn, h), j < total
  PROVE  Resolves(Entry(Calls[fn].of, h.drv, h.dev, j), Calls[fn].of)
<1> DEFINE c == Calls[fn]
<1>0. PICK pos \in Nat : pos = j % (2 ^ HandleBits) /\ pos < total
  <2>1. 2 ^ HandleBits \in Nat \ {0}
    BY StubAssumption
  <2>2. PICK m \in Nat \ {0} : m = 2 ^ HandleBits
    BY <2>1
  <2>3. j % m \in Nat /\ j % m <= j
    BY ModBelow
  <2> QED BY <2>2, <2>3
<1> SUFFICES ASSUME NEW e, e = Entry(c.of, h.drv, h.dev, j)
             PROVE  Resolves(e, c.of)
  OBVIOUS
<1>1. CASE c.of = "driver"
  <2>1. e = Handle("driver", pos, 0, 0)
    BY <1>0, <1>1 DEF Entry
  <2>2. e.kind = "driver" /\ e.drv = pos
    BY <2>1 DEF Handle
  <2>3. Total(fn, h) = Len(stTree.drivers)
    BY <1>1 DEF Total
  <2> QED BY <1>0, <1>1, <2>2, <2>3 DEF Resolves
<1>2. CASE c.of = "device"
  <2>1. e = Handle("device", h.drv, pos, 0)
    BY <1>0, <1>2 DEF Entry
  <2>2. e.kind = "device" /\ e.drv = h.drv /\ e.dev = pos
    BY <2>1 DEF Handle
  <2>3. Total(fn, h) = Len(DriverOf(h).devices)
    BY <1>2 DEF Total
  <2>4. c.on = "driver"
    BY <1>2 DEF CallOk
  <2>5. h.drv < Len(stTree.drivers)
    BY <2>4 DEF Resolves
  <2>6. DriverOf(e) = DriverOf(h)
    BY <2>2 DEF DriverOf
  <2> QED BY <1>0, <1>2, <2>2, <2>3, <2>5, <2>6 DEF Resolves
<1>3. CASE c.of \in Kinds
  <2>1. c.of \notin {"driver", "device", "system"}
    BY <1>3 DEF Kinds
  <2>2. e = Handle(c.of, h.drv, h.dev, pos)
    BY <1>0, <2>1 DEF Entry
  <2>3. e.kind = c.of /\ e.drv = h.drv /\ e.dev = h.dev /\ e.comp = pos
    BY <2>2 DEF Handle
  <2>4. Total(fn, h) = DeviceOf(h).n[c.of]
    BY <2>1 DEF Total
  <2>5. c.on = "device"
    BY <1>3 DEF CallOk
  <2>6. h.drv < Len(stTree.drivers) /\ h.dev < Len(DriverOf(h).devices)
    BY <2>5 DEF Resolves
  <2>7. DriverOf(e) = DriverOf(h) /\ DeviceOf(e) = DeviceOf(h)
    BY <2>3 DEF DriverOf, DeviceOf
  <2> QED BY <1>0, <2>3, <2>4, <2>6, <2>7 DEF Resolves
<1> QED
  BY <1>1, <1>2, <1>3 DEF CallOk

(* Two handles of an enumeration are the same only if the bits cannot tell *)
(* their positions apart.                                                  *)
LEMMA EntryTells ==
  ASSUME NEW of, NEW drv, NEW dev, NEW i \in Nat, NEW k \in Nat,
         i < 2 ^ HandleBits, k < 2 ^ HandleBits,
         Entry(of, drv, dev, i) = Entry(of, drv, dev, k)
  PROVE  i = k
<1>1. 2 ^ HandleBits \in Nat
  BY StubAssumption
<1>2. PICK m \in Nat : m = 2 ^ HandleBits
  BY <1>1
<1>3. i % m = i /\ k % m = k
  <2>1. m \in Int /\ i < m /\ k < m
    BY <1>2
  <2> QED BY <2>1, ModSmall
<1>4. PICK a, b : a = Entry(of, drv, dev, i) /\ b = Entry(of, drv, dev, k)
  OBVIOUS
<1>5. CASE of = "driver"
  <2>1. a = Handle(of, i, 0, 0) /\ b = Handle(of, k, 0, 0)
    BY <1>2, <1>3, <1>4, <1>5 DEF Entry
  <2>2. a.drv = i /\ b.drv = k
    BY <2>1 DEF Handle
  <2> QED BY <2>2, <1>4
<1>6. CASE of = "device"
  <2>1. a = Handle(of, drv, i, 0) /\ b = Handle(of, drv, k, 0)
    BY <1>2, <1>3, <1>4, <1>6 DEF Entry
  <2>2. a.dev = i /\ b.dev = k
    BY <2>1 DEF Handle
  <2> QED BY <2>2, <1>4
<1>7. CASE of \notin {"driver", "device"}
  <2>1. a = Handle(of, drv, dev, i) /\ b = Handle(of, drv, dev, k)
    BY <1>2, <1>3, <1>4, <1>7 DEF Entry
  <2>2. a.comp = i /\ b.comp = k
    BY <2>1 DEF Handle
  <2> QED BY <2>2, <1>4
<1> QED
  BY <1>5, <1>6, <1>7

(* Clearing the error counts of a device leaves a tree.                    *)
LEMMA ClearedIsTree ==
  ASSUME stTree \in StubTree, NEW h, h.drv \in Nat, h.dev \in Nat, Resolves(h, "ras")
  PROVE  [stTree EXCEPT !.drivers[h.drv + 1].devices[h.dev + 1].errors = 0] \in StubTree
<1> DEFINE i == h.drv + 1
           j == h.dev + 1
           dev == [DeviceOf(h) EXCEPT !.errors = 0]
           devs == [DriverOf(h).devices EXCEPT ![j] = dev]
           drv == [DriverOf(h) EXCEPT !.devices = devs]
           drvs == [stTree.drivers EXCEPT ![i] = drv]
<1>1. "ras" \in Kinds /\ "ras" # "system"
  BY DEF Kinds
<1>2. i \in DOMAIN stTree.drivers /\ DriverOf(h) \in StubDriver
  BY <1>1, DriverFound
<1>3. j \in DOMAIN DriverOf(h).devices /\ DeviceOf(h) \in StubDevice
  BY <1>1, DeviceFound
<1>4. dev \in StubDevice
  BY <1>3 DEF StubDevice
<1>5. DriverOf(h).devices \in Seq(StubDevice)
  BY <1>2 DEF StubDriver
<1> HIDE DEF dev
<1>6. devs \in Seq(StubDevice)
  BY <1>3, <1>4, <1>5, ExceptSeq
<1> HIDE DEF devs
<1>7. drv \in StubDriver
  BY <1>2, <1>6 DEF StubDriver
<1>8. stTree.drivers \in Seq(StubDriver)
  BY DEF StubTree
<1> HIDE DEF drv
<1>9. drvs \in Seq(StubDriver)
  BY <1>2, <1>7, <1>8, ExceptSeq
<1> HIDE DEF drvs
<1>10. [stTree EXCEPT !.drivers = drvs] \in StubTree
  BY <1>9 DEF StubTree
<1>11. [stTree EXCEPT !.drivers[h.drv + 1].devices[h.dev + 1].errors = 0]
         = [stTree EXCEPT !.drivers = drvs]
  BY DEF drvs, drv, devs, dev, DriverOf, DeviceOf
<1> QED
  BY <1>10, <1>11

-----------------------------------------------------------------------------
(* The invariant *)

(* The tree is one that some file held, but for cleared counts; what the   *)
(* paths lead to is read from the files or is no path at all; the other    *)
(* variables are tables with the fields that the steps write.              *)
TreeTyped == stTree \in StubTree
FilesTyped ==
  /\ DOMAIN stFile = StubPaths
  /\ \A p \in StubPaths : stFile[p].tree \in StubTrees \cup {NoTree}
PathsTyped == stPath \in StubPaths \cup {NoPath}
WatchTyped ==
  /\ "path" \in DOMAIN stWatch
  /\ stWatch.path \in StubPaths \cup {NoPath}
CallsTyped ==
  /\ DOMAIN stApi = ApiThreads /\ DOMAIN stListen = Listeners
  /\ \A l \in Listeners : {"pc", "req", "slept", "got"} \subseteq DOMAIN stListen[l]

StubInv == TreeTyped /\ FilesTyped /\ PathsTyped /\ WatchTyped /\ CallsTyped

LEMMA EmptyIsTree == EmptyTree \in StubTree
  BY DEF EmptyTree, StubTree

LEMMA StubAtFirst == StubInit => StubInv
<1> SUFFICES ASSUME StubInit
             PROVE  StubInv
  OBVIOUS
<1>1. stFile \in [StubPaths -> {[ver |-> 1, tree |-> c] : c \in StubTrees}]
  BY DEF StubInit
<1>2. FilesTyped
  BY <1>1 DEF FilesTyped
<1>3. PICK p \in StubPaths \cup {NoPath}, watched \in BOOLEAN :
        /\ stPath = p /\ stTree = IF p = NoPath THEN EmptyTree ELSE stFile[p].tree
        /\ stWatch = [thr |-> IF watched THEN "poll" ELSE "none",
                      on |-> IF watched THEN p ELSE NoPath, path |-> p, base |-> 1,
                      ready |-> "pending", stop |-> FALSE, queued |-> FALSE,
                      started |-> watched]
  BY DEF StubInit
<1>4. PathsTyped
  BY <1>3 DEF PathsTyped
<1>5. WatchTyped
  BY <1>3 DEF WatchTyped
<1>6. TreeTyped
  <2>1. CASE p = NoPath
    BY <2>1, <1>3, EmptyIsTree DEF TreeTyped
  <2>2. CASE p # NoPath
    <3>1. stTree = stFile[p].tree /\ p \in StubPaths
      BY <2>2, <1>3
    <3>2. stTree \in StubTrees
      BY <3>1, <1>1
    <3> QED BY <3>2, StubAssumption DEF TreeTyped
  <2> QED BY <2>1, <2>2
<1>7. CallsTyped
  BY DEF StubInit, CallsTyped
<1> QED
  BY <1>2, <1>4, <1>5, <1>6, <1>7 DEF StubInv

(* What a load leaves is a tree, and its path.                             *)
LEMMA LoadKeeps ==
  ASSUME TreeTyped, FilesTyped, PathsTyped, NEW p \in StubPaths \cup {NoPath}, LoadTree(p)
  PROVE  TreeTyped' /\ PathsTyped'
<1>1. CASE p = NoPath
  BY <1>1, EmptyIsTree DEF LoadTree, TreeTyped, PathsTyped
<1>2. CASE p # NoPath /\ stFile[p].tree = NoTree
  BY <1>2 DEF LoadTree, TreeTyped, PathsTyped
<1>3. CASE p # NoPath /\ stFile[p].tree # NoTree
  <2>1. p \in StubPaths
    BY <1>3
  <2>2. stTree' = stFile[p].tree /\ stPath' = p
    BY <1>3 DEF LoadTree
  <2>3. stFile[p].tree \in StubTrees
    BY <2>1, <1>3 DEF FilesTyped
  <2> QED BY <2>1, <2>2, <2>3, StubAssumption DEF TreeTyped, PathsTyped
<1> QED
  BY <1>1, <1>2, <1>3

(* One Sysman call, its function, handle and argument given: what it       *)
(* answers and what it does to the tree.                                   *)
Arg(ptr, cap, ports) == [ptr |-> ptr, cap |-> cap, ports |-> ports]
Filled(fn, h, arg) ==
  [of |-> Calls[fn].of, dev |-> <<h.drv, h.dev>>, cap |-> Room(fn, arg),
   n |-> Written(fn, h, arg), res |-> Answer(fn, h, arg)]
Empty(fn, h, arg) == [NoAnswer EXCEPT !.res = Answer(fn, h, arg)]
Cleared(h) == [stTree EXCEPT !.drivers[h.drv + 1].devices[h.dev + 1].errors = 0]
Silent(fn, h, arg) == Answer(fn, h, arg) \notin {"ok", "size"} \/ Room(fn, arg) = NoBuffer

CallMade(a, fn, h, arg) ==
  /\ stApi' = [stApi EXCEPT ![a] =
       IF Silent(fn, h, arg) THEN Empty(fn, h, arg) ELSE Filled(fn, h, arg)]
  /\ stTree' = IF Calls[fn].shape = "clear" /\ Answer(fn, h, arg) = "ok"
                 THEN Cleared(h) ELSE stTree

LEMMA CallWrites ==
  ASSUME NEW a \in ApiThreads, SysmanCall(a)
  PROVE  \E fn \in StubFns, h \in StubHandles, ptr \in BOOLEAN :
         \E cap \in Caps(fn), ports \in PortLists(fn) : CallMade(a, fn, h, Arg(ptr, cap, ports))
  BY Zenon DEF SysmanCall, CallMade, Filled, Empty, Cleared, Arg, Silent

LEMMA CallKeeps ==
  ASSUME StubInv, NEW a \in ApiThreads, SysmanCall(a)
  PROVE  StubInv'
<1>0. PICK fn \in StubFns, h \in StubHandles : \E arg : CallMade(a, fn, h, arg)
  BY CallWrites, Zenon
<1>1. PICK arg : CallMade(a, fn, h, arg)
  BY <1>0
<1>2. h.drv \in Nat /\ h.dev \in Nat
  BY StubAssumption
<1>3. CallOk(Calls[fn])
  BY CallsOk, StubAssumption
<1>4. stTree \in StubTree
  BY DEF StubInv, TreeTyped
<1>5. stTree' \in StubTree
  <2>1. CASE Calls[fn].shape = "clear" /\ Answer(fn, h, arg) = "ok"
    <3>1. Resolves(h, "ras")
      BY <2>1, <1>3, AnsweredResolves DEF CallOk
    <3>2. Cleared(h) \in StubTree
      BY ONLY <3>1, <1>2, <1>4, ClearedIsTree DEF Cleared
    <3>3. stTree' = Cleared(h)
      BY <1>1, <2>1, Zenon DEF CallMade
    <3> QED BY <3>2, <3>3
  <2>2. CASE ~ (Calls[fn].shape = "clear" /\ Answer(fn, h, arg) = "ok")
    <3>1. stTree' = stTree
      BY <1>1, <2>2, Zenon DEF CallMade
    <3> QED BY <3>1, <1>4
  <2> QED BY <2>1, <2>2
<1>6. UNCHANGED <<stPath, stFile, stWatch, stListen>>
  BY DEF SysmanCall, stWatcher
<1>7. TreeTyped'
  BY <1>5 DEF TreeTyped
<1>8. DOMAIN stApi' = DOMAIN stApi
  BY <1>1 DEF CallMade
<1> QED
  BY <1>6, <1>7, <1>8
  DEF StubInv, FilesTyped, PathsTyped, WatchTyped, CallsTyped

(* The steps that load or reset.                                           *)
LEMMA LoadersKeep ==
  ASSUME StubInv,
         WatchLoad \/ \E t \in CtlThreads : StateLoad(t) \/ StateReset(t)
  PROVE  StubInv'
<1>1. CASE WatchLoad
  <2>1. LoadTree(stWatch.path) /\ stWatch.path \in StubPaths \cup {NoPath}
    BY <1>1 DEF WatchLoad, StubInv, WatchTyped
  <2>2. PICK p \in StubPaths \cup {NoPath} : LoadTree(p)
    BY <2>1
  <2>3. TreeTyped' /\ PathsTyped'
    BY <2>2, LoadKeeps DEF StubInv
  <2>4. stWatch' = [stWatch EXCEPT !.thr = "poll"] /\ UNCHANGED <<stFile, stApi, stListen>>
    BY <1>1 DEF WatchLoad
  <2> QED BY <2>3, <2>4 DEF StubInv, FilesTyped, WatchTyped, CallsTyped
<1>2. ASSUME NEW t \in CtlThreads, StateLoad(t)
      PROVE  StubInv'
  <2>1. PICK p \in StubPaths \cup {NoPath} : LoadTree(p)
    BY <1>2 DEF StateLoad
  <2>2. TreeTyped' /\ PathsTyped'
    BY <2>1, LoadKeeps DEF StubInv
  <2>3. UNCHANGED <<stFile, stWatch, stApi, stListen>>
    BY <1>2 DEF StateLoad, stWatcher
  <2> QED BY <2>2, <2>3 DEF StubInv, FilesTyped, WatchTyped, CallsTyped
<1>3. ASSUME NEW t \in CtlThreads, StateReset(t)
      PROVE  StubInv'
  <2>1. TreeTyped' /\ PathsTyped'
    BY <1>3, EmptyIsTree DEF StateReset, TreeTyped, PathsTyped
  <2>2. UNCHANGED <<stFile, stWatch, stApi, stListen>>
    BY <1>3 DEF StateReset, stWatcher
  <2> QED BY <2>1, <2>2 DEF StubInv, FilesTyped, WatchTyped, CallsTyped
<1> QED
  BY <1>1, <1>2, <1>3

(* The other steps of the control threads and of the watcher: only where   *)
(* the watcher is changes, and its path becomes that of the tree.          *)
WatcherMoves ==
  /\ UNCHANGED <<stTree, stPath, stFile, stApi, stListen>>
  /\ "path" \in DOMAIN stWatch' /\ stWatch'.path \in {stWatch.path, stPath}

LEMMA WatchersKeep ==
  ASSUME StubInv,
         \/ WatchInit \/ WatchPoll \/ WatchPollFails \/ WatchDebounce \/ WatchCheck
         \/ \E t \in CtlThreads : WatchStartLock(t) \/ WatchStop(t) \/ CtlStep(t)
  PROVE  StubInv'
<1>1. WatcherMoves
  <2>1. "path" \in DOMAIN stWatch
    BY DEF StubInv, WatchTyped
  <2>2. CASE WatchInit
    BY <2>1, <2>2 DEF WatchInit, WatchGoto, WatcherMoves
  <2>3. CASE WatchPoll \/ WatchPollFails \/ WatchDebounce \/ WatchCheck
    BY <2>1, <2>3 DEF WatchPoll, WatchPollFails, WatchDebounce, WatchCheck, WatchGoto, WatcherMoves
  <2>4. ASSUME NEW t \in CtlThreads, WatchStartLock(t) \/ WatchStop(t)
        PROVE  WatcherMoves
    BY <2>1, <2>4 DEF WatchStartLock, WatchStop, WatcherMoves
  <2>5. ASSUME NEW t \in CtlThreads, WatchStart(t)
        PROVE  WatcherMoves
    BY <2>1, <2>5 DEF WatchStart, WatcherMoves
  <2>6. ASSUME NEW t \in CtlThreads, WatchReady(t) \/ JoinWatcher(t)
        PROVE  WatcherMoves
    BY <2>1, <2>6 DEF WatchReady, JoinWatcher, WatcherMoves
  <2> QED BY <2>2, <2>3, <2>4, <2>5, <2>6 DEF CtlStep
<1> QED
  BY <1>1 DEF WatcherMoves, StubInv, TreeTyped, FilesTyped, PathsTyped, WatchTyped, CallsTyped

LEMMA ReplaceKeeps == ASSUME StubInv, ReplaceFile PROVE StubInv'
<1>1. PICK p \in StubPaths, c \in StubTrees \cup {NoTree} :
        stFile' = [stFile EXCEPT ![p] = [ver |-> @.ver + 1, tree |-> c]]
  BY DEF ReplaceFile
<1>2. FilesTyped'
  BY <1>1 DEF StubInv, FilesTyped
<1>3. "path" \in DOMAIN stWatch' /\ stWatch'.path = stWatch.path
  BY DEF ReplaceFile, StubInv, WatchTyped
<1>4. UNCHANGED <<stTree, stPath, stApi, stListen>>
  BY DEF ReplaceFile
<1> QED
  BY <1>2, <1>3, <1>4 DEF StubInv, TreeTyped, PathsTyped, WatchTyped, CallsTyped

(* A listen that returns has looked at the tree; no other is touched.      *)
Looked(l) ==
  /\ stListen'[l].got = Peek(stListen[l].req, stListen[l].got)
  /\ \/ stListen'[l].got.res # "ok" \/ stListen'[l].got.num > 0
     \/ stListen[l].slept + 1 = stListen[l].req.timeout

LEMMA ListenWrites ==
  ASSUME StubInv, NEW l \in Listeners, StartListen(l) \/ WakeListen(l)
  PROVE  /\ UNCHANGED <<stTree, stPath, stFile, stWatch, stApi>>
         /\ CallsTyped'
         /\ \A k \in Listeners \ {l} : stListen'[k] = stListen[k]
         /\ stListen[l].pc = "sleep" /\ stListen'[l].pc = "idle" => Looked(l)
<1>1. CallsTyped
  BY DEF StubInv
<1>2. CASE StartListen(l)
  <2>1. PICK p, r : \/ ListenReturns(l, p)
                    \/ stListen' = [stListen EXCEPT ![l] =
                         [pc |-> "sleep", req |-> r, slept |-> 0, got |-> p]]
    BY <1>2, Zenon DEF StartListen
  <2>2. stListen[l].pc # "sleep"
    BY <1>2 DEF StartListen
  <2>3. UNCHANGED <<stTree, stPath, stFile, stWatch, stApi>>
    BY <1>2 DEF StartListen, stWatcher
  <2> QED BY <1>1, <2>1, <2>2, <2>3 DEF ListenReturns, CallsTyped
<1>3. CASE WakeListen(l)
  <2>1. PICK p, s, k : /\ p = Peek(stListen[l].req, stListen[l].got)
                       /\ k = stListen[l].req.timeout
                       /\ s = IF k = Forever THEN 0 ELSE stListen[l].slept + 1
    OBVIOUS
  <2>2. IF p.res # "ok" \/ p.num > 0 \/ s = k THEN ListenReturns(l, p)
        ELSE stListen' = [stListen EXCEPT ![l].slept = s, ![l].got = p]
    BY <1>3, <2>1, Zenon DEF WakeListen
  <2>3. stListen[l].pc = "sleep"
    BY <1>3 DEF WakeListen
  <2>4. UNCHANGED <<stTree, stPath, stFile, stWatch, stApi>>
    BY <1>3 DEF WakeListen, stWatcher
  <2>5. CASE p.res # "ok" \/ p.num > 0 \/ s = k
    <3>1. ListenReturns(l, p)
      BY <2>2, <2>5
    <3>2. stListen'[l].got = p /\ \A m \in Listeners \ {l} : stListen'[m] = stListen[m]
      BY <1>1, <3>1 DEF ListenReturns, CallsTyped
    <3>3. CallsTyped'
      BY <1>1, <2>4, <3>1 DEF ListenReturns, CallsTyped
    <3>4. s = k => stListen[l].slept + 1 = k
      BY <2>1 DEF Forever
    <3> QED BY <2>1, <2>4, <2>5, <3>2, <3>3, <3>4 DEF Looked
  <2>6. CASE ~ (p.res # "ok" \/ p.num > 0 \/ s = k)
    <3>1. stListen' = [stListen EXCEPT ![l].slept = s, ![l].got = p]
      BY <2>2, <2>6
    <3>2. stListen'[l].pc = "sleep"
      BY <1>1, <2>3, <3>1 DEF CallsTyped
    <3>3. CallsTyped'
      BY <1>1, <2>4, <3>1 DEF CallsTyped
    <3>4. \A m \in Listeners \ {l} : stListen'[m] = stListen[m]
      BY <1>1, <3>1 DEF CallsTyped
    <3> QED BY <2>4, <3>2, <3>3, <3>4
  <2> QED BY <2>5, <2>6
<1> QED
  BY <1>2, <1>3

LEMMA StubStepKeeps == StubInv /\ [StubNext]_stVars => StubInv'
<1> SUFFICES ASSUME StubInv, [StubNext]_stVars
             PROVE  StubInv'
  OBVIOUS
<1>1. CASE \E a \in ApiThreads : SysmanCall(a)
  BY <1>1, CallKeeps
<1>2. CASE WatchLoad \/ \E t \in CtlThreads : StateLoad(t) \/ StateReset(t)
  BY <1>2, LoadersKeep
<1>3. CASE \/ WatchInit \/ WatchPoll \/ WatchPollFails \/ WatchDebounce \/ WatchCheck
           \/ \E t \in CtlThreads : WatchStartLock(t) \/ WatchStop(t) \/ CtlStep(t)
  BY <1>3, WatchersKeep
<1>4. CASE ReplaceFile
  BY <1>4, ReplaceKeeps
<1>5. ASSUME NEW l \in Listeners, StartListen(l) \/ WakeListen(l)
      PROVE  StubInv'
  <2>1. UNCHANGED <<stTree, stPath, stFile, stWatch, stApi>> /\ CallsTyped'
    BY <1>5, ListenWrites
  <2> QED BY <2>1 DEF StubInv, TreeTyped, FilesTyped, PathsTyped, WatchTyped
<1>6. CASE UNCHANGED stVars
  BY <1>6
  DEF stVars, stWatcher, StubInv, TreeTyped, FilesTyped, PathsTyped, WatchTyped, CallsTyped
<1> QED
  BY <1>1, <1>2, <1>3, <1>4, <1>5, <1>6 DEF StubNext, WatchStep

LEMMA StubInvariance == StubSpec => []StubInv
<1>1. StubInit => StubInv
  BY StubAtFirst
<1>2. StubInv /\ [StubNext]_stVars => StubInv'
  BY StubStepKeeps
<1> QED
  BY <1>1, <1>2, PTL DEF StubSpec

-----------------------------------------------------------------------------
(* The answers *)

(* The answer of one call fits its buffer, and its entries resolve and     *)
(* differ.                                                                 *)
EntryOf(c, i) == Entry(c.of, c.dev[1], c.dev[2], i - 1)
Fits(c) ==
  /\ c.n <= Max({c.cap, 0})
  /\ c.of # "none" => \A i \in 1 .. c.n :
       /\ Resolves(EntryOf(c, i), c.of)
       /\ c.n <= 2 ^ HandleBits => \A k \in 1 .. c.n : EntryOf(c, i) = EntryOf(c, k) => i = k

LEMMA EmptyFits == \A fn, h, arg : Fits(Empty(fn, h, arg))
<1> SUFFICES ASSUME NEW fn, NEW h, NEW arg
             PROVE  Fits(Empty(fn, h, arg))
  OBVIOUS
<1>1. PICK c : c = Empty(fn, h, arg)
  OBVIOUS
<1>2. c.of = "none" /\ c.n = 0 /\ c.cap = -1
  BY <1>1 DEF Empty, NoAnswer, NoBuffer
<1>3. 0 <= Max({-1, 0})
  BY MaxOfTwo
<1> QED
  BY <1>1, <1>2, <1>3 DEF Fits

(* A buffer of handles or of data.                                         *)
LEMMA BufferFits ==
  ASSUME StubInv, NEW fn \in StubFns, NEW h \in StubHandles, NEW ptr, NEW cap \in StubCaps,
         NEW ports, Fills(fn), Answer(fn, h, Arg(ptr, cap, ports)) # "null_handle"
  PROVE  Fits(Filled(fn, h, Arg(ptr, cap, ports)))
<1> DEFINE arg == Arg(ptr, cap, ports)
<1>1. stTree \in StubTree
  BY DEF StubInv, TreeTyped
<1>2. CallOk(Calls[fn])
  BY CallsOk, StubAssumption
<1>3. Resolves(h, Calls[fn].on)
  BY AnsweredResolves
<1>4. h.drv \in Nat /\ h.dev \in Nat
  BY StubAssumption
<1>5. PICK total \in Nat : total = Total(fn, h)
  BY ONLY <1>1, <1>2, <1>3, <1>4, Fills(fn), TotalIsNat
<1>6. cap \in Nat /\ cap # NoBuffer
  BY StubAssumption DEF NoBuffer
<1>7. PICK n \in Nat : n = Written(fn, h, arg) /\ n <= cap /\ n <= total
  <2>1. Written(fn, h, arg) = Min({cap, total})
    BY <1>5, <1>6 DEF Written, Arg
  <2>2. Min({cap, total}) \in {cap, total} /\ Min({cap, total}) <= cap /\ Min({cap, total}) <= total
    BY ONLY <1>5, <1>6, MinOfTwo, 0 \in Int
  <2> QED BY <2>1, <2>2, <1>5, <1>6
<1>8. n <= Max({cap, 0})
  <2>1. cap <= Max({cap, 0}) /\ Max({cap, 0}) \in {cap, 0}
    BY ONLY <1>6, MaxOfTwo, 0 \in Int
  <2> QED BY <2>1, <1>6, <1>7
<1>9. PICK c : c = Filled(fn, h, arg)
  OBVIOUS
<1>10. Room(fn, arg) = cap
  BY DEF Room, Fills, Arg
<1>11. /\ c.of = Calls[fn].of /\ c.dev[1] = h.drv /\ c.dev[2] = h.dev
       /\ c.cap = cap /\ c.n = n
  BY <1>7, <1>9, <1>10 DEF Filled
<1>12. ASSUME c.of # "none", NEW i \in 1 .. n
       PROVE  Resolves(EntryOf(c, i), c.of)
  <2>1. PICK j \in Nat : j = i - 1 /\ j < total
    BY <1>7
  <2>2. Calls[fn].of # "none"
    BY <1>11, <1>12
  <2>3. Resolves(Entry(Calls[fn].of, h.drv, h.dev, j), Calls[fn].of)
    BY ONLY <2>1, <2>2, <1>2, <1>3, <1>5, total \in Nat, j \in Nat, EntryResolves
  <2> QED BY <2>1, <2>3, <1>11 DEF EntryOf
<1>13. ASSUME n <= 2 ^ HandleBits, NEW i \in 1 .. n, NEW k \in 1 .. n, EntryOf(c, i) = EntryOf(c, k)
       PROVE  i = k
  <2>1. PICK x \in Nat, y \in Nat : x = i - 1 /\ y = k - 1
    BY <1>7
  <2>2. 2 ^ HandleBits \in Nat
    BY StubAssumption
  <2>3. x < 2 ^ HandleBits /\ y < 2 ^ HandleBits
    BY <1>7, <1>13, <2>1, <2>2
  <2>4. Entry(c.of, c.dev[1], c.dev[2], x) = Entry(c.of, c.dev[1], c.dev[2], y)
    BY <1>13, <2>1 DEF EntryOf
  <2>5. x = y
    BY ONLY <2>3, <2>4, x \in Nat, y \in Nat, EntryTells
  <2> QED BY <2>1, <2>5
<1> QED
  BY <1>8, <1>9, <1>11, <1>12, <1>13 DEF Fits

(* Many ports: no more than were asked for.                                *)
LEMMA PortsFit ==
  ASSUME NEW fn \in StubFns, NEW h, NEW ptr, NEW cap, NEW ports \in SUBSET StubHandles,
         Calls[fn].shape = "multi"
  PROVE  Fits(Filled(fn, h, Arg(ptr, cap, ports)))
<1> DEFINE arg == Arg(ptr, cap, ports)
<1>1. CallOk(Calls[fn])
  BY CallsOk, StubAssumption
<1>2. Calls[fn].of = "none"
  BY <1>1 DEF CallOk
<1>3. IsFiniteSet(ports)
  BY StubAssumption, FS_Subset
<1>4. PICK room \in Nat, n \in Nat :
        room = Cardinality(ports) /\ n = Cardinality(PortsRead(ports)) /\ n <= room
  <2>1. PortsRead(ports) \subseteq ports
    BY DEF PortsRead
  <2> QED BY <2>1, <1>3, FS_Subset, FS_CardinalityType
<1>5. Room(fn, arg) = room /\ Written(fn, h, arg) = n
  BY <1>4 DEF Room, Written, Fills, Arg
<1>6. PICK c : c = Filled(fn, h, arg)
  OBVIOUS
<1>7. c.of = "none" /\ c.cap = room /\ c.n = n
  BY <1>2, <1>5, <1>6 DEF Filled
<1>8. n <= Max({room, 0})
  <2>1. room <= Max({room, 0}) /\ Max({room, 0}) \in {room, 0}
    BY MaxOfTwo, 0 \in Int, room \in Int
  <2> QED BY <2>1, <1>4
<1> QED
  BY <1>6, <1>7, <1>8 DEF Fits

LEMMA FilledFits ==
  ASSUME StubInv, NEW fn \in StubFns, NEW h \in StubHandles, NEW ptr, NEW cap \in Caps(fn),
         NEW ports \in PortLists(fn), ~Silent(fn, h, Arg(ptr, cap, ports))
  PROVE  Fits(Filled(fn, h, Arg(ptr, cap, ports)))
<1> DEFINE arg == Arg(ptr, cap, ports)
<1>1. Answer(fn, h, arg) # "null_handle" /\ Room(fn, arg) # NoBuffer
  BY DEF Silent
<1>2. CASE Calls[fn].shape = "multi"
  <2>1. ports \in SUBSET StubHandles
    BY <1>2 DEF PortLists
  <2> QED BY ONLY <2>1, <1>2, fn \in StubFns, PortsFit
<1>3. CASE Calls[fn].shape # "multi"
  <2>1. cap # NoBuffer
    BY <1>1, <1>3 DEF Room, Arg
  <2>2. Fills(fn) /\ cap \in StubCaps
    BY <2>1 DEF Caps
  <2> QED BY <2>2, <1>1, BufferFits
<1> QED
  BY <1>2, <1>3

LEMMA AnswersFit ==
  ASSUME StubInv, [StubNext]_stVars, NEW b \in ApiThreads
  PROVE  stApi'[b] # stApi[b] => Fits(stApi'[b])
<1>1. ASSUME NEW a \in ApiThreads, SysmanCall(a)
      PROVE  stApi'[b] # stApi[b] => Fits(stApi'[b])
  <2>1. PICK fn \in StubFns, h \in StubHandles, ptr \in BOOLEAN :
          \E cap \in Caps(fn), ports \in PortLists(fn) : CallMade(a, fn, h, Arg(ptr, cap, ports))
    BY <1>1, CallWrites
  <2>0. PICK cap \in Caps(fn), ports \in PortLists(fn) : CallMade(a, fn, h, Arg(ptr, cap, ports))
    BY <2>1
  <2>2. DOMAIN stApi = ApiThreads
    BY DEF StubInv, CallsTyped
  <2>3. PICK c : stApi' = [stApi EXCEPT ![a] = c] /\ Fits(c)
    <3>1. CASE Silent(fn, h, Arg(ptr, cap, ports))
      <4>1. stApi' = [stApi EXCEPT ![a] = Empty(fn, h, Arg(ptr, cap, ports))]
        BY <2>0, <3>1, Zenon DEF CallMade
      <4> QED BY <4>1, EmptyFits
    <3>2. CASE ~Silent(fn, h, Arg(ptr, cap, ports))
      <4>1. stApi' = [stApi EXCEPT ![a] = Filled(fn, h, Arg(ptr, cap, ports))]
        BY <2>0, <3>2, Zenon DEF CallMade
      <4>2. Fits(Filled(fn, h, Arg(ptr, cap, ports)))
        BY <3>2, FilledFits
      <4> QED BY <4>1, <4>2
    <3> QED BY <3>1, <3>2
  <2>4. stApi'[b] = IF b = a THEN c ELSE stApi[b]
    BY <2>2, <2>3
  <2> QED BY <2>3, <2>4
<1>2. CASE ~ \E a \in ApiThreads : SysmanCall(a)
  <2>1. UNCHANGED stApi
    BY <1>2
    DEF StubNext, StateLoad, StateReset, WatchStartLock, WatchStop, CtlStep, WatchStart,
        WatchReady, JoinWatcher, WatchStep, WatchInit, WatchPoll, WatchDebounce, WatchCheck,
        WatchLoad, WatchPollFails, WatchGoto, ReplaceFile, StartListen, WakeListen, stVars
  <2> QED BY <2>1
<1> QED
  BY <1>1, <1>2

(* HandlesFitAndResolve (zes_stub.c:215-240, 344-356, 1388-1395): whatever *)
(* file was loaded between the call for the count and the call for the     *)
(* handles, a buffer is not written beyond the room the caller made, and   *)
(* every handle of the answer is one that resolves in the tree it was made *)
(* from, and no two are the same as far as 2^HandleBits of them go.        *)
THEOREM EnumerationsFitAndResolve == StubSpec => HandlesFitAndResolve
<1>1. StubInv /\ [StubNext]_stVars
        => [\A a \in ApiThreads :
              LET c == stApi'[a]
                  H(i) == Entry(c.of, c.dev[1], c.dev[2], i - 1)
              IN c # stApi[a] =>
                   /\ c.n <= Max({c.cap, 0})
                   /\ c.of # "none" => \A i \in 1 .. c.n :
                        /\ Resolves(H(i), c.of)
                        /\ c.n <= 2 ^ HandleBits =>
                             \A k \in 1 .. c.n : H(i) = H(k) => i = k]_stVars
  BY AnswersFit, Zenon DEF Fits, EntryOf
<1>2. StubSpec => []StubInv
  BY StubInvariance
<1> QED
  BY <1>1, <1>2, PTL DEF StubSpec, HandlesFitAndResolve

-----------------------------------------------------------------------------
(* The listens *)

(* What a peek leaves: of the tree of its moment if it succeeds, and after *)
(* an error nothing but the count and events of earlier looks.             *)
NowWith(q) == {i \in DOMAIN q.devs : DeviceOf(q.devs[i]).events}
Current(q, was, got) ==
  IF got.res = "ok"
    THEN /\ Resolves(Handle("driver", q.drv, 0, 0), "driver")
         /\ \A i \in DOMAIN q.devs : /\ Resolves(q.devs[i], "device")
                                     /\ got.ev[i] = DeviceOf(q.devs[i]).events
         /\ got.num = Cardinality(NowWith(q))
    ELSE /\ got.res = PeekResult(q) /\ got.num = was.num
         /\ \A i \in DOMAIN q.devs : got.ev[i] # was.ev[i] =>
              /\ Resolves(q.devs[i], "device")
              /\ got.ev[i] = DeviceOf(q.devs[i]).events

LEMMA PeekIsCurrent ==
  ASSUME NEW q, NEW was
  PROVE  Current(q, was, Peek(q, was))
<1>1. PICK ev : ev = [i \in DOMAIN q.devs |-> IF i \in Reached(q) THEN DeviceOf(q.devs[i]).events
                                             ELSE was.ev[i]]
  OBVIOUS
<1>2. PICK got : got = Peek(q, was)
  OBVIOUS
<1>3. /\ got.res = PeekResult(q) /\ got.ev = ev
      /\ got.num = IF PeekResult(q) = "ok" THEN Cardinality({i \in DOMAIN q.devs : ev[i]})
                   ELSE was.num
  BY <1>1, <1>2 DEF Peek
<1>4. CASE PeekResult(q) = "ok"
  <2>1. Bad(q) = {} /\ Resolves(Handle("driver", q.drv, 0, 0), "driver")
    BY <1>4, Zenon DEF PeekResult
  <2>2. Reached(q) = DOMAIN q.devs
    BY <1>4, <2>1 DEF Reached
  <2>3. \A i \in DOMAIN q.devs : ev[i] = DeviceOf(q.devs[i]).events
    BY <1>1, <2>2
  <2>4. \A i \in DOMAIN q.devs : Resolves(q.devs[i], "device")
    BY <2>1 DEF Bad
  <2>5. {i \in DOMAIN q.devs : ev[i]} = NowWith(q)
    BY <2>3, Zenon DEF NowWith
  <2> QED BY <1>2, <1>3, <1>4, <2>1, <2>3, <2>4, <2>5, Zenon DEF Current
<1>5. CASE PeekResult(q) # "ok"
  <2>1. ASSUME NEW i \in DOMAIN q.devs, ev[i] # was.ev[i]
        PROVE  Resolves(q.devs[i], "device") /\ ev[i] = DeviceOf(q.devs[i]).events
    <3>1. i \in Reached(q)
      BY <1>1, <2>1
    <3>2. i \notin Bad(q)
      BY <3>1 DEF Reached
    <3> QED BY <1>1, <3>1, <3>2 DEF Bad
  <2> QED BY <1>2, <1>3, <1>5, <2>1, Zenon DEF Current
<1> QED
  BY <1>4, <1>5

(* ListenIsCurrent (zes_stub.c:1158-1184): an event listen that slept      *)
(* returns what the tree of that moment says of the handles it was given,  *)
(* however often files were loaded while it slept; only with an error it   *)
(* leaves the count of an earlier look.                                    *)
THEOREM ListensAreCurrent == StubSpec => ListenIsCurrent
<1>1. ASSUME StubInv, [StubNext]_stVars, NEW l \in Listeners,
             stListen[l].pc = "sleep", stListen'[l].pc = "idle"
      PROVE  Looked(l)
  <2>1. CASE \E k \in Listeners : StartListen(k) \/ WakeListen(k)
    <3>1. PICK k \in Listeners : StartListen(k) \/ WakeListen(k)
      BY <2>1
    <3>2. /\ \A m \in Listeners \ {k} : stListen'[m] = stListen[m]
          /\ stListen[k].pc = "sleep" /\ stListen'[k].pc = "idle" => Looked(k)
      BY <1>1, <3>1, ListenWrites
    <3>3. CASE l = k
      BY <1>1, <3>2, <3>3
    <3>4. CASE l # k
      BY <1>1, <3>2, <3>4
    <3> QED BY <3>3, <3>4
  <2>2. CASE ~ \E k \in Listeners : StartListen(k) \/ WakeListen(k)
    <3>1. UNCHANGED stListen
      BY <1>1, <2>2
      DEF StubNext, StateLoad, StateReset, WatchStartLock, WatchStop, CtlStep, WatchStart,
          WatchReady, JoinWatcher, WatchStep, WatchInit, WatchPoll, WatchDebounce, WatchCheck,
          WatchLoad, WatchPollFails, WatchGoto, ReplaceFile, SysmanCall, stVars
    <3> QED BY <1>1, <3>1
  <2> QED BY <2>1, <2>2
<1>2. StubInv /\ [StubNext]_stVars
        => [\A l \in Listeners :
              stListen[l].pc = "sleep" /\ stListen'[l].pc = "idle" =>
                LET q == stListen[l].req
                    was == stListen[l].got
                    got == stListen'[l].got
                    now == {i \in DOMAIN q.devs : DeviceOf(q.devs[i]).events}
                IN IF got.res = "ok"
                     THEN /\ Resolves(Handle("driver", q.drv, 0, 0), "driver")
                          /\ \A i \in DOMAIN q.devs :
                               /\ Resolves(q.devs[i], "device")
                               /\ got.ev[i] = DeviceOf(q.devs[i]).events
                          /\ got.num = Cardinality(now)
                          /\ got.num = 0 => stListen[l].slept + 1 = q.timeout
                     ELSE /\ got.res = PeekResult(q) /\ got.num = was.num
                          /\ \A i \in DOMAIN q.devs : got.ev[i] # was.ev[i] =>
                               /\ Resolves(q.devs[i], "device")
                               /\ got.ev[i] = DeviceOf(q.devs[i]).events]_stVars
  <2> SUFFICES ASSUME StubInv, [StubNext]_stVars, NEW l \in Listeners,
                      stListen[l].pc = "sleep", stListen'[l].pc = "idle"
               PROVE  LET q == stListen[l].req
                          was == stListen[l].got
                          got == stListen'[l].got
                      IN /\ Current(q, was, got)
                         /\ got.res = "ok" /\ got.num = 0 => stListen[l].slept + 1 = q.timeout
    BY Zenon DEF Current, NowWith
  <2>1. Looked(l)
    BY <1>1
  <2>2. PICK q, was, got : /\ q = stListen[l].req /\ was = stListen[l].got
                           /\ got = stListen'[l].got
    OBVIOUS
  <2>3. Current(q, was, got)
    BY <2>1, <2>2, PeekIsCurrent DEF Looked
  <2>4. got.res = "ok" => got.num > 0 \/ stListen[l].slept + 1 = q.timeout
    BY <2>1, <2>2 DEF Looked
  <2>5. got.res = "ok" /\ got.num = 0 => stListen[l].slept + 1 = q.timeout
    BY <2>4
  <2> QED BY <2>2, <2>3, <2>5
<1>3. StubSpec => []StubInv
  BY StubInvariance
<1> QED
  BY <1>2, <1>3, PTL DEF StubSpec, ListenIsCurrent
=============================================================================
