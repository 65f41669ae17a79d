--------------------------- MODULE MCLevelZeroStub ---------------------------
(* Instances of LevelZeroStub for TLC.                                     *)
EXTENDS LevelZeroStub

Gpu(fans, events, absent) ==
  [n |-> [k \in Kinds |-> IF k = "fan" THEN fans ELSE 1], items |-> 4,
   unsup |-> {}, rv |-> {}, absent |-> absent, events |-> events, errors |-> 1]
Drv(devices) == [devices |-> devices, items |-> 1, unsup |-> {}, rv |-> {}, absent |-> {}]

(* One device with four fans, more than a buffer holds or handles of one   *)
(* bit tell apart, and no event; two devices with two fans and events, one *)
(* without a throughput.                                                   *)
MCTrees ==
  {[drivers |-> <<Drv(<<Gpu(4, FALSE, {})>>)>>, rv |-> {}],
   [drivers |-> <<Drv(<<Gpu(2, TRUE, {"zesFabricPortGetThroughput"}), Gpu(2, TRUE, {})>>)>>,
    rv |-> {}]}

MCHandles == {Handle("device", 0, 0, 0), Handle("ras", 0, 0, 0), Handle("fabric", 0, 0, 0),
              Handle("fabric", 0, 1, 0)}
MCFns == {"zesDeviceEnumFans", "zesDeviceProcessesGetState", "zesRasClearStateExp",
          "zesFabricPortGetMultiPortThroughput"}
Listen(devs, timeout) == [drv |-> 0, devs |-> devs, ptr |-> TRUE, timeout |-> timeout]
MCRequests ==
  {Listen(<<Handle("device", 0, 0, 0)>>, Forever),
   Listen(<<Handle("device", 0, 0, 0), Handle("device", 0, 1, 0)>>, 1)}
=============================================================================
