------------------------------ MODULE ColdReset ------------------------------
(***************************************************************************)
(* coldResetViaSysfs() of oal/lin/lin.cpp: a GPU is reset by cycling the   *)
(* power of its PCIe slot through sysfs, after the kernel driver has been  *)
(* unbound, and is then waited for and bound again.                        *)
(*                                                                         *)
(* A sysfs file is written through an std::ofstream: open() failing is     *)
(* seen, but the bytes leave the buffer only in the destructor, so a write *)
(* the kernel refuses goes unnoticed ("refused" below).                    *)
(***************************************************************************)
EXTENDS Naturals

CONSTANTS ReenumPolls,   \* REENUM_TIMEOUT_MS / POLL_INTERVAL_MS
          BindPolls      \* BIND_TIMEOUT_MS / POLL_INTERVAL_MS

ASSUME PollsAssumption == ReenumPolls \in Nat \ {0} /\ BindPolls \in Nat

VARIABLES
  crPc,       \* where coldResetViaSysfs() is
  crResult,   \* what it returned: "0", "1", "-1", or "none" so far
  crSlot,     \* the slot whose number was read from the root port
  power,      \* power of the GPU's own slot and of another one
  present,    \* the GPU's directory exists in sysfs
  bound,      \* a kernel driver is bound to the GPU
  fresh,      \* the GPU was enumerated and not yet offered to a driver
  hadDriver,  \* driverName: a driver was bound before the reset
  polls,      \* polls made of the current wait
  refused,    \* the kernel refused a write of this reset
  cycled      \* the GPU's slot has really been off

coldVars == <<crPc, crResult, crSlot, power, present, bound, fresh, hadDriver,
              polls, refused, cycled>>

Slots == {"own", "other"}

ColdTypeOK ==
  /\ crPc \in {"idle", "probe", "unbind", "off", "confirm", "on", "reenum", "bind", "done"}
  /\ crResult \in {"none", "0", "1", "-1"}
  /\ crSlot \in Slots
  /\ power \in [Slots -> BOOLEAN]
  /\ {present, bound, fresh, hadDriver, refused, cycled} \subseteq BOOLEAN
  /\ polls \in Nat

ColdInit ==
  /\ crPc = "idle" /\ crResult = "none" /\ crSlot = "own"
  /\ power = [s \in Slots |-> TRUE]
  /\ present = TRUE /\ bound \in BOOLEAN /\ fresh = FALSE
  /\ hadDriver = FALSE /\ polls = 0 /\ refused = FALSE /\ cycled = FALSE

ColdReturn(r) == crPc' = "done" /\ crResult' = r

(* The slot is looked up through the root port's Slot Capabilities: 1 when *)
(* they or the slot's address cannot be read or the address is another     *)
(* root port's, -1 when the slot has no power control.                     *)
ProbeSlot ==
  /\ crPc = "probe"
  /\ \/ ColdReturn("1") /\ UNCHANGED crSlot
     \/ ColdReturn("-1") /\ UNCHANGED crSlot
     \/ \E s \in Slots :
          /\ crSlot' = s
          /\ IF s = "own" THEN crPc' = "unbind" /\ UNCHANGED crResult
                          ELSE ColdReturn("1")
  /\ UNCHANGED <<power, present, bound, fresh, hadDriver, polls, refused, cycled>>

UnbindDriver ==
  /\ crPc = "unbind"
  /\ hadDriver' = bound
  /\ \/ /\ bound /\ ColdReturn("1") /\ UNCHANGED <<bound, refused>>
     \/ /\ crPc' = "off" /\ bound' = FALSE /\ UNCHANGED <<crResult, refused>>
     \/ /\ bound /\ crPc' = "off" /\ refused' = TRUE /\ UNCHANGED <<crResult, bound>>
  /\ UNCHANGED <<crSlot, power, present, fresh, polls, cycled>>

PowerOff ==
  /\ crPc = "off"
  /\ \/ /\ ColdReturn("1")
        /\ UNCHANGED <<power, present, bound, fresh, refused, cycled>>
     \/ /\ crPc' = "confirm"
        /\ power' = [power EXCEPT ![crSlot] = FALSE]
        /\ IF crSlot = "own"
             THEN present' = FALSE /\ bound' = FALSE /\ fresh' = FALSE /\ cycled' = TRUE
             ELSE UNCHANGED <<present, bound, fresh, cycled>>
        /\ UNCHANGED <<crResult, refused>>
     \/ /\ crPc' = "confirm" /\ refused' = TRUE
        /\ UNCHANGED <<crResult, power, present, bound, fresh, cycled>>
  /\ UNCHANGED <<crSlot, hadDriver, polls>>

(* Mutant: the read-back only logs what it found.                          *)
ConfirmOffMutant ==
  /\ crPc = "confirm" /\ crPc' = "on"
  /\ UNCHANGED <<crResult, crSlot, power, present, bound, fresh, hadDriver, polls, refused,
                 cycled>>

(* After the delay the power file is read back: anything but "0" ends it.  *)
ConfirmOff ==
  /\ crPc = "confirm"
  /\ \/ ColdReturn("1")
     \/ ~power[crSlot] /\ crPc' = "on" /\ UNCHANGED crResult
  /\ UNCHANGED <<crSlot, power, present, bound, fresh, hadDriver, polls, refused, cycled>>

PowerOn ==
  /\ crPc = "on" /\ polls' = 0
  /\ \/ ColdReturn("1") /\ UNCHANGED <<power, refused>>
     \/ crPc' = "reenum" /\ power' = [power EXCEPT ![crSlot] = TRUE]
        /\ UNCHANGED <<crResult, refused>>
     \/ crPc' = "reenum" /\ refused' = TRUE /\ UNCHANGED <<crResult, power>>
  /\ UNCHANGED <<crSlot, present, bound, fresh, hadDriver, cycled>>

(* Mutant: only a poll that finds the device is counted.                   *)
PollReenumerationMutant ==
  /\ crPc = "reenum"
  /\ IF polls + 1 >= ReenumPolls THEN ColdReturn("1") /\ UNCHANGED polls
     ELSE /\ UNCHANGED <<crResult, polls>>
          /\ IF present THEN crPc' = "bind" ELSE crPc' = "reenum"
  /\ UNCHANGED <<crSlot, power, present, bound, fresh, hadDriver, refused, cycled>>

(* One poll of the re-enumeration loop. A device found by the last poll    *)
(* counts as not found: elapsed has then reached the timeout.              *)
PollReenumeration ==
  /\ crPc = "reenum"
  /\ IF polls + 1 >= ReenumPolls THEN ColdReturn("1") /\ UNCHANGED polls
     ELSE /\ UNCHANGED crResult
          /\ IF present THEN crPc' = "bind" /\ polls' = 0
                        ELSE crPc' = "reenum" /\ polls' = polls + 1
  /\ UNCHANGED <<crSlot, power, present, bound, fresh, hadDriver, refused, cycled>>

(* The wait for the kernel to bind a driver; nothing to do for a device    *)
(* that had none.                                                          *)
AwaitDriver ==
  /\ crPc = "bind" /\ (hadDriver => polls < BindPolls)
  /\ IF ~hadDriver \/ bound THEN ColdReturn("0") /\ UNCHANGED polls
                            ELSE polls' = polls + 1 /\ UNCHANGED <<crPc, crResult>>
  /\ UNCHANGED <<crSlot, power, present, bound, fresh, hadDriver, refused, cycled>>

(* The explicit bind after the wait. The kernel refuses to bind a device   *)
(* that was bound since the last poll.                                     *)
BindDriver ==
  /\ crPc = "bind" /\ hadDriver /\ polls = BindPolls
  /\ \/ ColdReturn("1") /\ UNCHANGED <<bound, fresh, refused>>
     \/ ~bound /\ ColdReturn("0") /\ bound' = TRUE /\ fresh' = FALSE /\ UNCHANGED refused
     \/ ColdReturn("0") /\ refused' = TRUE /\ UNCHANGED <<bound, fresh>>
  /\ UNCHANGED <<crSlot, power, present, hadDriver, polls, cycled>>

(* External: the PCI core enumerates a powered device and offers it to a   *)
(* driver once.                                                            *)
Enumerate ==
  /\ power["own"] /\ ~present
  /\ present' = TRUE /\ fresh' = TRUE
  /\ UNCHANGED <<crPc, crResult, crSlot, power, bound, hadDriver, polls, refused, cycled>>

AutoBind ==
  /\ present /\ fresh /\ fresh' = FALSE /\ bound' \in {bound, TRUE}
  /\ UNCHANGED <<crPc, crResult, crSlot, power, present, hadDriver, polls, refused, cycled>>

ColdStep == \/ ProbeSlot \/ UnbindDriver \/ PowerOff \/ ConfirmOff \/ PowerOn
            \/ PollReenumeration \/ AwaitDriver \/ BindDriver

ColdKernel == Enumerate \/ AutoBind

-----------------------------------------------------------------------------
(* Only the slot of the GPU's own root port is ever switched off, whatever *)
(* slot number its capabilities report (lin.cpp:1226-1228); and a reset    *)
(* reported as done has switched that slot off, the slot is on, the GPU is *)
(* there and, unless the kernel refused a write, a GPU that had a driver   *)
(* has one again.                                                          *)
ColdResetIsReal ==
  /\ power["other"]
  /\ crResult = "0" =>
       /\ cycled /\ power["own"] /\ present
       /\ hadDriver /\ ~refused => bound
=============================================================================
