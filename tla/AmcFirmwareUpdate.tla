-------------------------- MODULE AmcFirmwareUpdate --------------------------
(***************************************************************************)
(* Firmware update of an add-in management controller (AMC) over PLDM:     *)
(* amcupd::updateAMC() (hal/fwupd/amcupd.cpp) starts a thread that runs    *)
(* pldm::fwUpdInitialize() (hal/amc/pldm_fwupdate*.cpp), the update agent, *)
(* and a thread that shows the progress.                                   *)
(*                                                                         *)
(* The agent sends commands and then answers the AMC's requests for        *)
(* firmware data.  A command is one step: its write to the I2C bus may     *)
(* fail, which leaves the AMC untouched, or its read may fail, after the   *)
(* AMC has executed it.  The AMC is external: it follows the states that   *)
(* GetStatus names (fwuStates) and may refuse any command, ask for any     *)
(* part of the image in any order, or report a failure at each stage.      *)
(* A read that yields no MCTP message is repeated, which is no step.       *)
(***************************************************************************)
EXTENDS Integers, Sequences

CONSTANTS
  CompSize,        \* compSize of each component of the package
  CompLocOffset,   \* compLocOffset of each component
  FileSize,        \* size of the package file
  MaxTransferSize, \* PLDM_MCTP_MAX_TRANSFER_SIZE
  InstanceIdMax    \* PLDM_INSTANCE_ID_MAX

ASSUME AmcAssumption ==
  /\ CompSize \in Seq(Nat \ {0})
  /\ CompLocOffset \in Seq(Nat) /\ Len(CompLocOffset) = Len(CompSize)
  /\ FileSize \in Nat
  /\ MaxTransferSize \in Nat \ {0}
  /\ InstanceIdMax \in Nat \ {0, 1}
  /\ \A c \in 1..Len(CompSize) : CompLocOffset[c] + CompSize[c] <= FileSize

Comps == 1..Len(CompSize)

VARIABLES
  agent,          \* where fwUpdInitialize() is
  comp,           \* mCurComp
  step,           \* index into cmdTable
  ret,            \* ret
  fp,             \* mCompFp
  instanceID,     \* ID of the next command
  mProgPercent,
  fd,             \* external: state of the AMC
  image,          \* external: the bytes the AMC has stored per component
  applied,        \* external: components the AMC has applied
  result,         \* what fwUpdInitialize() returned
  flashCompleted, flashSuccess, stopProgress,   \* shared with the threads
  caller,         \* progress of updateAMC()
  monitor,        \* program counter of the progress thread
  progress,       \* its local progress
  cancelFailed,   \* history: CancelUpdate did not get through
  inventoryFailed,\* history: QueryDeviceIdentifiers or GetFirmwareParameters did
  seekFailed      \* history: writeToAMCCompXfer() closed the file

amc == <<fd, image, applied>>
threads == <<flashCompleted, flashSuccess, stopProgress, caller, monitor, progress>>
history == <<cancelFailed, inventoryFailed, seekFailed>>
vars == <<agent, comp, step, ret, fp, instanceID, mProgPercent, amc, result,
          threads, history>>

cmdTable == <<"QueryDeviceIdentifiers", "GetFirmwareParameters", "RequestUpdate",
              "PassComponentTable", "UpdateComponent">>
FdStates == {"Idle", "LearnComponents", "ReadyXfer", "Download", "Verify", "Apply",
             "Activate"}

NotStored == FileSize + 1
ImageSpace(c) == 0..(CompSize[c] + MaxTransferSize - 1)

TypeOK ==
  /\ agent \in {"none", "open", "command", "transfer", "cancel", "status", "activate",
                "returned"}
  /\ comp \in 1..(Len(CompSize) + 1) /\ step \in 1..Len(cmdTable)
  /\ ret \in {"success", "error"}
  /\ fp \in {"closed", "open", "closed twice"}
  /\ instanceID \in 1..InstanceIdMax
  /\ mProgPercent \in 0..(100 * FileSize)
  /\ fd \in FdStates
  /\ applied \subseteq Comps
  /\ \A c \in Comps : image[c] \in [ImageSpace(c) -> 0..NotStored]
  /\ result \in {"none", "success", "error"}
  /\ flashCompleted \in BOOLEAN /\ flashSuccess \in BOOLEAN
  /\ stopProgress \in BOOLEAN
  /\ caller \in {"start", "join flash", "join progress", "success", "error"}
  /\ monitor \in {"none", "loop", "check", "done"}
  /\ progress \in 0..100
  /\ cancelFailed \in BOOLEAN /\ inventoryFailed \in BOOLEAN /\ seekFailed \in BOOLEAN

(* mProgPercent is reset when the pldm object is made, not when an update  *)
(* begins: after an earlier update it starts at 100.                       *)
Init ==
  /\ agent = "none" /\ comp = 1 /\ step = 1 /\ ret = "error"
  /\ fp = "closed"
  /\ instanceID \in 1..InstanceIdMax
  /\ mProgPercent \in {0, 100}
  /\ fd = "Idle" /\ applied = {}
  /\ image = [c \in Comps |-> [o \in ImageSpace(c) |-> NotStored]]
  /\ result = "none"
  /\ flashCompleted = FALSE /\ flashSuccess = FALSE /\ stopProgress = FALSE
  /\ caller = "start" /\ monitor = "none" /\ progress = 0
  /\ cancelFailed = FALSE /\ inventoryFailed = FALSE /\ seekFailed = FALSE

-----------------------------------------------------------------------------
(* fwUpdInitialize() *)

fclose == fp' = IF fp = "open" THEN "closed" ELSE "closed twice"
Return(r) == agent' = "returned" /\ result' = r

(* The bus is not initialised, or fopen() or fwpkgParseInfo() fails; the   *)
(* latter closes the file itself.                                          *)
OpenFails ==
  /\ agent = "open"
  /\ Return("error")
  /\ UNCHANGED <<comp, step, ret, fp, instanceID, mProgPercent, amc,
                 threads, history>>

OpenPackage ==
  /\ agent = "open"
  /\ fp' = "open"
  /\ agent' = IF Comps = {} THEN "status" ELSE "command"
  /\ UNCHANGED <<comp, step, ret, instanceID, mProgPercent, amc, result,
                 threads, history>>

(* fwUpdCmd(): the ID a command is sent with; it is counted up only when   *)
(* the command succeeds.                                                   *)
WrappedID == IF instanceID = InstanceIdMax THEN 1 ELSE instanceID
CommandOk == instanceID' = WrappedID + 1
CommandFails == instanceID' = WrappedID

(* External: the state the AMC goes to when it accepts a command.          *)
Accepted(cmd) ==
  CASE cmd = "RequestUpdate" /\ fd = "Idle" -> "LearnComponents"
    [] cmd = "PassComponentTable" /\ fd = "LearnComponents" -> "ReadyXfer"
    [] cmd = "UpdateComponent" /\ fd = "ReadyXfer" -> "Download"
    [] OTHER -> fd

(* fwUpdateResp(): QueryDeviceIdentifiers does not look at the completion  *)
(* code, RequestUpdate takes ALREADY_IN_UPDATE_MODE for success.           *)
CommandSucceeds ==
  /\ agent = "command"
  /\ CommandOk
  /\ fd' = Accepted(cmdTable[step])
  /\ ret' = "success"
  /\ \/ step < Len(cmdTable) /\ step' = step + 1 /\ UNCHANGED agent
     \/ step = Len(cmdTable) /\ step' = 1 /\ agent' = "transfer"
  /\ UNCHANGED <<comp, fp, mProgPercent, image, applied, result, threads, history>>

(* The write or the read fails or the AMC refuses: CancelUpdate is sent    *)
(* from RequestUpdate on, otherwise the update ends here.                  *)
CommandFailed ==
  /\ agent = "command"
  /\ CommandFails
  /\ fd' \in {fd, Accepted(cmdTable[step])}
  /\ ret' = "error"
  /\ \/ /\ step >= 3
        /\ agent' = "cancel"
        /\ UNCHANGED <<fp, result, inventoryFailed>>
     \/ /\ step < 3
        /\ fclose
        /\ Return("error")
        /\ inventoryFailed' = TRUE
  /\ UNCHANGED <<comp, step, mProgPercent, image, applied, threads, cancelFailed,
                 seekFailed>>

(* Mutant: the update ends without CancelUpdate.                           *)
CancelUpdateMutant ==
  /\ agent = "cancel"
  /\ fclose
  /\ Return("error")
  /\ UNCHANGED <<comp, step, ret, instanceID, mProgPercent, amc, threads,
                 history>>

(* CancelUpdate, whose failure is only logged.                             *)
CancelUpdate ==
  /\ agent = "cancel"
  /\ \/ CommandOk /\ fd' = "Idle" /\ UNCHANGED cancelFailed
     \/ /\ CommandFails \/ CommandOk   \* bus failure, or refused by the AMC
        /\ cancelFailed' = TRUE
        /\ UNCHANGED fd
  /\ fclose
  /\ Return("error")
  /\ UNCHANGED <<comp, step, ret, mProgPercent, image, applied, threads,
                 inventoryFailed, seekFailed>>

(* GetStatus: the state it reports is stored and not looked at.  When the  *)
(* command fails, ret, the result of the last inventory command, is        *)
(* returned.                                                               *)
GetStatus ==
  /\ agent = "status"
  /\ CommandOk
  /\ agent' = "activate"
  /\ UNCHANGED <<comp, step, ret, fp, mProgPercent, amc, result, threads, history>>

GetStatusFails ==
  /\ agent = "status"
  /\ CommandFails
  /\ fclose
  /\ Return(ret)
  /\ UNCHANGED <<comp, step, ret, mProgPercent, amc, threads, history>>

(* ActivateFirmware: no response is read, the AMC reboots.                 *)
ActivateFirmware ==
  /\ agent = "activate"
  /\ CommandOk
  /\ fd' = "Activate"
  /\ fclose
  /\ Return("success")
  /\ UNCHANGED <<comp, step, ret, mProgPercent, image, applied, threads, history>>

(* Mutant: the package file is left open.                                  *)
ActivateFailsMutant ==
  /\ agent = "activate"
  /\ CommandFails
  /\ Return(ret)
  /\ UNCHANGED <<comp, step, ret, fp, mProgPercent, amc, threads, history>>

ActivateFails ==
  /\ agent = "activate"
  /\ CommandFails
  /\ fclose
  /\ Return(ret)
  /\ UNCHANGED <<comp, step, ret, mProgPercent, amc, threads, history>>

-----------------------------------------------------------------------------
(* readFromFD(): requests of the AMC, in the state the AMC sends them in   *)

(* The bytes of the package file; beyond its end the buffer keeps its 0s.  *)
FileByte(loc) == IF loc < FileSize THEN loc + 1 ELSE 0

(* Mutant: the length is not cut at the end of the component.              *)
FirmwareDataMutant(offset, len) ==
  [i \in 0..(len - 1) |-> FileByte(CompLocOffset[comp] + offset + i)]

(* writeToAMCCompXfer(): the payload for len bytes at offset, filled up    *)
(* with 0 behind the end of the component.                                 *)
FirmwareData(offset, len) ==
  [i \in 0..(len - 1) |->
     IF offset + len <= CompSize[comp] \/ i < CompSize[comp] - offset
     THEN FileByte(CompLocOffset[comp] + offset + i)
     ELSE 0]

(* A request for data.  DATA_OUT_OF_RANGE and INVALID_TRANSFER_LENGTH leave *)
(* it to the AMC to go on, data is sent and stored; the file is positioned *)
(* and the answer written only if these calls succeed.                     *)
RequestFirmwareData(offset, len) ==
  /\ agent = "transfer" /\ fd = "Download"
  /\ mProgPercent' = (offset * 100) \div CompSize[comp]
  /\ \/ /\ offset >= CompSize[comp] \/ len > MaxTransferSize
        /\ UNCHANGED <<agent, fp, image, seekFailed>>
     \/ /\ offset < CompSize[comp] /\ len <= MaxTransferSize
        /\ image' = [image EXCEPT ![comp] =
             [o \in ImageSpace(comp) |->
                IF o \in offset..(offset + len - 1)
                THEN FirmwareData(offset, len)[o - offset] ELSE @[o]]]
        /\ UNCHANGED <<agent, fp, seekFailed>>
     \/ /\ agent' = "cancel"               \* the answer cannot be written
        /\ UNCHANGED <<fp, image, seekFailed>>
     \/ /\ offset < CompSize[comp] /\ len <= MaxTransferSize
        /\ fclose                          \* fseek fails
        /\ seekFailed' = TRUE
        /\ agent' = "cancel"
        /\ UNCHANGED image
  /\ UNCHANGED <<comp, step, ret, instanceID, fd, applied, result, threads,
                 cancelFailed, inventoryFailed>>

(* The bus fails, or a message is not a firmware update message, or it is *)
(* an unknown command and the answer cannot be written.                    *)
TransferFails ==
  /\ agent = "transfer"
  /\ agent' = "cancel"
  /\ UNCHANGED <<comp, step, ret, fp, instanceID, mProgPercent, amc,
                 result, threads, history>>

(* A command the agent does not know is answered COMMAND_NOT_EXPECTED.     *)
UnknownRequest ==
  /\ agent = "transfer"
  /\ UNCHANGED vars

(* External: the AMC reports the end of a stage as a success only if the   *)
(* stage is complete.                                                      *)
Stored(c) == \A o \in 0..(CompSize[c] - 1) : image[c][o] # NotStored

(* TransferComplete, VerifyComplete: acknowledged, the AMC goes on.        *)
StageComplete ==
  /\ agent = "transfer"
  /\ mProgPercent' = 100
  /\ \/ fd = "Download" /\ Stored(comp) /\ fd' = "Verify"
     \/ fd = "Verify" /\ fd' = "Apply"
  /\ UNCHANGED <<agent, comp, step, ret, fp, instanceID, image, applied,
                 result, threads, history>>

(* Mutant: the loop ends with VerifyComplete.                              *)
ApplyCompleteMutant ==
  /\ agent = "transfer"
  /\ fd \in {"Verify", "Apply"}
  /\ mProgPercent' = 100
  /\ fd' = "ReadyXfer"
  /\ applied' = IF fd = "Apply" THEN applied \cup {comp} ELSE applied
  /\ comp' = comp + 1
  /\ agent' = IF comp = Len(CompSize) THEN "status" ELSE "command"
  /\ UNCHANGED <<step, ret, fp, instanceID, image, result, threads, history>>

(* ApplyComplete ends readFromFD(); the next component or GetStatus        *)
(* follows.                                                                *)
ApplyComplete ==
  /\ agent = "transfer" /\ fd = "Apply"
  /\ mProgPercent' = 100
  /\ fd' = "ReadyXfer"
  /\ applied' = applied \cup {comp}
  /\ comp' = comp + 1
  /\ agent' = IF comp = Len(CompSize) THEN "status" ELSE "command"
  /\ UNCHANGED <<step, ret, fp, instanceID, image, result, threads, history>>

(* A stage failed, which is answered COMMAND_NOT_EXPECTED, or its success *)
(* could not be acknowledged.                                              *)
StageFailed ==
  /\ agent = "transfer"
  /\ fd \in {"Download", "Verify", "Apply"}
  /\ mProgPercent' = 100
  /\ agent' = "cancel"
  /\ UNCHANGED <<comp, step, ret, fp, instanceID, amc, result, threads,
                 history>>

-----------------------------------------------------------------------------
(* updateAMC() and its two threads *)

agentVars == <<agent, comp, step, ret, fp, instanceID, mProgPercent, amc,
               result, history>>

(* The card is checked before the two threads are started.                 *)
UpdateRejected ==
  /\ caller = "start"
  /\ caller' = "error"
  /\ UNCHANGED <<agentVars, flashCompleted, flashSuccess, stopProgress, monitor,
                 progress>>

StartThreads ==
  /\ caller = "start"
  /\ agent' = "open" /\ monitor' = "loop" /\ caller' = "join flash"
  /\ UNCHANGED <<comp, step, ret, fp, instanceID, mProgPercent, amc, result, history,
                 flashCompleted, flashSuccess, stopProgress, progress>>

FlashThreadEnds ==
  /\ agent = "returned" /\ ~flashCompleted
  /\ flashSuccess' = (result = "success")
  /\ flashCompleted' = TRUE
  /\ UNCHANGED <<agentVars, stopProgress, caller, monitor, progress>>

(* The progress thread's loop: the condition, the poll, the early exit.    *)
MonitorPoll ==
  /\ monitor = "loop"
  /\ \/ /\ stopProgress \/ progress >= 100
        /\ monitor' = "done"
        /\ UNCHANGED progress
     \/ /\ ~stopProgress /\ progress < 100
        /\ progress' = IF mProgPercent > 100 THEN 100 ELSE mProgPercent
        /\ monitor' = "check"
  /\ UNCHANGED <<agentVars, flashCompleted, flashSuccess, stopProgress, caller>>

MonitorCheck ==
  /\ monitor = "check"
  /\ monitor' = IF flashCompleted THEN "done" ELSE "loop"
  /\ UNCHANGED <<agentVars, flashCompleted, flashSuccess, stopProgress, caller,
                 progress>>

JoinFlash ==
  /\ caller = "join flash" /\ flashCompleted
  /\ stopProgress' = TRUE
  /\ caller' = "join progress"
  /\ UNCHANGED <<agentVars, flashCompleted, flashSuccess, monitor, progress>>

JoinProgress ==
  /\ caller = "join progress" /\ monitor = "done"
  /\ caller' = IF flashSuccess THEN "success" ELSE "error"
  /\ UNCHANGED <<agentVars, flashCompleted, flashSuccess, stopProgress, monitor,
                 progress>>

Terminated ==
  /\ caller \in {"success", "error"}
  /\ UNCHANGED vars

-----------------------------------------------------------------------------
Agent ==
  \/ OpenFails \/ OpenPackage
  \/ CommandSucceeds \/ CommandFailed \/ CancelUpdate
  \/ GetStatus \/ GetStatusFails \/ ActivateFirmware \/ ActivateFails
  \/ \E offset \in 0..FileSize, len \in 1..(MaxTransferSize + 1) :
       RequestFirmwareData(offset, len)
  \/ TransferFails \/ UnknownRequest
  \/ StageComplete \/ ApplyComplete \/ StageFailed

(* Mutant: the progress thread ends at 100 percent only.                   *)
MonitorMutant ==
  /\ monitor = "loop"
  /\ progress' = IF mProgPercent > 100 THEN 100 ELSE mProgPercent
  /\ monitor' = IF progress' >= 100 THEN "done" ELSE "loop"
  /\ UNCHANGED <<agentVars, flashCompleted, flashSuccess, stopProgress, caller>>

Monitor == MonitorPoll \/ MonitorCheck
Caller == UpdateRejected \/ StartThreads \/ JoinFlash \/ JoinProgress

Next == Agent \/ FlashThreadEnds \/ Monitor \/ Caller \/ Terminated

Spec == Init /\ [][Next]_vars

(* The threads are scheduled.  Nothing is assumed about the AMC: the agent *)
(* waits for its requests as long as it takes.                             *)
FairSpec ==
  Spec /\ WF_vars(FlashThreadEnds) /\ WF_vars(Monitor) /\ WF_vars(Caller)

-----------------------------------------------------------------------------
(* Correctness properties *)

(* The AMC is never told to activate firmware of which a component is      *)
(* missing: whatever fails, every component was applied before.            *)
ActivatedWhole == fd = "Activate" => applied = Comps

(* What the AMC applies is the component of the package byte for byte, and *)
(* zeros behind its end, in whatever order and sizes it asked for it.      *)
ImageIntact ==
  \A c \in applied : \A o \in ImageSpace(c) :
    image[c][o] \in IF o < CompSize[c] THEN {CompLocOffset[c] + o + 1}
                    ELSE {0, NotStored}

(* "Automatically sends CANCEL_UPDATE commands on failure for cleanup"     *)
(* (pldm_fwupdate.cpp:167): an update that fails leaves the AMC idle       *)
(* unless the cancellation did not get through.  Not covered by the code   *)
(* and excluded: an inventory command that fails for a later component.    *)
(* On every path it "closes file handle before returning"                  *)
(* (pldm_fwupdate.cpp:168), once, with one exception: after a failed       *)
(* fseek() writeToAMCCompXfer() has closed the file already, and it is     *)
(* closed a second time.                                                   *)
FailureCleansUp ==
  /\ result = "error" /\ ~cancelFailed => fd = "Idle" \/ (inventoryFailed /\ comp > 1)
  /\ result # "none" => fp = IF seekFailed THEN "closed twice" ELSE "closed"

(* "PLDM_SUCCESS All firmware update operations completed successfully"    *)
(* (pldm_fwupdate.cpp:163): success is reported only if the AMC was told   *)
(* to activate the firmware.                                               *)
SuccessIsActivated == result = "success" => fd = "Activate"

(* updateAMC() returns once the flash is over: the progress thread ends    *)
(* whatever the percentage is at that moment, 0 after an early failure.    *)
UpdateReturns == agent = "returned" ~> caller \in {"success", "error"}
=============================================================================
