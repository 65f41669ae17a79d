------------------------------ MODULE AmcProofs ------------------------------
(***************************************************************************)
(* Proofs about Amc: the firmware update and the sessions with the AMCs,   *)
(* for any number of cards, components and faults.                         *)
(*                                                                         *)
(* UpdInv is inductive for the update: where the agent, its package file   *)
(* and the AMC are (UpdateTypeInv, AgentInv, StageInv, ...), and that what *)
(* was applied is the package (ImageInv).                                  *)
(*                                                                         *)
(* SessionInv is inductive for the sessions; its core is AgeInv: the       *)
(* unread responses of a card are few and have older instance IDs than the *)
(* next request, so that no old response can pass for the one to a reset.  *)
(* FileInv says on top of it which packets may be in the way of a part of  *)
(* the file and that the bytes collected are a prefix of it; CleanInv that *)
(* without a fault nothing is in the way.  EidInv, PdrInv and FruInv say   *)
(* that EIDs, PDRs and the FRU table are what was asked for, as long as no *)
(* response of an earlier request was read.                                *)
(***************************************************************************)
EXTENDS Amc, SequenceTheorems, FiniteSetTheorems, NaturalsInduction,
        WellFoundedInduction, TLAPS

(* Where the update agent is, the stage the AMC is in and what was applied. *)
UpdateTypeInv ==
  /\ agent \in {"none", "open", "command", "transfer", "cancel", "status", "activate",
                "returned"}
  /\ comp \in 1..(Len(CompSize) + 1) /\ step \in 1..5
  /\ ret \in {"success", "error"}
  /\ fp \in {"closed", "open", "closed twice"}
  /\ fd \in FdStates
  /\ result \in {"none", "success", "error"}
  /\ cancelFailed \in BOOLEAN /\ inventoryFailed \in BOOLEAN /\ seekFailed \in BOOLEAN

(* The package file is open exactly while the agent may still use it, but  *)
(* for a failed fseek().                                                   *)
AgentInv ==
  /\ caller = "start" => agent = "none"
  /\ agent \in {"none", "open"} => comp = 1 /\ step = 1 /\ fp = "closed" /\ fd = "Idle"
  /\ agent # "returned" => result = "none" /\ ~inventoryFailed /\ ~cancelFailed
  /\ agent \in {"command", "transfer", "status", "activate"} => fp = "open"
  /\ agent = "cancel" => fp = IF seekFailed THEN "closed" ELSE "open"
  /\ agent = "returned" => fp = IF seekFailed THEN "closed twice" ELSE "closed"
  /\ seekFailed => agent \in {"cancel", "returned"}

(* The stage of the AMC follows the agent; ret is the success of an        *)
(* earlier command wherever the AMC has left its idle state.               *)
StageInv ==
  /\ agent = "command" => fd \in {"Idle", "LearnComponents", "ReadyXfer"}
  /\ agent = "command" /\ comp = 1 /\ step <= 3 => fd = "Idle"
  /\ agent \in {"transfer", "status", "activate"} => ret = "success" \/ fd = "Idle"
  /\ agent = "transfer" => ret = "success"
  /\ fd = "Activate" => agent = "returned"

(* The components are applied in turn.                                     *)
AppliedInv ==
  /\ applied = 1..(comp - 1)
  /\ agent \in {"command", "transfer"} => comp <= Len(CompSize)
  /\ agent \in {"status", "activate"} => comp = Len(CompSize) + 1
  /\ fd = "Activate" => comp = Len(CompSize) + 1

(* A byte the AMC has stored is the byte of the package, and everything is *)
(* stored of what is verified or applied.                                  *)
PackageByte(c, o) ==
  IF o < CompSize[c] THEN {CompLocOffset[c] + o + 1, NotStored} ELSE {0, NotStored}

ImageInv ==
  /\ DOMAIN image = Comps
  /\ \A c \in Comps : \A o \in ImageSpace(c) : image[c][o] \in PackageByte(c, o)
  /\ \A c \in applied : Stored(c)
  /\ agent = "transfer" /\ fd \in {"Verify", "Apply"} => Stored(comp)

ProgressInv == UpdateTypeInv /\ AgentInv /\ StageInv /\ AppliedInv /\ FailureCleansUp
UpdInv == ProgressInv /\ ImageInv

-----------------------------------------------------------------------------
(* The update agent *)

LEMMA ComponentsOfThePackage ==
  /\ Len(CompSize) \in Nat
  /\ \A c \in Comps : CompSize[c] \in Nat \ {0} /\ CompLocOffset[c] \in Nat
                     /\ CompLocOffset[c] + CompSize[c] <= FileSize
<1>1. CompSize \in Seq(Nat \ {0}) /\ CompLocOffset \in Seq(Nat)
      /\ Len(CompLocOffset) = Len(CompSize)
  BY AmcAssumption
<1>2. Len(CompSize) \in Nat
  BY <1>1
<1>3. ASSUME NEW c \in Comps PROVE CompSize[c] \in Nat \ {0} /\ CompLocOffset[c] \in Nat
  BY <1>1, <1>2 DEF Comps
<1> QED
  BY <1>2, <1>3, AmcAssumption DEF Comps

LEMMA UpdInit == Init => UpdInv
<1> SUFFICES ASSUME Init PROVE UpdInv
  OBVIOUS
<1>1. UpdateTypeInv
  <2>1. comp \in 1..(Len(CompSize) + 1)
    BY ComponentsOfThePackage DEF Init
  <2>2. agent = "none" /\ step = 1 /\ ret = "error" /\ fp = "closed" /\ fd = "Idle"
        /\ result = "none"
    BY DEF Init
  <2>3. cancelFailed \in BOOLEAN /\ inventoryFailed \in BOOLEAN /\ seekFailed \in BOOLEAN
    BY DEF Init
  <2> QED
    BY <2>1, <2>2, <2>3 DEF UpdateTypeInv, FdStates
<1>2. AgentInv /\ StageInv /\ FailureCleansUp
  BY DEF Init, AgentInv, StageInv, FailureCleansUp
<1>3. AppliedInv
  BY ComponentsOfThePackage DEF Init, AppliedInv
<1>4. ImageInv
  <2>1. ASSUME NEW c \in Comps, NEW o \in ImageSpace(c)
        PROVE  image[c][o] = NotStored
    BY <2>1 DEF Init
  <2> QED
    BY <2>1 DEF Init, ImageInv, PackageByte
<1> QED
  BY <1>1, <1>2, <1>3, <1>4 DEF UpdInv, ProgressInv

(* The stage the AMC goes to when it accepts the command of each step.     *)
LEMMA AcceptedStage ==
  ASSUME step \in 1..5
  PROVE  Accepted(cmdTable[step]) =
           IF step = 3 /\ fd = "Idle" THEN "LearnComponents"
           ELSE IF step = 4 /\ fd = "LearnComponents" THEN "ReadyXfer"
           ELSE IF step = 5 /\ fd = "ReadyXfer" THEN "Download" ELSE fd
<1>1. CASE step = 1
  BY <1>1 DEF Accepted, cmdTable
<1>2. CASE step = 2
  BY <1>2 DEF Accepted, cmdTable
<1>3. CASE step = 3
  BY <1>3 DEF Accepted, cmdTable
<1>4. CASE step = 4
  BY <1>4 DEF Accepted, cmdTable
<1>5. CASE step = 5
  BY <1>5 DEF Accepted, cmdTable
<1> QED
  BY <1>1, <1>2, <1>3, <1>4, <1>5

(* Each action of the agent keeps the file, the stage and the components   *)
(* together.                                                               *)
LEMMA AgentKeepsProgress == ProgressInv /\ Agent => ProgressInv'
<1> SUFFICES ASSUME ProgressInv, Agent PROVE ProgressInv'
  OBVIOUS
<1> USE ComponentsOfThePackage
    DEF ProgressInv, UpdateTypeInv, AgentInv, StageInv, AppliedInv, FailureCleansUp,
        FdStates, amc, threads, history, Return, fclose, Comps, cmdTable
<1>1. CASE OpenFails
  BY <1>1 DEF OpenFails
<1>2. CASE OpenPackage
  BY <1>2 DEF OpenPackage
<1>3. CASE CommandSucceeds
  <2>1. /\ fd' = IF step = 3 /\ fd = "Idle" THEN "LearnComponents"
                 ELSE IF step = 4 /\ fd = "LearnComponents" THEN "ReadyXfer"
                 ELSE IF step = 5 /\ fd = "ReadyXfer" THEN "Download" ELSE fd
        /\ \/ step < 5 /\ step' = step + 1 /\ UNCHANGED agent
           \/ step = 5 /\ step' = 1 /\ agent' = "transfer"
        /\ agent = "command" /\ ret' = "success"
        /\ UNCHANGED <<comp, fp, applied, result, caller, history>>
    BY <1>3, AcceptedStage DEF CommandSucceeds
  <2>2. UpdateTypeInv' /\ AppliedInv'
    <3>1. step' \in 1..5 /\ fd' \in FdStates \ {"Activate"}
      BY <2>1
    <3> QED
      BY <2>1, <3>1
  <2>3. AgentInv' /\ StageInv' /\ FailureCleansUp'
    BY <2>1
  <2> QED
    BY <2>2, <2>3
<1>4. CASE CommandFailed
  <2>1. /\ fd' \in {fd, IF step = 3 /\ fd = "Idle" THEN "LearnComponents"
                        ELSE IF step = 4 /\ fd = "LearnComponents" THEN "ReadyXfer"
                        ELSE IF step = 5 /\ fd = "ReadyXfer" THEN "Download" ELSE fd}
        /\ \/ /\ step >= 3 /\ agent' = "cancel"
              /\ UNCHANGED <<fp, result, inventoryFailed>>
           \/ /\ step < 3 /\ agent' = "returned" /\ result' = "error"
              /\ fp' = "closed" /\ inventoryFailed' = TRUE
        /\ agent = "command" /\ ret' = "error"
        /\ UNCHANGED <<comp, step, applied, caller, cancelFailed, seekFailed>>
    BY <1>4, AcceptedStage DEF CommandFailed
  <2>2. UpdateTypeInv' /\ AppliedInv'
    BY <2>1
  <2>3. seekFailed' = FALSE /\ ~cancelFailed /\ fp = "open" /\ result = "none"
    BY <2>1
  <2>4. AgentInv' /\ StageInv'
    BY <2>1, <2>3
  <2>5. FailureCleansUp'
    <3>1. CASE step >= 3
      BY <2>1, <2>3, <3>1
    <3>2. CASE step < 3
      BY <2>1, <2>3, <3>2
    <3>3. step \in 1..5
      OBVIOUS
    <3>4. step >= 3 \/ step < 3
      BY ONLY <3>3
    <3> HIDE DEF ProgressInv, FailureCleansUp
    <3> QED
      BY ONLY <3>1, <3>2, <3>4
  <2> QED
    BY <2>2, <2>4, <2>5
<1>5. CASE CancelUpdate
  BY <1>5 DEF CancelUpdate
<1>6. CASE GetStatus
  BY <1>6 DEF GetStatus
<1>7. CASE GetStatusFails
  BY <1>7 DEF GetStatusFails
<1>8. CASE ActivateFirmware
  BY <1>8 DEF ActivateFirmware
<1>9. CASE ActivateFails
  BY <1>9 DEF ActivateFails
<1>10. ASSUME NEW offset \in 0..FileSize, NEW len \in 1..(MaxTransferSize + 1),
              RequestFirmwareData(offset, len)
       PROVE  ProgressInv'
  <2>1. /\ agent = "transfer" /\ fp = "open" /\ ~seekFailed
        /\ UNCHANGED <<comp, step, ret, fd, applied, result, caller, cancelFailed,
                       inventoryFailed>>
        /\ \/ agent' \in {"transfer", "cancel"} /\ fp' = "open" /\ seekFailed' = FALSE
           \/ agent' = "cancel" /\ fp' = "closed" /\ seekFailed' = TRUE
    BY <1>10 DEF RequestFirmwareData
  <2>2. UpdateTypeInv' /\ AppliedInv'
    BY <2>1
  <2>3. AgentInv' /\ StageInv' /\ FailureCleansUp'
    BY <2>1
  <2> QED
    BY <2>2, <2>3
<1>11. CASE TransferFails
  BY <1>11 DEF TransferFails
<1>12. CASE UnknownRequest
  BY <1>12 DEF UnknownRequest, vars
<1>13. CASE StageComplete
  BY <1>13 DEF StageComplete
<1>14. CASE ApplyComplete
  BY <1>14 DEF ApplyComplete
<1>15. CASE StageFailed
  BY <1>15 DEF StageFailed
<1> QED
  BY <1>1, <1>2, <1>3, <1>4, <1>5, <1>6, <1>7, <1>8, <1>9, <1>10, <1>11, <1>12, <1>13,
     <1>14, <1>15 DEF Agent
(* What is sent is the package, and a byte once stored stays stored.       *)
LEMMA DataIsThePackage ==
  ASSUME comp \in Comps, NEW offset \in Nat, NEW len \in Nat, offset < CompSize[comp],
         len <= MaxTransferSize, NEW o \in offset..(offset + len - 1)
  PROVE  /\ o \in ImageSpace(comp)
         /\ FirmwareData(offset, len)[o - offset] # NotStored
         /\ FirmwareData(offset, len)[o - offset] \in PackageByte(comp, o)
<1>1. /\ CompSize[comp] \in Nat \ {0} /\ CompLocOffset[comp] \in Nat
      /\ CompLocOffset[comp] + CompSize[comp] <= FileSize
      /\ FileSize \in Nat /\ MaxTransferSize \in Nat
  BY AmcAssumption DEF Comps
<1>2. o - offset \in 0..(len - 1)
  OBVIOUS
<1> DEFINE data == FirmwareData(offset, len)[o - offset]
<1>3. data = IF offset + len <= CompSize[comp] \/ o - offset < CompSize[comp] - offset
             THEN FileByte(CompLocOffset[comp] + offset + (o - offset)) ELSE 0
  BY <1>2 DEF FirmwareData
<1>4. CASE o < CompSize[comp]
  <2>1. data = FileByte(CompLocOffset[comp] + offset + (o - offset))
    BY <1>1, <1>3, <1>4
  <2>2. CompLocOffset[comp] + offset + (o - offset) = CompLocOffset[comp] + o
    BY <1>1
  <2>3. data = CompLocOffset[comp] + o + 1
    BY <2>1, <2>2, <1>1, <1>4 DEF FileByte
  <2> QED
    BY <2>3, <1>1, <1>4 DEF PackageByte, ImageSpace, NotStored
<1>5. CASE ~(o < CompSize[comp])
  <2>1. data = 0
    BY <1>1, <1>3, <1>5
  <2> QED
    BY <2>1, <1>1, <1>5 DEF PackageByte, ImageSpace, NotStored
<1> QED
  BY <1>4, <1>5

LEMMA AgentKeepsImage == UpdInv /\ Agent => ImageInv'
<1> SUFFICES ASSUME UpdInv, Agent PROVE ImageInv'
  OBVIOUS
<1> USE DEF UpdInv, ImageInv, amc
<1>0. fd \in FdStates /\ (agent = "transfer" => comp \in Comps)
  <2>1. comp \in 1..(Len(CompSize) + 1) /\ Len(CompSize) \in Nat
    BY ComponentsOfThePackage DEF ProgressInv, UpdateTypeInv
  <2>2. agent = "transfer" => comp <= Len(CompSize)
    BY DEF ProgressInv, AppliedInv
  <2>3. fd \in FdStates
    BY DEF ProgressInv, UpdateTypeInv
  <2> QED
    BY <2>1, <2>2, <2>3 DEF Comps
<1>1. CASE /\ UNCHANGED <<image, applied>>
           /\ agent' = "transfer" /\ fd' \in {"Verify", "Apply"} => Stored(comp)'
  BY <1>1 DEF Stored, ImageSpace, PackageByte, NotStored, Comps
<1>2. CASE UNCHANGED <<image, applied, comp, fd>> /\ agent' \in {agent, "cancel", "returned"}
  BY <1>1, <1>2 DEF Stored
<1>3. CASE OpenFails \/ GetStatus \/ GetStatusFails \/ ActivateFirmware \/ ActivateFails
  BY <1>1, <1>3
  DEF OpenFails, GetStatus, GetStatusFails, ActivateFirmware, ActivateFails, Return
<1>4. CASE OpenPackage \/ CommandFailed \/ CancelUpdate
  BY <1>1, <1>4 DEF OpenPackage, CommandFailed, CancelUpdate, Return
<1>5. CASE CommandSucceeds
  <2>1. fd' \notin {"Verify", "Apply"} /\ UNCHANGED <<image, applied>>
    BY <1>5, AcceptedStage
    DEF CommandSucceeds, ProgressInv, UpdateTypeInv, StageInv
  <2> QED
    BY <2>1, <1>1
<1>6. ASSUME NEW offset \in 0..FileSize, NEW len \in 1..(MaxTransferSize + 1),
             RequestFirmwareData(offset, len)
      PROVE  ImageInv'
  <2>1. CASE UNCHANGED image
    BY <1>2, <1>6, <2>1 DEF RequestFirmwareData
  <2>2. CASE image' # image
    <3>1. /\ agent = "transfer" /\ fd = "Download" /\ UNCHANGED <<fd, applied, comp>>
          /\ offset < CompSize[comp] /\ len <= MaxTransferSize
          /\ image' = [image EXCEPT ![comp] =
               [o \in ImageSpace(comp) |->
                  IF o \in offset..(offset + len - 1)
                  THEN FirmwareData(offset, len)[o - offset] ELSE @[o]]]
      BY <1>6, <2>2 DEF RequestFirmwareData
    <3>2. comp \in Comps /\ offset \in Nat /\ len \in Nat
      BY <1>0, <1>6, <3>1, AmcAssumption
    <3>3. DOMAIN image' = Comps /\ \A c \in Comps \ {comp} : image'[c] = image[c]
      BY <3>1
    <3>4. ASSUME NEW o \in ImageSpace(comp)
          PROVE  /\ image'[comp][o] \in PackageByte(comp, o)
                 /\ image[comp][o] # NotStored => image'[comp][o] # NotStored
      <4>1. image'[comp] = [p \in ImageSpace(comp) |->
               IF p \in offset..(offset + len - 1)
               THEN FirmwareData(offset, len)[p - offset] ELSE image[comp][p]]
        BY <3>1, <3>2
      <4>2. CASE o \in offset..(offset + len - 1)
        BY <4>1, <4>2, <3>1, <3>2, DataIsThePackage
      <4>3. CASE o \notin offset..(offset + len - 1)
        BY <4>1, <4>3, <3>2
      <4> QED
        BY <4>2, <4>3
    <3>5. \A c \in Comps : \A o \in ImageSpace(c) :
            /\ image'[c][o] \in PackageByte(c, o)
            /\ image[c][o] # NotStored => image'[c][o] # NotStored
      BY <3>3, <3>4
    <3>6. \A c \in applied : Stored(c)'
      <4> SUFFICES ASSUME NEW c \in applied, NEW o \in 0..(CompSize[c] - 1)
                   PROVE  image'[c][o] # NotStored
        BY <3>1 DEF Stored
      <4>1. c \in Comps /\ o \in ImageSpace(c)
        <5>1. applied \subseteq Comps
          <6>1. comp \in 1..(Len(CompSize) + 1) /\ Len(CompSize) \in Nat
            BY ComponentsOfThePackage DEF ProgressInv, UpdateTypeInv
          <6> QED
            BY <6>1 DEF ProgressInv, AppliedInv, Comps
        <5>2. CompSize[c] \in Nat /\ MaxTransferSize \in Nat \ {0}
          BY <5>1, AmcAssumption DEF Comps
        <5> QED
          BY <5>1, <5>2 DEF ImageSpace
      <4> QED
        BY <4>1, <3>5 DEF Stored
    <3> QED
      BY <3>1, <3>3, <3>5, <3>6 DEF PackageByte, NotStored, ImageSpace
  <2> QED
    BY <2>1, <2>2
<1>7. CASE TransferFails \/ UnknownRequest \/ StageFailed
  BY <1>2, <1>7 DEF TransferFails, UnknownRequest, StageFailed, vars
<1>8. CASE StageComplete
  BY <1>1, <1>8 DEF StageComplete, Stored
<1>9. CASE ApplyComplete
  BY <1>9 DEF ApplyComplete, Stored, ImageSpace, PackageByte, NotStored, Comps
<1> QED
  BY <1>3, <1>4, <1>5, <1>6, <1>7, <1>8, <1>9 DEF Agent

LEMMA UpdateStepKeepsInv == UpdInv /\ Next => UpdInv'
<1> SUFFICES ASSUME UpdInv, Next PROVE UpdInv'
  OBVIOUS
<1>1. CASE Agent
  BY <1>1, AgentKeepsProgress, AgentKeepsImage DEF UpdInv
<1>2. CASE UNCHANGED <<comp, step, ret, fp, fd, image, applied, result, history>>
           /\ (UNCHANGED caller \/ caller' # "start")
           /\ (UNCHANGED agent \/ (agent = "none" /\ agent' = "open" /\ caller' # "start"))
  <2>1. UNCHANGED <<comp, step, ret, fp, fd, applied, result, cancelFailed,
                    inventoryFailed, seekFailed>>
    BY <1>2 DEF history
  <2>2. ProgressInv'
    BY <1>2, <2>1
    DEF UpdInv, ProgressInv, UpdateTypeInv, AgentInv, StageInv, AppliedInv,
        FailureCleansUp
  <2>3. ImageInv'
    BY <1>2 DEF UpdInv, ImageInv, Stored, PackageByte, ImageSpace, NotStored
  <2> QED
    BY <2>2, <2>3 DEF UpdInv
<1>3. CASE FlashThreadEnds \/ MonitorPoll \/ MonitorCheck \/ UpdateRejected \/ JoinFlash
           \/ JoinProgress
  <2>1. UNCHANGED agentVars /\ (UNCHANGED caller \/ caller' # "start")
    BY <1>3
    DEF FlashThreadEnds, MonitorPoll, MonitorCheck, UpdateRejected, JoinFlash, JoinProgress
  <2> QED
    BY <2>1, <1>2 DEF agentVars, amc, history
<1>4. CASE StartThreads
  <2>1. agent = "none"
    BY <1>4 DEF StartThreads, UpdInv, ProgressInv, AgentInv
  <2> QED
    BY <2>1, <1>4, <1>2 DEF StartThreads, amc
<1>5. CASE Terminated
  BY <1>5, <1>2 DEF Terminated, vars, amc, threads
<1> QED
  BY <1>1, <1>3, <1>4, <1>5 DEF Next, Monitor, Caller

-----------------------------------------------------------------------------
(* The process *)

LEMMA UpdAlways == AmcSpec => []UpdInv
<1>1. AmcInit => UpdInv
  BY UpdInit DEF AmcInit
<1>2. UpdInv /\ [AmcNext]_amcVars => UpdInv'
  <2> SUFFICES ASSUME UpdInv, [AmcNext]_amcVars PROVE UpdInv'
    OBVIOUS
  <2>1. CASE UpdateStep
    BY <2>1, UpdateStepKeepsInv DEF UpdateStep
  <2>2. CASE UNCHANGED <<agent, comp, step, ret, fp, amc, result, threads, history>>
    BY <2>2
    DEF amc, threads, history, UpdInv, ProgressInv, UpdateTypeInv, AgentInv, StageInv,
        AppliedInv, FailureCleansUp, ImageInv, Stored, PackageByte, ImageSpace, NotStored
  <2>3. CASE SessionStep \/ StartUpdate \/ Ended \/ UNCHANGED amcVars
    BY <2>3, <2>2 DEF SessionStep, StartUpdate, Ended, amcVars, vars
  <2> QED
    BY <2>1, <2>3 DEF AmcNext
<1> QED
  BY <1>1, <1>2, PTL DEF AmcSpec

(* fwUpdInitialize() that fails leaves the AMC idle, unless CancelUpdate   *)
(* did not get through or an inventory command of a later component failed, *)
(* and on every path the package file is closed.                           *)
THEOREM UpdateFailuresCleanUp == AmcSpec => []FailureCleansUp
<1>1. UpdInv => FailureCleansUp
  BY DEF UpdInv, ProgressInv
<1> QED
  BY <1>1, UpdAlways, PTL

(* The AMC activates the firmware only when every component was applied,   *)
(* and what it applied is the package byte for byte, whatever parts it     *)
(* asked for, in whatever order and how often.                             *)
THEOREM UpdatesActivateThePackage == AmcSpec => []ActivatesThePackage
<1>1. UpdInv => ActivatesThePackage
  <2> SUFFICES ASSUME UpdInv PROVE ActivatesThePackage
    OBVIOUS
  <2>1. comp \in 1..(Len(CompSize) + 1) /\ Len(CompSize) \in Nat
    BY ComponentsOfThePackage DEF UpdInv, ProgressInv, UpdateTypeInv
  <2>2. applied \subseteq Comps
    BY <2>1 DEF UpdInv, ProgressInv, AppliedInv, Comps
  <2>3. ActivatedWhole
    BY <2>1 DEF UpdInv, ProgressInv, AppliedInv, ActivatedWhole, Comps
  <2>4. ASSUME NEW c \in applied, NEW o \in ImageSpace(c)
        PROVE  image[c][o] \in IF o < CompSize[c] THEN {CompLocOffset[c] + o + 1}
                               ELSE {0, NotStored}
    <3>1. image[c][o] \in PackageByte(c, o) /\ Stored(c)
      BY <2>2, <2>4 DEF UpdInv, ImageInv
    <3>2. CompSize[c] \in Nat /\ MaxTransferSize \in Nat \ {0}
      BY <2>2, AmcAssumption DEF Comps
    <3>3. o < CompSize[c] => image[c][o] # NotStored
      BY <3>1, <3>2 DEF Stored, ImageSpace
    <3> QED
      BY <3>1, <3>3 DEF PackageByte
  <2>5. ImageIntact
    BY <2>4 DEF ImageIntact
  <2> QED
    BY <2>3, <2>5 DEF ActivatesThePackage
<1> QED
  BY <1>1, UpdAlways, PTL

-----------------------------------------------------------------------------
(* The session with the AMCs: instance IDs *)

(* A sequence, of whatever elements.                                       *)
IsSequence(s) == Len(s) \in Nat /\ s = [i \in 1..Len(s) |-> s[i]]

SessionTypeInv ==
  /\ card \in Cards /\ attempt \in 0..(RetryCount - 1)
  /\ ids \in [Cards -> 1..IdMax]
  /\ ctl \in [Cards -> [eid : 0..RetryCount, open : BOOLEAN, reset : BOOLEAN]]
  /\ worker \in [Cards -> {"none", "running", "success", "failure"}]
  /\ destEid = [c \in Cards |-> destEid[c]]
  /\ outbox = [c \in Cards |-> outbox[c]]
  /\ types \in {<<>>, SupportedTypes} /\ cmdNo \in 1..Len(initCommands(types))
  /\ faults \in 0..MaxFaults /\ misread \in BOOLEAN

(* The unread packets of the card: whole responses but for the file        *)
(* transfer; those of GetPLDMTypes tell the types that the AMC supports.   *)
Plain(p) ==
  /\ p.som /\ p.eom /\ p.hdr.cmd # "MULTIPART_RECEIVE"
  /\ p.hdr.cmd = "GETTYPES" => p.hdr.v = SupportedTypes

WellFormed(q) == IsSequence(q) /\ \A i \in 1..Len(q) : Plain(q[i])

BeforeTransfer ==
  where \in {"init", "dispatch", "joining", "repository", "pdr", "sensor", "fru metadata",
            "fru table"}

OutboxInv ==
  /\ \A c \in Cards : IsSequence(outbox[c])
  /\ BeforeTransfer => \A c \in Cards : WellFormed(outbox[c])

(* Each operation has steps of its own.                                    *)
WhereInv ==
  /\ where \in {"init", "dispatch", "joining", "repository", "pdr", "sensor",
                "fru metadata", "fru table", "send", "read", "save", "updating", "ended"}
  /\ where \in {"init", "dispatch"} => operation.op = "none"
  /\ where = "joining" => operation.op = "reset"
  /\ where \in {"repository", "pdr"} => operation.op \in {"sensor", "file"}
  /\ where = "sensor" => operation.op = "sensor"
  /\ where \in {"fru metadata", "fru table"} => operation.op = "card info"
  /\ where \in {"send", "read", "save"} => operation.op = "file"
  /\ where = "updating" => operation.op = "update"
  /\ where # "ended" => exitCode = "none"

(* The threads of gpuReset().                                              *)
WorkerInv ==
  /\ \A c \in Cards : worker[c] = "running" => where = "joining"
  /\ \A c \in Cards : worker[c] = "success" => ctl[c].reset
  /\ where = "joining" => \A c \in ResetTargets(operation.arg) :
                            c \in Cards /\ worker[c] # "none"
  /\ ResetIsReal

(* The instance ID that was used k successes before u.                     *)
Before(u, k) == IF k < u THEN u - k ELSE u - k + IdMax - 1

(* The unread packets of PLDM are responses to the last requests, in order. *)
Aged(q, u) ==
  \A i \in 1..Len(q) : q[i].hdr.id = 0 \/ q[i].hdr.id = Before(u, Len(q) + 1 - i)

NoPldm(q) == \A i \in 1..Len(q) : q[i].hdr.id = 0

(* Cards whose packets nothing but the initialisation has touched.         *)
Initialised(c) == where \in {"init", "dispatch"} \/ worker[c] = "running"

AgeInv ==
  /\ \A c \in Cards : Initialised(c) =>
       Len(outbox[c]) <= RetryCount /\ Aged(outbox[c], InstanceId(c))
  /\ where = "init" =>
       /\ cmdNo <= 5 => NoPldm(outbox[card])
       /\ cmdNo # 4 => attempt = 0
       /\ cmdNo <= 4 => Len(outbox[card]) <= 1 + attempt
       /\ \A c \in Cards : c > card => NoPldm(outbox[c]) /\ Len(outbox[c]) <= 1

(* A packet of the part of the file that is being read, the j-th.          *)
PartOf(p) == p.byte - Len(bytes)
LastOfPart == IF PartLength <= 1 THEN 1 ELSE PartLength
PartField == [len |-> PartLength, last |-> PartLast]

Fresh(p) ==
  /\ p.byte \in Nat /\ PartOf(p) \in 1..LastOfPart
  /\ p.som <=> PartOf(p) = 1
  /\ p.seq = (PartOf(p) - 1) % 4
  /\ p.som => p.hdr.cmd = "MULTIPART_RECEIVE"
  /\ p.som /\ p.hdr.ok => p.hdr.v = PartField /\ (p.eom <=> PartLength <= 1)
  /\ p.som /\ ~p.hdr.ok => p.eom
  /\ ~p.som => (p.eom <=> PartOf(p) = PartLength)

(* A packet that a read of the file does not take.                         *)
Stale(p) == p.som => p.eom /\ p.hdr.cmd # "MULTIPART_RECEIVE"

(* Packets left over from before, then packets of this part in order.      *)
Ordered(q) ==
  \E s \in 0..Len(q) :
    /\ \A i \in 1..s : Stale(q[i])
    /\ \A i \in (s + 1)..Len(q) : Fresh(q[i])
    /\ \A i, k \in (s + 1)..Len(q) : i < k => PartOf(q[i]) < PartOf(q[k])
    /\ rx.som => s = 0

(* The packets read so far, the last one being the j-th of the part, are   *)
(* the beginning of the part unless packets were lost.                     *)
ReadSoFar(q) ==
  \E j \in 1..(PartLength - 1) :
    /\ Len(rx.bytes) \in 1..j /\ IsSequence(rx.bytes)
    /\ rx.seq = j % 4
    /\ \A i \in 1..Len(q) : PartOf(q[i]) >= j
    /\ Len(rx.bytes) = j => \A i \in 1..j : rx.bytes[i] = Len(bytes) + i
    /\ rx.hdr.cmd = "MULTIPART_RECEIVE" /\ rx.hdr.ok /\ rx.hdr.v = PartField

(* What was collected is the beginning of the file, whatever was read.     *)
Prefix == IsSequence(bytes) /\ Len(bytes) <= fileSize
          /\ \A i \in 1..Len(bytes) : bytes[i] = i

WholeFile == Prefix /\ Len(bytes) = fileSize /\ ~ctl[card].open

(* A packet that DF_CLOSE takes for its response only if it is.            *)
CloseTakes(p) ==
  p.som => p.eom /\ (SameCode(p.hdr.cmd, "DF_CLOSE") /\ p.hdr.ok => ~ctl[card].open)

RxInv ==
  /\ rx = [cmd |-> rx.cmd, retry |-> rx.retry, som |-> rx.som, seq |-> rx.seq,
           hdr |-> rx.hdr, bytes |-> rx.bytes]
  /\ rx.som \in BOOLEAN

(* What is known at a request and the read of its response.                *)
RequestInv ==
  /\ rx.cmd \in {"DF_OPEN", "MULTIPART_RECEIVE", "DF_CLOSE"} /\ Prefix
  /\ rx.cmd # "MULTIPART_RECEIVE" /\ fileRet => ~rx.som
  /\ rx.cmd = "DF_OPEN" => bytes = <<>> /\ fileRet = TRUE /\ WellFormed(outbox[card])
  /\ rx.cmd = "MULTIPART_RECEIVE" => fileRet = TRUE
  /\ rx.cmd = "DF_CLOSE" /\ fileRet =>
       /\ Len(bytes) = fileSize
       /\ \A i \in 1..Len(outbox[card]) : CloseTakes(outbox[card][i])

PartInv == Ordered(outbox[card]) /\ (rx.som => ReadSoFar(outbox[card]))

FileInv ==
  /\ fileSize \in Nat /\ RxInv
  /\ where \in {"init", "dispatch", "joining", "repository", "pdr", "sensor", "fru metadata"} =>
       bytes = <<>> /\ fileRet = TRUE
  /\ where \in {"send", "read"} => RequestInv
  /\ where = "read" => ids[card] < IdMax
  /\ where = "send" => ~rx.som
  /\ where = "send" /\ rx.cmd = "MULTIPART_RECEIVE" =>
       \A i \in 1..Len(outbox[card]) : Stale(outbox[card][i])
  /\ where = "read" /\ rx.cmd = "MULTIPART_RECEIVE" => PartInv
  /\ where = "save" => WholeFile
  /\ where = "ended" /\ operation.op = "file" /\ exitCode = "success" => WholeFile

(* Without a fault and a response of an earlier request nothing fails: the *)
(* packets are those of the response, in order.                            *)
CleanRead ==
  /\ fileRet = TRUE
  /\ rx.cmd # "MULTIPART_RECEIVE" =>
       /\ Len(outbox[card]) = 1
       /\ LET p == outbox[card][1]
          IN p.som /\ p.eom /\ p.hdr.cmd = rx.cmd /\ p.hdr.ok
  /\ rx.cmd = "DF_CLOSE" => ~ctl[card].open
  /\ rx.cmd = "MULTIPART_RECEIVE" =>
       LET read == IF rx.som THEN Len(rx.bytes) ELSE 0
       IN /\ Len(outbox[card]) = LastOfPart - read /\ read < LastOfPart
          /\ rx.som => rx.seq = read % 4
          /\ \A i \in 1..Len(outbox[card]) :
               LET p == outbox[card][i]
               IN Fresh(p) /\ PartOf(p) = read + i /\ (p.som => p.hdr.ok)

CleanInv ==
  /\ where \notin {"send", "read", "save", "ended"} => \A c \in Cards : ~ctl[c].open
  /\ faults = 0 /\ ~misread =>
       /\ where = "send" => outbox[card] = <<>> /\ fileRet = TRUE
       /\ where = "read" => CleanRead
       /\ where = "ended" /\ operation.op = "file" => ~ctl[card].open

(* Answers, as long as no response of an earlier request was read.         *)
SameEids(c) == destEid[c] = ctl[c].eid

EidInv ==
  ~misread =>
    /\ where = "init" =>
         /\ \A c \in Cards : c < card => SameEids(c)
         /\ \A c \in Cards : c > card \/ (c = card /\ cmdNo <= 2) => destEid[c] = 0
         /\ cmdNo >= 3 /\ cmdNo # 4 => SameEids(card)
         /\ cmdNo = 4 => destEid[card] = 0
    /\ where \notin {"init", "ended"} \/ exitCode = "success" => \A c \in Cards : SameEids(c)

PdrShape ==
  pdr = [handle |-> pdr.handle, xfer |-> pdr.xfer, next |-> pdr.next, left |-> pdr.left,
         cur |-> pdr.cur, recs |-> pdr.recs]
RecordParts(r, n) == [p \in 1..n |-> <<r, p>>]

PdrInv ==
  /\ PdrShape
  /\ ~misread =>
       /\ where \in {"init", "dispatch", "repository"} =>
            pdr.recs = <<>> /\ pdr.cur = <<>> /\ ~pdr.next /\ pdr.handle = 0
       /\ where \in {"pdr", "sensor"} \/ (exitCode = "success" /\ operation.op = "sensor") =>
            /\ IsSequence(pdr.recs)
            /\ \A r \in 1..Len(pdr.recs) : pdr.recs[r] = RecordParts(r, Repository[r].parts)
       /\ where = "sensor" \/ (exitCode = "success" /\ operation.op = "sensor") =>
            Len(pdr.recs) = Len(Repository)
       /\ where = "pdr" =>
            /\ Len(pdr.recs) < Len(Repository)
            /\ pdr.left = Len(Repository) - Len(pdr.recs)
            /\ IsSequence(pdr.cur)
            /\ Len(pdr.cur) < Repository[Len(pdr.recs) + 1].parts
            /\ pdr.cur = RecordParts(Len(pdr.recs) + 1, Len(pdr.cur))
            /\ Asked = <<Len(pdr.recs) + 1, Len(pdr.cur) + 1>>
            /\ pdr.next \in BOOLEAN
       /\ where = "sensor" => Matching(pdr.recs) # {}
       /\ exitCode = "success" /\ operation.op = "sensor" =>
            /\ reading.sensor = operation.item
            /\ \/ reading.pdr \in SensorPdrs(operation.item)
               \/ Misleading(reading.pdr, operation.item)

FruShape == fru = [len |-> fru.len, handle |-> fru.handle]

FruInv ==
  /\ FruShape
  /\ ~misread =>
       /\ where = "fru metadata" => bytes = <<>>
       /\ where = "fru table" =>
            /\ fru.len = FruParts
            /\ fru.handle = Len(bytes) + 1
            /\ Len(bytes) < FruParts
       /\ where = "fru table" \/ (exitCode = "success" /\ operation.op = "card info") =>
            IsSequence(bytes) /\ \A i \in 1..Len(bytes) : bytes[i] = i
       /\ exitCode = "success" /\ operation.op = "card info" => Len(bytes) = FruParts

SessionInv == SessionTypeInv /\ OutboxInv /\ WhereInv /\ WorkerInv /\ AgeInv
IInv == SessionInv /\ FileInv /\ CleanInv /\ EidInv /\ PdrInv /\ FruInv

Items(s) == {s[i] : i \in 1..Len(s)}

LEMMA SequenceOfItems ==
  ASSUME NEW s, IsSequence(s)
  PROVE  s \in Seq(Items(s))
<1>1. \A i \in 1..Len(s) : s[i] \in Items(s)
  BY DEF Items
<1>2. s \in [1..Len(s) -> Items(s)]
  BY <1>1 DEF IsSequence
<1> QED
  BY <1>2, SeqDef DEF IsSequence

LEMMA SequenceIsSequence ==
  ASSUME NEW S, NEW s \in Seq(S)
  PROVE  IsSequence(s) /\ \A i \in 1..Len(s) : s[i] \in S
  BY LenProperties, ElementOfSeq DEF IsSequence

LEMMA AppendToSequence ==
  ASSUME NEW s, IsSequence(s), NEW x
  PROVE  /\ IsSequence(Append(s, x)) /\ Len(Append(s, x)) = Len(s) + 1
         /\ \A i \in 1..Len(s) : Append(s, x)[i] = s[i]
         /\ Append(s, x)[Len(s) + 1] = x
         /\ Append(s, x) # <<>>
<1> DEFINE S == Items(s) \cup {x}
<1>1. s \in Seq(S)
  BY SequenceOfItems, SeqMonotonic
<1>2. Append(s, x) \in Seq(S)
  BY <1>1, AppendProperties
<1> QED
  <2>1. IsSequence(Append(s, x))
    BY <1>2, SequenceIsSequence
  <2> QED
    BY <2>1, <1>1, AppendProperties

LEMMA TailOfSequence ==
  ASSUME NEW s, IsSequence(s), s # <<>>
  PROVE  /\ IsSequence(Tail(s)) /\ Len(s) \in Nat \ {0} /\ Len(Tail(s)) = Len(s) - 1
         /\ \A i \in 1..Len(Tail(s)) : Tail(s)[i] = s[i + 1]
         /\ Head(s) = s[1]
<1>1. s \in Seq(Items(s))
  BY SequenceOfItems
<1>2. Tail(s) \in Seq(Items(s)) /\ Head(s) = s[1] /\ Len(Tail(s)) = Len(s) - 1
      /\ \A i \in 1..Len(Tail(s)) : Tail(s)[i] = s[i + 1]
  BY <1>1, HeadTailProperties
<1> QED
  BY <1>1, <1>2, SequenceIsSequence, EmptySeq

LEMMA LenOfSequence == \A s : IsSequence(s) => Len(s) \in Nat
  BY DEF IsSequence

LEMMA EmptySequence == IsSequence(<<>>) /\ Len(<<>>) = 0
  BY DEF IsSequence

-----------------------------------------------------------------------------
(* A request and what becomes of it *)

(* The write fails, the read fails, or the oldest response is read.        *)
ReadFails(c, cmd, v, o) ==
  \E ok \in BOOLEAN, old \in {outbox[c], <<>>}, cost \in {0, 1} :
    o = ReadFailure(old, Response(c, cmd, ok, v), cost)
ReadsOldest(c, cmd, can, v, o) ==
  \E ok \in BOOLEAN, old \in {outbox[c], <<>>} :
    /\ ok => can
    /\ o = ReadOf(old, Response(c, cmd, ok, v), IF ok \/ ~can THEN 0 ELSE 1)

LEMMA OutcomeCases ==
  ASSUME NEW c, NEW cmd, NEW can \in BOOLEAN, NEW v, NEW o \in Outcomes(c, cmd, can, v)
  PROVE  o = WriteFailure(c) \/ ReadFails(c, cmd, v, o) \/ ReadsOldest(c, cmd, can, v, o)
<1> DEFINE Acts == [ok : IF can THEN BOOLEAN ELSE {FALSE}, old : {outbox[c], <<>>}]
           Cost(ok) == IF ok \/ ~can THEN 0 ELSE 1
<1>1. \/ o = WriteFailure(c)
      \/ \E a \in Acts :
           o = ReadFailure(a.old, Response(c, cmd, a.ok, v), Cost(a.ok))
      \/ \E a \in Acts : o = ReadOf(a.old, Response(c, cmd, a.ok, v), Cost(a.ok))
  BY DEF Outcomes
<1>2. \A a \in Acts : a.ok \in BOOLEAN /\ a.old \in {outbox[c], <<>>} /\ (a.ok => can)
                    /\ Cost(a.ok) \in {0, 1}
  OBVIOUS
<1>3. ASSUME NEW a \in Acts,
             o = ReadFailure(a.old, Response(c, cmd, a.ok, v), Cost(a.ok))
      PROVE  ReadFails(c, cmd, v, o)
  BY <1>2, <1>3 DEF ReadFails
<1>4. ASSUME NEW a \in Acts,
             o = ReadOf(a.old, Response(c, cmd, a.ok, v), Cost(a.ok))
      PROVE  ReadsOldest(c, cmd, can, v, o)
  BY <1>2, <1>4 DEF ReadsOldest
<1> QED
  BY <1>1, <1>3, <1>4

(* The response is read from behind the unread packets that are kept.      *)
LEMMA RotatedQueue ==
  ASSUME NEW q, IsSequence(q), NEW m, NEW old \in {q, <<>>}
  PROVE  LET r == Tail(Append(old, m)) IN
         /\ IsSequence(r) /\ Len(old) \in Nat /\ Len(r) = Len(old) /\ Len(r) <= Len(q)
         /\ \A i \in 1..Len(r) : r[i] = IF i < Len(old) THEN old[i + 1] ELSE m
         /\ Head(Append(old, m)) = IF old = <<>> THEN m ELSE old[1]
         /\ old # <<>> => Len(old) > 0
         /\ old = <<>> => r = <<>>
<1> DEFINE a == Append(old, m)
           r == Tail(a)
<1>1. IsSequence(old) /\ Len(old) <= Len(q) /\ Len(old) \in Nat
  BY EmptySequence, LenOfSequence
<1>2. /\ IsSequence(a) /\ Len(a) = Len(old) + 1 /\ a # <<>>
      /\ \A i \in 1..Len(old) : a[i] = old[i]
      /\ a[Len(old) + 1] = m
  BY <1>1, AppendToSequence
<1>3. /\ IsSequence(r) /\ Len(r) = Len(a) - 1 /\ \A i \in 1..Len(r) : r[i] = a[i + 1]
      /\ Head(a) = a[1]
  BY <1>2, TailOfSequence
<1>4. old # <<>> => Len(old) > 0
  BY <1>1, TailOfSequence
<1>5. old = <<>> => Len(old) = 0
  BY EmptySequence
<1>6. old = <<>> => r = <<>>
  <2>1. old = <<>> => Len(r) = 0
    BY <1>1, <1>2, <1>3, <1>5
  <2> QED
    BY <2>1, <1>3, TailOfSequence
<1> HIDE DEF a, r
<1>7. \A i \in 1..Len(r) : r[i] = IF i < Len(old) THEN old[i + 1] ELSE m
  BY <1>1, <1>2, <1>3
<1>8. Head(a) = IF old = <<>> THEN m ELSE old[1]
  BY <1>1, <1>2, <1>3, <1>4, <1>5
<1>9. Len(r) = Len(old) /\ Len(r) <= Len(q)
  BY <1>1, <1>2, <1>3
<1> QED
  BY <1>1, <1>3, <1>4, <1>6, <1>7, <1>8, <1>9 DEF a, r

(* The ID after u, and how the IDs before it are counted from there.       *)
After(u) == IF u + 1 = IdMax THEN 1 ELSE u + 1

LEMMA BeforeAfter ==
  ASSUME NEW u \in 1..(IdMax - 1), NEW k \in 1..RetryCount
  PROVE  /\ Before(After(u), k + 1) = Before(u, k) /\ Before(After(u), 1) = u
         /\ Before(u, k) # u /\ After(u) \in 1..(IdMax - 1)
  BY AmcSessionAssumption DEF Before, After

LEMMA AgedAfterSuccess ==
  ASSUME NEW q, IsSequence(q), Len(q) <= RetryCount, NEW u \in 1..(IdMax - 1), Aged(q, u),
         NEW m, m.hdr.id = u, NEW old \in {q, <<>>}
  PROVE  Aged(Tail(Append(old, m)), After(u))
<1> DEFINE r == Tail(Append(old, m))
<1>1. /\ IsSequence(r) /\ Len(r) = Len(old) /\ Len(old) \in Nat /\ Len(r) <= Len(q)
      /\ \A i \in 1..Len(r) : r[i] = IF i < Len(old) THEN old[i + 1] ELSE m
  BY RotatedQueue
<1>2. Len(old) # 0 => old = q
  BY EmptySequence
<1> SUFFICES ASSUME NEW i \in 1..Len(r)
             PROVE  r[i].hdr.id = 0 \/ r[i].hdr.id = Before(After(u), Len(r) + 1 - i)
  BY DEF Aged
<1> HIDE DEF r
<1>3. CASE i < Len(old)
  <2>1. r[i] = q[i + 1] /\ i + 1 \in 1..Len(q) /\ Len(q) = Len(r) /\ Len(q) \in Nat
    BY <1>1, <1>2, <1>3, LenOfSequence
  <2>2. q[i + 1].hdr.id = 0 \/ q[i + 1].hdr.id = Before(u, Len(q) + 1 - (i + 1))
    BY <2>1 DEF Aged
  <2>3. Len(q) + 1 - (i + 1) \in 1..RetryCount
    BY <2>1, <1>1, <1>3, AmcSessionAssumption
  <2>4. Before(After(u), Len(q) + 1 - (i + 1) + 1) = Before(u, Len(q) + 1 - (i + 1))
    BY <2>3, BeforeAfter
  <2>5. Len(q) + 1 - (i + 1) + 1 = Len(r) + 1 - i
    BY <2>1
  <2> QED
    BY <2>1, <2>2, <2>4, <2>5
<1>4. CASE ~(i < Len(old))
  <2>1. r[i] = m /\ Len(r) + 1 - i = 1
    BY <1>1, <1>4
  <2>2. 1 \in 1..RetryCount
    BY AmcSessionAssumption
  <2> QED
    BY <2>1, <2>2, BeforeAfter
<1> QED
  BY <1>3, <1>4

(* Packets without an instance ID stay so.                                 *)
LEMMA NoPldmKept ==
  ASSUME NEW q, IsSequence(q), NoPldm(q), NEW m, m.hdr.id = 0, NEW old \in {q, <<>>}
  PROVE  /\ NoPldm(Tail(Append(old, m))) /\ NoPldm(Append(old, m))
         /\ Len(Append(old, m)) <= Len(q) + 1 /\ IsSequence(Append(old, m))
<1>1. IsSequence(old) /\ NoPldm(old) /\ Len(old) <= Len(q) /\ Len(old) \in Nat
      /\ Len(q) \in Nat
  BY EmptySequence, LenOfSequence DEF NoPldm
<1>2. NoPldm(Append(old, m)) /\ Len(Append(old, m)) = Len(old) + 1
      /\ IsSequence(Append(old, m))
  BY <1>1, AppendToSequence DEF NoPldm
<1>3. NoPldm(Tail(Append(old, m)))
  BY <1>1, RotatedQueue DEF NoPldm
<1> QED
  BY <1>1, <1>2, <1>3

LEMMA CommandQueue ==
  ASSUME NEW c, WellFormed(outbox[c]), NEW cmd, NEW can \in BOOLEAN, NEW v,
         cmd = "GETTYPES" => v = SupportedTypes, cmd # "MULTIPART_RECEIVE", NEW o \in Outcomes(c, cmd, can, v)
  PROVE  /\ WellFormed(o.box)
         /\ o.got.ok /\ o.got.cmd = "GETTYPES" => o.got.v = SupportedTypes
<1> DEFINE m(ok) == Response(c, cmd, ok, v)
<1>1. ASSUME NEW ok \in BOOLEAN PROVE Plain(m(ok))
  BY DEF Response, Single, Plain
<1>2. ASSUME NEW old \in {outbox[c], <<>>} PROVE WellFormed(old)
  BY EmptySequence DEF WellFormed
<1>3. CASE o = WriteFailure(c)
  BY <1>3 DEF WriteFailure, NoHdr
<1>4. CASE ReadFails(c, cmd, v, o)
  <2>1. PICK ok \in BOOLEAN, old \in {outbox[c], <<>>}, cost \in {0, 1} :
          o = ReadFailure(old, m(ok), cost)
    BY <1>4 DEF ReadFails
  <2>2. WellFormed(Append(old, m(ok)))
    <3> HIDE DEF m
    <3> QED
      BY <1>1, <1>2, AppendToSequence, LenOfSequence DEF WellFormed
  <2> QED
    BY <2>1, <2>2 DEF ReadFailure, NoHdr
<1>5. CASE ReadsOldest(c, cmd, can, v, o)
  <2>1. PICK ok \in BOOLEAN, old \in {outbox[c], <<>>} :
          o = ReadOf(old, m(ok), IF ok \/ ~can THEN 0 ELSE 1)
    BY <1>5 DEF ReadsOldest
  <2>2. o.box = Tail(Append(old, m(ok))) /\ o.got = Head(Append(old, m(ok))).hdr
    BY <2>1 DEF ReadOf
  <2>3. IsSequence(outbox[c]) /\ Plain(m(ok)) /\ WellFormed(old)
    BY <1>1, <1>2 DEF WellFormed
  <2> HIDE DEF m
  <2>4. WellFormed(Tail(Append(old, m(ok))))
    BY <2>3, RotatedQueue DEF WellFormed
  <2>5. Plain(Head(Append(old, m(ok))))
    BY <2>3, RotatedQueue DEF WellFormed
  <2> QED
    BY <2>2, <2>4, <2>5 DEF Plain
<1> QED
  BY <1>3, <1>4, <1>5, OutcomeCases

(* A command of MCTP adds no packet with an instance ID, and one packet at *)
(* most if its response was not read.                                      *)
LEMMA MctpQueue ==
  ASSUME NEW c, IsSequence(outbox[c]), NoPldm(outbox[c]), NEW cmd \in MctpCommands, NEW v,
         NEW o \in Outcomes(c, cmd, TRUE, v)
  PROVE  /\ NoPldm(o.box) /\ Len(o.box) <= Len(outbox[c]) + 1 /\ Len(o.box) \in Nat
         /\ o.got.ok => Len(o.box) <= Len(outbox[c])
<1> DEFINE m(ok) == Response(c, cmd, ok, v)
<1>1. ASSUME NEW ok \in BOOLEAN PROVE m(ok).hdr.id = 0
  BY DEF Response, Single
<1>2. Len(outbox[c]) \in Nat
  BY LenOfSequence
<1>3. CASE o = WriteFailure(c)
  BY <1>2, <1>3 DEF WriteFailure, NoHdr
<1>4. CASE ReadFails(c, cmd, v, o)
  <2>1. PICK ok \in BOOLEAN, old \in {outbox[c], <<>>}, cost \in {0, 1} :
          o = ReadFailure(old, m(ok), cost)
    BY <1>4 DEF ReadFails
  <2>2. o.box = Append(old, m(ok)) /\ ~o.got.ok
    BY <2>1 DEF ReadFailure, NoHdr
  <2> HIDE DEF m
  <2> QED
    BY <2>2, <1>1, NoPldmKept, LenOfSequence
<1>5. CASE ReadsOldest(c, cmd, TRUE, v, o)
  <2>1. PICK ok \in BOOLEAN, old \in {outbox[c], <<>>} : o = ReadOf(old, m(ok), IF ok THEN 0 ELSE 1)
    BY <1>5 DEF ReadsOldest
  <2>2. o.box = Tail(Append(old, m(ok)))
    BY <2>1 DEF ReadOf
  <2> HIDE DEF m
  <2>3. NoPldm(o.box)
    BY <2>2, <1>1, NoPldmKept
  <2>4. Len(o.box) \in Nat /\ Len(o.box) <= Len(outbox[c])
    BY <2>2, RotatedQueue
  <2> QED
    BY <1>2, <2>3, <2>4
<1> QED
  BY <1>3, <1>4, <1>5, OutcomeCases

LEMMA OnlyAReadSucceeds ==
  ASSUME NEW c, NEW cmd, NEW can \in BOOLEAN, NEW v, NEW o \in Outcomes(c, cmd, can, v),
         o.got.ok
  PROVE  ReadsOldest(c, cmd, can, v, o)
<1>1. o # WriteFailure(c)
  BY DEF WriteFailure, NoHdr
<1>2. ~ReadFails(c, cmd, v, o)
  BY DEF ReadFails, ReadFailure, NoHdr
<1> QED
  BY <1>1, <1>2, OutcomeCases

(* A command of PLDM that succeeds leaves as many unread packets at most,  *)
(* all of them of earlier IDs.                                             *)
LEMMA PldmQueue ==
  ASSUME NEW c, IsSequence(outbox[c]), Len(outbox[c]) <= RetryCount,
         InstanceId(c) \in 1..(IdMax - 1), Aged(outbox[c], InstanceId(c)), NEW cmd,
         cmd \notin MctpCommands, NEW v, NEW o \in Outcomes(c, cmd, TRUE, v), o.got.ok
  PROVE  Aged(o.box, After(InstanceId(c))) /\ Len(o.box) <= RetryCount
<1>1. ReadsOldest(c, cmd, TRUE, v, o)
  BY OnlyAReadSucceeds
<1>2. PICK ok \in BOOLEAN, old \in {outbox[c], <<>>} :
        o = ReadOf(old, Response(c, cmd, ok, v), IF ok THEN 0 ELSE 1)
  BY <1>1 DEF ReadsOldest
<1> DEFINE m == Response(c, cmd, ok, v)
<1>3. o.box = Tail(Append(old, m)) /\ m.hdr.id = InstanceId(c)
  BY <1>2 DEF ReadOf, Response, Single
<1> HIDE DEF m
<1>4. Len(o.box) <= Len(outbox[c]) /\ Len(o.box) \in Nat /\ Len(outbox[c]) \in Nat
  BY <1>3, RotatedQueue, LenOfSequence
<1>5. Aged(o.box, After(InstanceId(c)))
  BY <1>3, AgedAfterSuccess
<1> QED
  BY <1>4, <1>5, AmcSessionAssumption

-----------------------------------------------------------------------------
(* The initialisation *)

(* The commands of MCTP come first, SetEID among them the fourth.          *)
LEMMA CommandsInTurn ==
  ASSUME NEW t \in {<<>>, SupportedTypes}
  PROVE  /\ Len(initCommands(t)) \in Nat /\ Len(initCommands(t)) >= 8
         /\ \A n \in 1..Len(initCommands(t)) :
              LET cmd == initCommands(t)[n]
              IN /\ cmd \in MctpCommands <=> n <= 5
                 /\ cmd = "GET_ENDPOINT_ID" <=> n = 2
                 /\ cmd = "SET_ENDPOINT_ID" <=> n = 4
                 /\ cmd = "GETTYPES" <=> n = 6
                 /\ cmd # "MULTIPART_RECEIVE"
<1>1. t \in Seq(Nat) /\ Len(t) \in Nat
  BY AmcSessionAssumption, EmptySeq, LenProperties
<1> DEFINE others == {n \in 1..Len(t) : t[n] # 7}
           head == <<"GET_VERSION", "GET_ENDPOINT_ID", "GET_ENDPOINT_UUID", "SET_ENDPOINT_ID",
                     "GET_MESSAGE_TYPE", "GETTYPES">>
           versions == [i \in 1..Len(t) |-> "GETVERSION"]
           commands == [i \in 1..Cardinality(others) |-> "GETCOMMANDS"]
           tids == <<"GETTID", "SETTID">>
           Rest == {"GETVERSION", "GETCOMMANDS", "GETTID", "SETTID"}
           All == Rest \cup {"GET_VERSION", "GET_ENDPOINT_ID", "GET_ENDPOINT_UUID",
                            "SET_ENDPOINT_ID", "GET_MESSAGE_TYPE", "GETTYPES"}
<1>2. Cardinality(others) \in Nat
  <2>1. IsFiniteSet(1..Len(t))
    BY <1>1, FS_Interval
  <2> QED
    BY <2>1, FS_Subset, FS_CardinalityType
<1>3. versions \in Seq(Rest) /\ commands \in Seq(Rest) /\ tids \in Seq(Rest)
  <2>1. versions \in [1..Len(t) -> Rest] /\ commands \in [1..Cardinality(others) -> Rest]
    OBVIOUS
  <2> HIDE DEF others, versions, commands
  <2>2. versions \in Seq(Rest)
    BY <2>1, <1>1, SeqDef
  <2>3. commands \in Seq(Rest)
    BY <2>1, <1>2, SeqDef
  <2> QED
    BY <2>2, <2>3
<1>4. versionCommands(t) = versions \o commands \o tids
      /\ initCommands(t) = head \o versionCommands(t)
  BY DEF initCommands, versionCommands
<1>5. head \in Seq(All) /\ Len(head) = 6 /\ Len(tids) = 2 /\ Rest \subseteq All
  OBVIOUS
<1> HIDE DEF others, versions, commands, tids
<1> DEFINE rest == versionCommands(t)
<1>6. rest \in Seq(Rest) /\ Len(rest) >= 2 /\ Len(rest) \in Nat
  <2>1. versions \o commands \in Seq(Rest) /\ Len(versions \o commands) \in Nat
    BY <1>3, ConcatProperties, LenProperties
  <2>2. rest \in Seq(Rest) /\ Len(rest) = Len(versions \o commands) + Len(tids)
    BY <1>3, <1>4, <2>1, ConcatProperties
  <2> QED
    BY <2>1, <2>2, <1>5
<1> HIDE DEF rest
<1>7. rest \in Seq(All)
  <2> HIDE DEF Rest, All, head
  <2> QED
    BY <1>5, <1>6, SeqMonotonic
<1>8. initCommands(t) = head \o rest
  BY <1>4 DEF rest
<1>9. /\ Len(initCommands(t)) = 6 + Len(rest)
      /\ \A n \in 1..Len(initCommands(t)) :
           initCommands(t)[n] = IF n <= 6 THEN head[n] ELSE rest[n - 6]
  <2>1. head \in Seq(All) /\ Len(head) = 6
    BY <1>5
  <2> HIDE DEF head, All
  <2>2. Len(head \o rest) = Len(head) + Len(rest)
    BY ONLY <1>7, <2>1, ConcatProperties
  <2>3. \A n \in 1..(Len(head) + Len(rest)) :
          (head \o rest)[n] = IF n <= Len(head) THEN head[n] ELSE rest[n - Len(head)]
    BY ONLY <1>7, <2>1, ConcatProperties
  <2> DEFINE all == head \o rest
  <2> HIDE DEF all
  <2> QED
    BY <1>8, <2>1, <2>2, <2>3 DEF all
<1>10. \A n \in 1..Len(rest) : rest[n] \in Rest
  BY <1>6, ElementOfSeq
<1>11. ASSUME NEW n \in 1..Len(initCommands(t))
       PROVE  LET cmd == initCommands(t)[n]
              IN /\ cmd \in MctpCommands <=> n <= 5
                 /\ cmd = "GET_ENDPOINT_ID" <=> n = 2
                 /\ cmd = "SET_ENDPOINT_ID" <=> n = 4
                 /\ cmd = "GETTYPES" <=> n = 6
                 /\ cmd # "MULTIPART_RECEIVE"
  <2>1. CASE n <= 6
    <3>1. n \in {1, 2, 3, 4, 5, 6} /\ initCommands(t)[n] = head[n]
      BY <1>6, <1>9, <2>1
    <3> QED
      BY <3>1 DEF MctpCommands
  <2>2. CASE ~(n <= 6)
    <3>1. n - 6 \in 1..Len(rest) /\ initCommands(t)[n] = rest[n - 6]
      BY <1>6, <1>9, <2>2
    <3> QED
      BY <3>1, <1>10, <2>2 DEF MctpCommands
  <2> QED
    BY <2>1, <2>2
<1> QED
  BY <1>6, <1>9, <1>11

(* What a command leaves of the session: the other cards are not touched.  *)
LEMMA OutcomeCost ==
  ASSUME NEW c, NEW cmd, NEW can \in BOOLEAN, NEW v, NEW o \in Outcomes(c, cmd, can, v)
  PROVE  o.cost \in {0, 1, 2} /\ o.stale \in BOOLEAN
<1>1. CASE o = WriteFailure(c)
  BY <1>1 DEF WriteFailure
<1>2. CASE ReadFails(c, cmd, v, o)
  BY <1>2 DEF ReadFails, ReadFailure
<1>3. CASE ReadsOldest(c, cmd, can, v, o)
  BY <1>3 DEF ReadsOldest, ReadOf
<1> QED
  BY <1>1, <1>2, <1>3, OutcomeCases

AllWellFormed == \A c \in Cards : WellFormed(outbox[c])

LEMMA WellFormedBefore == OutboxInv /\ BeforeTransfer => AllWellFormed
  BY DEF OutboxInv, AllWellFormed

InstanceIdsInRange == \A c \in Cards : InstanceId(c) \in 1..(IdMax - 1)

LEMMA IdInRange == ids \in [Cards -> 1..IdMax] => InstanceIdsInRange
  BY AmcSessionAssumption DEF InstanceId, InstanceIdsInRange

LEMMA CommandFrame ==
  ASSUME SessionTypeInv, AllWellFormed, NEW c \in Cards, NEW cmd, NEW can \in BOOLEAN, NEW v,
         cmd = "GETTYPES" => v = SupportedTypes,
         cmd = "SET_ENDPOINT_ID" => v \in 0..RetryCount, cmd # "MULTIPART_RECEIVE",
         NEW o \in Outcomes(c, cmd, can, v), NEW ok, Command(c, cmd, v, o, ok)
  PROVE  /\ ids' \in [Cards -> 1..IdMax]
         /\ ids'[c] = NextId(c, cmd, ok)
         /\ ctl' \in [Cards -> [eid : 0..RetryCount, open : BOOLEAN, reset : BOOLEAN]]
         /\ ctl'[c] = IF o.done THEN Executed(cmd, v, ctl[c]) ELSE ctl[c]
         /\ \A d \in Cards : /\ ctl[d].reset => ctl'[d].reset
                             /\ ctl'[d].open = ctl[d].open
         /\ outbox' = [d \in Cards |-> outbox'[d]]
         /\ outbox'[c] = o.box
         /\ \A d \in Cards \ {c} :
              outbox'[d] = outbox[d] /\ ids'[d] = ids[d] /\ ctl'[d] = ctl[d]
         /\ AllWellFormed'
         /\ faults' = faults + o.cost
         /\ faults' \in 0..MaxFaults /\ misread' \in BOOLEAN
         /\ misread' = (misread \/ o.stale)
         /\ o.got.ok /\ o.got.cmd = "GETTYPES" => o.got.v = SupportedTypes
<1> DEFINE Ctl == [eid : 0..RetryCount, open : BOOLEAN, reset : BOOLEAN]
<1>1. InstanceId(c) \in 1..(IdMax - 1) /\ IdMax \in Nat /\ MaxFaults \in Nat
  BY IdInRange, AmcSessionAssumption DEF SessionTypeInv, InstanceIdsInRange
<1>2. NextId(c, cmd, ok) \in 1..IdMax
  BY <1>1 DEF NextId, SessionTypeInv
<1>3. ids' \in [Cards -> 1..IdMax] /\ ids'[c] = NextId(c, cmd, ok)
      /\ \A d \in Cards \ {c} : ids'[d] = ids[d]
  BY <1>2 DEF Command, SessionTypeInv
<1>4. /\ Executed(cmd, v, ctl[c]) \in Ctl
      /\ ctl[c].reset => Executed(cmd, v, ctl[c]).reset
      /\ Executed(cmd, v, ctl[c]).open = ctl[c].open
  BY DEF Executed, SessionTypeInv
<1>5. /\ ctl' \in [Cards -> Ctl]
      /\ ctl'[c] = IF o.done THEN Executed(cmd, v, ctl[c]) ELSE ctl[c]
      /\ \A d \in Cards \ {c} : ctl'[d] = ctl[d]
  <2> HIDE DEF Ctl
  <2> QED
    BY <1>4 DEF Command, SessionTypeInv, Ctl
<1>6. \A d \in Cards : /\ ctl[d].reset => ctl'[d].reset
                       /\ ctl'[d].open = ctl[d].open
  BY <1>4, <1>5
<1>7. /\ outbox' = [d \in Cards |-> outbox'[d]]
      /\ outbox'[c] = o.box
      /\ \A d \in Cards \ {c} : outbox'[d] = outbox[d]
  BY DEF Command, SessionTypeInv
<1>8. WellFormed(o.box) /\ (o.got.ok /\ o.got.cmd = "GETTYPES" => o.got.v = SupportedTypes)
  BY CommandQueue DEF AllWellFormed
<1>9. AllWellFormed'
  BY <1>7, <1>8 DEF AllWellFormed, WellFormed, Plain
<1>10. faults' = faults + o.cost /\ faults' \in 0..MaxFaults
  <2>1. o.cost \in {0, 1, 2} /\ faults \in Nat
    BY OutcomeCost, <1>1 DEF SessionTypeInv
  <2>2. faults + o.cost <= MaxFaults /\ faults' = faults + o.cost
    BY DEF Command
  <2> QED
    BY <1>1, <2>1, <2>2
<1>11. misread' = (misread \/ o.stale) /\ misread' \in BOOLEAN
  BY DEF Command
<1> QED
  BY <1>3, <1>5, <1>6, <1>7, <1>8, <1>9, <1>10, <1>11

(* The instance IDs and the unread packets of the card at work.            *)
LEMMA InitCommandAges ==
  ASSUME SessionInv, where = "init", NEW v, NEW ok, NEW c \in Cards, c = card,
         cmdNo = 6 => v = SupportedTypes, cmdNo = 4 => v \in 0..RetryCount,
         NEW cmd, cmd = initCommands(types)[cmdNo],
         NEW o \in Outcomes(c, cmd, TRUE, v), ok = o.got.ok, Command(c, cmd, v, o, ok)
  PROVE  /\ cmdNo <= 5 => NoPldm(outbox'[c])
         /\ cmdNo <= 5 => Len(outbox'[c]) <= Len(outbox[c]) + 1
         /\ Len(outbox'[c]) \in Nat /\ Len(outbox[c]) \in Nat
         /\ cmdNo <= 5 /\ ok => Len(outbox'[c]) <= Len(outbox[c])
         /\ ok => Len(outbox'[c]) <= RetryCount /\ Aged(outbox'[c], InstanceId(c)')
<1>1. card \in Cards /\ types \in {<<>>, SupportedTypes} /\ cmdNo \in 1..Len(initCommands(types))
      /\ IsSequence(outbox[c])
  BY DEF SessionInv, SessionTypeInv, OutboxInv
<1>2. /\ cmd \in MctpCommands <=> cmdNo <= 5
      /\ cmd = "SET_ENDPOINT_ID" <=> cmdNo = 4
      /\ cmd = "GETTYPES" <=> cmdNo = 6
      /\ cmd # "MULTIPART_RECEIVE"
  BY <1>1, CommandsInTurn
<1>3. /\ outbox'[c] = o.box /\ ids'[c] = NextId(c, cmd, ok) /\ AllWellFormed'
      /\ ids' \in [Cards -> 1..IdMax]
  <2>1. /\ SessionTypeInv /\ AllWellFormed /\ cmd # "MULTIPART_RECEIVE"
        /\ cmd = "GETTYPES" => v = SupportedTypes
        /\ cmd = "SET_ENDPOINT_ID" => v \in 0..RetryCount
        /\ o \in Outcomes(c, cmd, TRUE, v) /\ Command(c, cmd, v, o, ok)
    BY <1>2, WellFormedBefore DEF SessionInv, BeforeTransfer
  <2> QED
    <3>1. PICK can \in BOOLEAN : can = TRUE
      OBVIOUS
    <3>2. o \in Outcomes(c, cmd, can, v)
      BY <2>1, <3>1
    <3> QED
      BY <2>1, <3>2, CommandFrame
<1>4. Len(outbox[c]) \in Nat /\ Len(outbox'[c]) \in Nat
  BY <1>1, <1>3, LenOfSequence DEF AllWellFormed, WellFormed
<1>5. InstanceId(c) \in 1..(IdMax - 1) /\ Len(outbox[c]) <= RetryCount
      /\ Aged(outbox[c], InstanceId(c))
  BY <1>1, IdInRange
  DEF SessionInv, SessionTypeInv, AgeInv, Initialised, InstanceIdsInRange
<1>6. CASE cmdNo <= 5
  <2>1. NoPldm(outbox[c])
    BY <1>6 DEF SessionInv, AgeInv
  <2>2. /\ NoPldm(o.box) /\ Len(o.box) <= Len(outbox[c]) + 1 /\ Len(o.box) \in Nat
        /\ ok => Len(o.box) <= Len(outbox[c])
    BY <1>1, <1>2, <1>6, <2>1, MctpQueue
  <2>3. Aged(outbox'[c], InstanceId(c)')
    BY <1>3, <2>2 DEF Aged, NoPldm
  <2>4. NoPldm(outbox'[c]) /\ Len(outbox'[c]) = Len(o.box)
    BY <1>3, <2>2
  <2> QED
    <3>1. Len(outbox'[c]) <= Len(outbox[c]) + 1
          /\ (ok => Len(outbox'[c]) <= Len(outbox[c]))
      BY <2>2, <2>4
    <3>2. ok => Len(outbox'[c]) <= RetryCount
      BY <1>4, <1>5, <3>1, AmcSessionAssumption
    <3> QED
      BY <1>4, <2>3, <2>4, <3>1, <3>2
<1>7. CASE ~(cmdNo <= 5)
  <2>1. cmd \notin MctpCommands /\ cmdNo \in Nat
    BY <1>1, <1>2, <1>7, CommandsInTurn
  <2>2. ASSUME ok PROVE Len(outbox'[c]) <= RetryCount /\ Aged(outbox'[c], InstanceId(c)')
    <3>1. Aged(o.box, After(InstanceId(c))) /\ Len(o.box) <= RetryCount
      BY <1>1, <1>5, <2>1, <2>2, PldmQueue
    <3>2. ids'[c] = InstanceId(c) + 1
      BY <1>3, <2>1, <2>2 DEF NextId
    <3>3. InstanceId(c)' = IF ids'[c] = IdMax THEN 1 ELSE ids'[c]
      BY DEF InstanceId
    <3> QED
      BY <1>3, <3>1, <3>2, <3>3 DEF After
  <2> QED
    BY <1>4, <1>7, <2>2
<1> QED
  BY <1>6, <1>7

(* Steps of the main thread but for those of gpuReset().                   *)
LEMMA WorkersKept ==
  ASSUME SessionInv, UNCHANGED worker, \A d \in Cards : ctl[d].reset => ctl'[d].reset,
         where # "joining", where' # "joining", operation'.op # "reset"
  PROVE  WorkerInv'
<1>1. \A d \in Cards : worker[d] # "running"
  BY DEF SessionInv, WorkerInv
<1>2. \A d \in Cards : worker'[d] # "running" /\ (worker'[d] = "success" => ctl'[d].reset)
  BY <1>1 DEF SessionInv, WorkerInv
<1> QED
  BY <1>2 DEF WorkerInv, ResetIsReal

LEMMA InitCommandKeepsInv == SessionInv /\ InitCommand => SessionInv'
<1> SUFFICES ASSUME SessionInv, InitCommand PROVE SessionInv'
  OBVIOUS
<1>1. PICK c \in Cards, cmd \in {initCommands(types)[cmdNo]},
             v \in {InitValue(initCommands(types)[cmdNo])} :
        c = card /\ cmd = initCommands(types)[cmdNo] /\ v = InitValue(cmd)
  BY DEF SessionInv, SessionTypeInv
<1>2. PICK o \in Outcomes(c, cmd, TRUE, v) :
        /\ Command(c, cmd, v, o, o.got.ok)
        /\ \/ o.got.ok /\ InitCommandOk(cmd, o.got)
           \/ ~o.got.ok /\ InitCommandFailed(cmd)
  BY <1>1 DEF InitCommand
<1>3. where = "init" /\ UNCHANGED <<operation, worker>>
  BY DEF InitCommand, client
<1>4. /\ types \in {<<>>, SupportedTypes} /\ cmdNo \in 1..Len(initCommands(types))
      /\ cmdNo \in Nat /\ Len(initCommands(types)) >= 8
      /\ Len(initCommands(types)) \in Nat
      /\ attempt \in 0..(RetryCount - 1) /\ RetryCount \in Nat \ {0}
  <2>1. types \in {<<>>, SupportedTypes} /\ cmdNo \in 1..Len(initCommands(types))
        /\ attempt \in 0..(RetryCount - 1)
    BY DEF SessionInv, SessionTypeInv
  <2>2. Len(initCommands(types)) >= 8 /\ Len(initCommands(types)) \in Nat
    BY <2>1, CommandsInTurn
  <2> QED
    BY <2>1, <2>2, AmcSessionAssumption
<1>5. /\ cmd \in MctpCommands <=> cmdNo <= 5
      /\ cmd = "SET_ENDPOINT_ID" <=> cmdNo = 4
      /\ cmd = "GETTYPES" <=> cmdNo = 6
      /\ cmd # "MULTIPART_RECEIVE"
  BY <1>1, <1>4, CommandsInTurn
<1>6. /\ cmdNo = 6 => v = SupportedTypes
      /\ cmdNo = 4 => v \in 0..RetryCount
  BY <1>1, <1>4, <1>5 DEF InitValue, NewEid
<1>7. PICK ok : ok = o.got.ok
  OBVIOUS
<1>8. /\ cmdNo <= 5 => NoPldm(outbox'[c])
      /\ cmdNo <= 5 => Len(outbox'[c]) <= Len(outbox[c]) + 1
      /\ Len(outbox'[c]) \in Nat /\ Len(outbox[c]) \in Nat
      /\ cmdNo <= 5 /\ ok => Len(outbox'[c]) <= Len(outbox[c])
      /\ ok => Len(outbox'[c]) <= RetryCount /\ Aged(outbox'[c], InstanceId(c)')
  BY <1>1, <1>2, <1>3, <1>6, <1>7, InitCommandAges
<1>9. PICK can \in BOOLEAN : can = TRUE
  OBVIOUS
<1>10. /\ ids' \in [Cards -> 1..IdMax]
       /\ ids'[c] = NextId(c, cmd, ok)
       /\ ctl' \in [Cards -> [eid : 0..RetryCount, open : BOOLEAN, reset : BOOLEAN]]
       /\ \A d \in Cards : ctl[d].reset => ctl'[d].reset
       /\ outbox' = [d \in Cards |-> outbox'[d]]
       /\ \A d \in Cards \ {c} :
            outbox'[d] = outbox[d] /\ ids'[d] = ids[d] /\ ctl'[d] = ctl[d]
       /\ AllWellFormed'
       /\ faults' \in 0..MaxFaults /\ misread' \in BOOLEAN
       /\ o.got.ok /\ o.got.cmd = "GETTYPES" => o.got.v = SupportedTypes
  <2>1. /\ SessionTypeInv /\ AllWellFormed /\ cmd # "MULTIPART_RECEIVE"
        /\ cmd = "GETTYPES" => v = SupportedTypes
        /\ cmd = "SET_ENDPOINT_ID" => v \in 0..RetryCount
        /\ o \in Outcomes(c, cmd, can, v) /\ Command(c, cmd, v, o, ok)
    BY <1>2, <1>3, <1>5, <1>6, <1>7, <1>9, WellFormedBefore DEF SessionInv, BeforeTransfer
  <2>2. /\ ids' \in [Cards -> 1..IdMax] /\ ids'[c] = NextId(c, cmd, ok)
        /\ ctl' \in [Cards -> [eid : 0..RetryCount, open : BOOLEAN, reset : BOOLEAN]]
        /\ \A d \in Cards : ctl[d].reset => ctl'[d].reset
    BY <2>1, CommandFrame
  <2>3. /\ outbox' = [d \in Cards |-> outbox'[d]]
        /\ \A d \in Cards \ {c} :
             outbox'[d] = outbox[d] /\ ids'[d] = ids[d] /\ ctl'[d] = ctl[d]
    BY <2>1, CommandFrame
  <2>4. AllWellFormed' /\ faults' \in 0..MaxFaults
    BY <2>1, CommandFrame
  <2>5. misread' \in BOOLEAN
    BY <2>1 DEF Command
  <2>6. o.got.ok /\ o.got.cmd = "GETTYPES" => o.got.v = SupportedTypes
    BY <2>1, CommandQueue DEF AllWellFormed
  <2> QED
    BY <2>2, <2>3, <2>4, <2>5, <2>6
<1>11. operation.op = "none" /\ WorkerInv'
  <2>1. operation.op = "none"
    BY <1>3 DEF SessionInv, WhereInv
  <2>2. where' # "joining"
    BY <1>2, <1>3 DEF InitCommandOk, InitCommandFailed, Exit
  <2> QED
    BY <2>1, <2>2, <1>3, <1>10, WorkersKept
<1>16. OutboxInv'
  BY <1>10 DEF OutboxInv, AllWellFormed, WellFormed
<1>12. \A d \in Cards : worker'[d] # "running"
  BY <1>3 DEF SessionInv, WorkerInv
<1>13. ASSUME NEW d \in Cards \ {c}
       PROVE  Len(outbox'[d]) <= RetryCount /\ Aged(outbox'[d], InstanceId(d)')
  <2>1. outbox'[d] = outbox[d] /\ InstanceId(d)' = InstanceId(d)
    BY <1>10 DEF InstanceId
  <2> QED
    BY <2>1, <1>3 DEF SessionInv, AgeInv, Initialised
<1>14. CASE o.got.ok /\ InitCommandOk(cmd, o.got)
  <2>1. ok /\ attempt' = 0
    BY <1>7, <1>14 DEF InitCommandOk
  <2>2. types' \in {<<>>, SupportedTypes} /\ (cmdNo # 6 => types' = types)
    <3>1. \/ cmd = "GETTYPES" /\ types' \in Fields(o.got, cmd, {<<>>, SupportedTypes})
          \/ cmd # "GETTYPES" /\ UNCHANGED types
      BY <1>14 DEF InitCommandOk, InitResponse
    <3> QED
      BY <3>1, <1>4, <1>5, <1>10, <1>14 DEF Fields
  <2>3. destEid' = [d \in Cards |-> destEid'[d]]
    BY <1>14 DEF InitCommandOk, InitResponse, SessionInv, SessionTypeInv
  <2>4. Len(initCommands(types')) \in Nat /\ Len(initCommands(types')) >= 8
    BY <2>2, CommandsInTurn
  <2>5. \A d \in Cards : Len(outbox'[d]) <= RetryCount /\ Aged(outbox'[d], InstanceId(d)')
    BY <1>8, <1>13, <2>1
  <2>6. cmdNo <= 3 => Len(outbox'[c]) <= 1
    <3>1. cmdNo <= 3 => attempt = 0 /\ Len(outbox[c]) <= 1 + attempt
      BY <1>1, <1>3, <1>4 DEF SessionInv, AgeInv
    <3> QED
      BY <3>1, <1>8, <2>1, <1>4
  <2>7. ASSUME NEW d \in Cards, d > c PROVE NoPldm(outbox'[d]) /\ Len(outbox'[d]) <= 1
    <3>1. d # c
      BY <2>7 DEF Cards
    <3> QED
      BY <3>1, <2>7, <1>1, <1>3, <1>10 DEF SessionInv, AgeInv
  <2>8. CASE /\ cmdNo < Len(initCommands(types'))
             /\ cmdNo' = FollowingNo(destEid'[card])
             /\ UNCHANGED <<where, card, exitCode>>
    <3>1. cmdNo' \in {cmdNo + 1, 5} /\ (cmdNo' = 5 => cmdNo \in {3, 4})
          /\ cmdNo' \in 1..Len(initCommands(types'))
      BY <2>8, <2>4, <1>4 DEF FollowingNo
    <3>2. SessionTypeInv'
      <4>1. worker' \in [Cards -> {"none", "running", "success", "failure"}]
          /\ card' \in Cards /\ attempt' \in 0..(RetryCount - 1)
        BY <1>3, <1>4, <2>1, <2>8 DEF SessionInv, SessionTypeInv
      <4>2. cmdNo' \in 1..Len(initCommands(types'))
        BY <3>1
      <4> QED
        BY <4>1, <4>2, <2>2, <2>3, <1>10 DEF SessionTypeInv
    <3>3. WhereInv'
      BY <1>3, <1>11, <2>8 DEF SessionInv, WhereInv
    <3>4. AgeInv'
      <4>1. cmdNo' <= 5 => cmdNo <= 5
        BY <3>1, <1>4
      <4>2. cmdNo' <= 4 => cmdNo <= 3
        BY <3>1, <1>4
      <4>3. c = card'
        BY <1>1, <2>8
      <4> QED
        BY <1>8, <2>1, <2>5, <2>6, <2>7, <4>1, <4>2, <4>3 DEF AgeInv
    <3> QED
      BY <3>2, <3>3, <3>4, <1>11, <1>16 DEF SessionInv
  <2>9. CASE /\ cmdNo = Len(initCommands(types')) /\ cmdNo' = 1 /\ UNCHANGED exitCode
             /\ \/ card < NumCards - 1 /\ card' = card + 1 /\ UNCHANGED where
                \/ card = NumCards - 1 /\ where' = "dispatch" /\ UNCHANGED card
    <3>1. card' \in Cards /\ (where' = "init" => card' = c + 1) /\ c \in Nat
      BY <1>1, <1>3, <2>9, AmcSessionAssumption DEF Cards
    <3>2. SessionTypeInv'
      <4>1. worker' \in [Cards -> {"none", "running", "success", "failure"}]
          /\ card' \in Cards /\ attempt' \in 0..(RetryCount - 1)
        BY <1>3, <1>4, <2>1, <3>1 DEF SessionInv, SessionTypeInv
      <4>2. cmdNo' \in 1..Len(initCommands(types'))
        BY <2>4, <2>9
      <4> QED
        BY <4>1, <4>2, <2>2, <2>3, <1>10 DEF SessionTypeInv
    <3>3. WhereInv'
      BY <1>3, <1>11, <2>9 DEF SessionInv, WhereInv
    <3>4. AgeInv'
      <4>1. where' = "init" => NoPldm(outbox'[card']) /\ Len(outbox'[card']) <= 1
        BY <2>7, <3>1
      <4>2. ASSUME where' = "init", NEW d \in Cards, d > card' PROVE d > c
        BY <4>2, <3>1 DEF Cards
      <4> QED
        BY <2>1, <2>5, <2>7, <2>9, <4>1, <4>2 DEF AgeInv
    <3> QED
      BY <3>2, <3>3, <3>4, <1>11, <1>16 DEF SessionInv
  <2> QED
    BY <1>14, <2>8, <2>9 DEF InitCommandOk
<1>15. CASE ~o.got.ok /\ InitCommandFailed(cmd)
  <2>1. UNCHANGED <<card, cmdNo, types, destEid>>
    BY <1>15 DEF InitCommandFailed
  <2>2. CASE cmd = "SET_ENDPOINT_ID" /\ attempt < RetryCount - 1 /\ attempt' = attempt + 1
             /\ UNCHANGED <<where, exitCode>>
    <3>1. SessionTypeInv'
      <4>1. worker' \in [Cards -> {"none", "running", "success", "failure"}]
          /\ card' \in Cards /\ attempt' \in 0..(RetryCount - 1)
        BY <1>3, <1>4, <2>1, <2>2 DEF SessionInv, SessionTypeInv
      <4>2. types' \in {<<>>, SupportedTypes} /\ destEid' = [d \in Cards |-> destEid'[d]]
            /\ cmdNo' \in 1..Len(initCommands(types'))
        BY <2>1 DEF SessionInv, SessionTypeInv
      <4> QED
        BY <4>1, <4>2, <1>10 DEF SessionTypeInv
    <3>2. WhereInv'
      BY <1>3, <1>11, <2>2 DEF SessionInv, WhereInv
    <3>3. cmdNo = 4 /\ NoPldm(outbox'[c]) /\ Len(outbox'[c]) <= 1 + attempt'
          /\ Len(outbox'[c]) <= RetryCount
      <4>1. cmdNo = 4 /\ Len(outbox[c]) <= 1 + attempt
        BY <1>1, <1>3, <1>5, <2>2 DEF SessionInv, AgeInv
      <4> QED
        BY <4>1, <1>4, <1>8, <2>2
    <3>4. Aged(outbox'[c], InstanceId(c)')
      BY <3>3 DEF Aged, NoPldm
    <3>5. ASSUME NEW d \in Cards, d > c PROVE NoPldm(outbox'[d]) /\ Len(outbox'[d]) <= 1
      <4>1. d # c
        BY <3>5 DEF Cards
      <4> QED
        BY <4>1, <3>5, <1>1, <1>3, <1>10 DEF SessionInv, AgeInv
    <3>6. AgeInv'
      BY <1>1, <1>13, <2>1, <3>3, <3>4, <3>5 DEF AgeInv
    <3> QED
      BY <3>1, <3>2, <3>6, <1>11, <1>16 DEF SessionInv
  <2>3. CASE Exit("error") /\ UNCHANGED attempt
    <3>1. SessionTypeInv'
      BY <1>3, <1>4, <1>10, <2>1, <2>3 DEF SessionInv, SessionTypeInv
    <3>2. WhereInv'
      BY <1>3, <1>11, <2>3 DEF SessionInv, WhereInv, Exit
    <3>3. AgeInv'
      BY <1>12, <2>3 DEF AgeInv, Initialised, Exit
    <3> QED
      BY <3>1, <3>2, <3>3, <1>11, <1>16 DEF SessionInv
  <2> QED
    BY <1>15, <2>2, <2>3 DEF InitCommandFailed
<1> QED
  BY <1>2, <1>14, <1>15

-----------------------------------------------------------------------------
(* The operations *)

LEMMA SessionInitInv == AmcInit => SessionInv
<1> SUFFICES ASSUME SessionInit PROVE SessionInv
  BY DEF AmcInit
<1>1. PICK eid \in {0, 1} :
        ctl = [c \in Cards |-> [eid |-> eid, open |-> FALSE, reset |-> FALSE]]
  BY DEF SessionInit
<1> DEFINE response == Single([NoHdr EXCEPT !.ok = TRUE])
<1>2. PICK left \in SUBSET Cards :
        outbox = [c \in Cards |-> IF c \in left THEN <<response>> ELSE <<>>]
  BY DEF SessionInit
<1>3. Plain(response) /\ response.hdr.id = 0
  BY DEF Plain, Single, NoHdr
<1> HIDE DEF response
<1>4. /\ IsSequence(<<response>>) /\ Len(<<response>>) = 1 /\ <<response>>[1] = response
      /\ IsSequence(<<>>) /\ Len(<<>>) = 0
  BY EmptySequence DEF IsSequence
<1>5. \A c \in Cards : WellFormed(outbox[c]) /\ Len(outbox[c]) <= 1 /\ NoPldm(outbox[c])
  BY <1>2, <1>3, <1>4 DEF WellFormed, NoPldm
<1>6. 1 <= RetryCount /\ NumCards \in Nat \ {0} /\ RetryCount \in Nat /\ MaxFaults \in Nat
      /\ IdMax \in Nat /\ IdMax > 1
  BY AmcSessionAssumption
<1>7. SessionTypeInv
  <2>1. card \in Cards /\ attempt \in 0..(RetryCount - 1)
    BY <1>6 DEF SessionInit, Cards
  <2>2. ctl \in [Cards -> [eid : 0..RetryCount, open : BOOLEAN, reset : BOOLEAN]]
    BY <1>1, <1>6
  <2>3. ids \in [Cards -> 1..IdMax] /\ faults \in 0..MaxFaults
    BY <1>6 DEF SessionInit
  <2>7. misread \in BOOLEAN
    BY DEF SessionInit
  <2>4. worker \in [Cards -> {"none", "running", "success", "failure"}]
        /\ destEid = [c \in Cards |-> destEid[c]]
    BY DEF SessionInit
  <2>5. outbox = [c \in Cards |-> outbox[c]]
    BY <1>2
  <2>6. types \in {<<>>, SupportedTypes} /\ cmdNo \in 1..Len(initCommands(types))
    BY CommandsInTurn DEF SessionInit
  <2> QED
    BY <2>1, <2>2, <2>3, <2>4, <2>5, <2>6, <2>7 DEF SessionTypeInv
<1>8. OutboxInv
  BY <1>5 DEF OutboxInv, WellFormed
<1>9. WhereInv /\ WorkerInv
  BY DEF SessionInit, WhereInv, WorkerInv, ResetIsReal
<1>10. AgeInv
  <2>1. \A c \in Cards : Len(outbox[c]) <= RetryCount /\ Aged(outbox[c], InstanceId(c))
    <3>1. \A c \in Cards : Len(outbox[c]) \in Nat
      BY <1>5, LenOfSequence DEF WellFormed
    <3> QED
      BY <1>5, <1>6, <3>1 DEF Aged, NoPldm
  <2>2. card \in Cards /\ cmdNo = 1 /\ attempt = 0
    BY <1>6 DEF SessionInit, Cards
  <2> QED
    BY <1>5, <2>1, <2>2 DEF AgeInv
<1> QED
  BY <1>7, <1>8, <1>9, <1>10 DEF SessionInv

(* Steps after the operation was chosen and of no thread of gpuReset().    *)
LEMMA OperationKeepsInv ==
  ASSUME SessionInv, SessionTypeInv', WhereInv', UNCHANGED worker,
         \A d \in Cards : ctl[d].reset => ctl'[d].reset,
         \A d \in Cards : IsSequence(outbox'[d]), BeforeTransfer' => AllWellFormed',
         where # "joining", operation'.op # "reset",
         where' \notin {"init", "dispatch", "joining"}
  PROVE  SessionInv'
<1>1. WorkerInv'
  BY WorkersKept
<1>2. \A d \in Cards : worker'[d] # "running"
  BY <1>1 DEF WorkerInv
<1>3. AgeInv'
  BY <1>2 DEF AgeInv, Initialised
<1>4. OutboxInv'
  BY DEF OutboxInv, AllWellFormed
<1> QED
  BY <1>1, <1>3, <1>4 DEF SessionInv

(* A command of an operation: its response and where it leads.             *)
LEMMA CommandKeepsInv ==
  ASSUME SessionInv, BeforeTransfer, NEW c \in Cards, NEW cmd, cmd # "MULTIPART_RECEIVE",
         cmd \notin {"GETTYPES", "SET_ENDPOINT_ID"}, NEW can \in BOOLEAN, NEW v, NEW v2,
         NEW o \in Outcomes(c, cmd, can, v), NEW ok, Command(c, cmd, v2, o, ok),
         UNCHANGED <<operation, worker, card, cmdNo, attempt, types, destEid>>,
         WhereInv', where \notin {"init", "joining"}, operation.op # "reset",
         where' \notin {"init", "dispatch", "joining"}
  PROVE  SessionInv'
<1>1. SessionTypeInv /\ AllWellFormed
  BY WellFormedBefore DEF SessionInv
<1>2. Command(c, cmd, v, o, ok)
  BY DEF Command, Executed
<1>3. /\ ids' \in [Cards -> 1..IdMax]
      /\ ctl' \in [Cards -> [eid : 0..RetryCount, open : BOOLEAN, reset : BOOLEAN]]
      /\ \A d \in Cards : ctl[d].reset => ctl'[d].reset
      /\ outbox' = [d \in Cards |-> outbox'[d]]
  BY <1>1, <1>2, CommandFrame
<1>4. AllWellFormed' /\ faults' \in 0..MaxFaults /\ misread' \in BOOLEAN
  BY <1>1, <1>2, CommandFrame
<1>5. SessionTypeInv'
  BY <1>1, <1>3, <1>4 DEF SessionTypeInv
<1>6. \A d \in Cards : IsSequence(outbox'[d])
  BY <1>4 DEF AllWellFormed, WellFormed
<1> QED
  BY <1>3, <1>4, <1>5, <1>6, OperationKeepsInv

(* Commands whose responses are whole: the operations but for the file     *)
(* transfer.                                                               *)
OneResponse ==
  GetRepositoryInfo \/ GetPdr \/ GetSensorReading \/ GetFruMetadata \/ GetFruTable

LEMMA OneResponseKeepsInv == SessionInv /\ OneResponse => SessionInv'
<1> SUFFICES ASSUME SessionInv, OneResponse PROVE SessionInv'
  OBVIOUS
<1>1. WhereInv /\ card \in Cards
  BY DEF SessionInv, SessionTypeInv
<1>2. CASE GetRepositoryInfo
  <2>1. PICK o \in Outcomes(card, "GET_PDR_REPOSITORY_INFO", TRUE, Len(Repository)),
             n \in 0..Len(Repository) :
          /\ Command(card, "GET_PDR_REPOSITORY_INFO", 0, o, n > 0)
          /\ \/ where' = "pdr" /\ UNCHANGED exitCode
             \/ Exit("error")
    BY <1>2 DEF GetRepositoryInfo
  <2>2. where = "repository"
        /\ UNCHANGED <<operation, worker, card, cmdNo, attempt, types, destEid>>
    BY <1>2 DEF GetRepositoryInfo, session
  <2>3. operation.op \in {"sensor", "file"} /\ WhereInv'
        /\ where' \notin {"init", "dispatch", "joining"}
    BY <1>1, <2>1, <2>2 DEF WhereInv, Exit
  <2>4. PICK c, can, ok :
          /\ c \in Cards /\ can \in BOOLEAN
          /\ c = card /\ can = TRUE /\ ok = (n > 0)
    BY <1>1
  <2> QED
    BY <2>1, <2>2, <2>3, <2>4, CommandKeepsInv DEF BeforeTransfer
<1>3. CASE GetPdr
  <2>1. PICK o \in Outcomes(card, "GET_PDR", PdrExists(Asked), PdrValue(Asked)) :
          /\ Command(card, "GET_PDR", 0, o, o.got.ok)
          /\ \/ \E p : AfterPdrs(p)
             \/ Exit("error")
    BY <1>3 DEF GetPdr
  <2>2. where = "pdr"
        /\ UNCHANGED <<operation, worker, card, cmdNo, attempt, types, destEid>>
    BY <1>3 DEF GetPdr
  <2>3. \/ UNCHANGED <<where, exitCode>>
        \/ Exit("error")
        \/ where' = (IF operation.op = "file" THEN "send" ELSE "sensor") /\ UNCHANGED exitCode
    BY <2>1 DEF AfterPdrs
  <2>4. operation.op \in {"sensor", "file"} /\ WhereInv'
        /\ where' \notin {"init", "dispatch", "joining"}
    BY <1>1, <2>3, <2>2 DEF WhereInv, Exit
  <2>5. PICK c, can, ok :
          /\ c \in Cards /\ can \in BOOLEAN
          /\ c = card /\ can = PdrExists(Asked) /\ ok = o.got.ok
    BY <1>1 DEF PdrExists
  <2> QED
    BY <2>1, <2>2, <2>4, <2>5, CommandKeepsInv DEF BeforeTransfer
<1>4. CASE GetSensorReading
  <2>1. PICK o \in Outcomes(card, "GET_SENSOR_READING", TRUE, operation.item) :
          /\ Command(card, "GET_SENSOR_READING", 0, o, o.got.ok)
          /\ Exit("success") \/ Exit("error")
    BY <1>4 DEF GetSensorReading
  <2>2. where = "sensor"
        /\ UNCHANGED <<operation, worker, card, cmdNo, attempt, types, destEid>>
    BY <1>4 DEF GetSensorReading, session
  <2>3. operation.op = "sensor" /\ WhereInv' /\ where' \notin {"init", "dispatch", "joining"}
    BY <1>1, <2>1, <2>2 DEF WhereInv, Exit
  <2>4. PICK c, can, ok :
          /\ c \in Cards /\ can \in BOOLEAN
          /\ c = card /\ can = TRUE /\ ok = o.got.ok
    BY <1>1
  <2> QED
    BY <2>1, <2>2, <2>3, <2>4, CommandKeepsInv DEF BeforeTransfer
<1>5. CASE GetFruMetadata
  <2>1. PICK o \in Outcomes(card, "GET_FRU_RECORD_TABLE_METADATA", TRUE, FruParts) :
          /\ Command(card, "GET_FRU_RECORD_TABLE_METADATA", 0, o, o.got.ok)
          /\ \/ where' = "fru table" /\ UNCHANGED exitCode
             \/ Exit("error")
    BY <1>5 DEF GetFruMetadata
  <2>2. where = "fru metadata"
        /\ UNCHANGED <<operation, worker, card, cmdNo, attempt, types, destEid>>
    BY <1>5 DEF GetFruMetadata
  <2>3. operation.op = "card info" /\ WhereInv' /\ where' \notin {"init", "dispatch", "joining"}
    BY <1>1, <2>1, <2>2 DEF WhereInv, Exit
  <2>4. PICK c, can, ok :
          /\ c \in Cards /\ can \in BOOLEAN
          /\ c = card /\ can = TRUE /\ ok = o.got.ok
    BY <1>1
  <2> QED
    BY <2>1, <2>2, <2>3, <2>4, CommandKeepsInv DEF BeforeTransfer
<1>6. CASE GetFruTable
  <2>1. PICK v, o :
          /\ o \in Outcomes(card, "GET_FRU_RECORD_TABLE", fru.handle \in 1..FruParts, v)
          /\ Command(card, "GET_FRU_RECORD_TABLE", 0, o, o.got.ok)
          /\ UNCHANGED <<where, exitCode>> \/ Exit("success") \/ Exit("error")
    BY <1>6 DEF GetFruTable
  <2>2. where = "fru table"
        /\ UNCHANGED <<operation, worker, card, cmdNo, attempt, types, destEid>>
    BY <1>6 DEF GetFruTable
  <2>3. operation.op = "card info" /\ WhereInv' /\ where' \notin {"init", "dispatch", "joining"}
    BY <1>1, <2>1, <2>2 DEF WhereInv, Exit
  <2>4. PICK c, can, ok :
          /\ c \in Cards /\ can \in BOOLEAN
          /\ c = card /\ can = (fru.handle \in 1..FruParts) /\ ok = o.got.ok
    <3>1. CASE fru.handle \in 1..FruParts
      BY <1>1, <3>1
    <3>2. CASE fru.handle \notin 1..FruParts
      <4>1. (fru.handle \in 1..FruParts) = FALSE
        BY <3>2
      <4> QED
        BY <1>1, <4>1
    <3> QED
      BY <3>1, <3>2
  <2> QED
    BY <2>1, <2>2, <2>3, <2>4, CommandKeepsInv DEF BeforeTransfer
<1> QED
  BY <1>2, <1>3, <1>4, <1>5, <1>6 DEF OneResponse

-----------------------------------------------------------------------------
(* gpuReset() *)

(* A response that is accepted is the one to the request: those left over  *)
(* have other instance IDs.                                                *)
LEMMA AcceptedIsOwn ==
  ASSUME NEW c, IsSequence(outbox[c]), Len(outbox[c]) <= RetryCount,
         InstanceId(c) \in 1..(IdMax - 1), Aged(outbox[c], InstanceId(c)),
         NEW cmd, cmd \notin MctpCommands, NEW v, NEW o \in Outcomes(c, cmd, TRUE, v),
         ResetAccepted(c, o.got)
  PROVE  o.done
<1>1. ReadsOldest(c, cmd, TRUE, v, o)
  BY OnlyAReadSucceeds DEF ResetAccepted
<1>2. PICK ok \in BOOLEAN, old \in {outbox[c], <<>>} :
        o = ReadOf(old, Response(c, cmd, ok, v), IF ok THEN 0 ELSE 1)
  BY <1>1 DEF ReadsOldest
<1> DEFINE m == Response(c, cmd, ok, v)
<1>3. o.got = Head(Append(old, m)).hdr /\ o.done = m.hdr.ok
  BY <1>2 DEF ReadOf
<1> HIDE DEF m
<1>4. CASE old = <<>>
  <2>1. Head(Append(old, m)) = m
    BY <1>4, RotatedQueue
  <2> QED
    BY <1>3, <2>1 DEF ResetAccepted
<1>5. CASE old # <<>>
  <2>1. old = outbox[c] /\ Head(Append(old, m)) = old[1] /\ Len(old) > 0
        /\ Len(old) \in Nat
    BY <1>5, RotatedQueue
  <2>2. old[1].hdr.id = 0 \/ old[1].hdr.id = Before(InstanceId(c), Len(old) + 1 - 1)
    BY <2>1 DEF Aged
  <2>3. Len(old) + 1 - 1 \in 1..RetryCount
    BY <2>1, AmcSessionAssumption
  <2>4. Before(InstanceId(c), Len(old) + 1 - 1) # InstanceId(c)
    BY <2>3, BeforeAfter
  <2> QED
    BY <1>3, <2>1, <2>2, <2>4 DEF ResetAccepted
<1> QED
  BY <1>4, <1>5

LEMMA ResetWorkerKeepsInv ==
  ASSUME SessionInv, NEW c \in Cards, ResetWorker(c)
  PROVE  SessionInv'
<1> DEFINE cmd == "SET_STATE_EFFECTER_STATES"
<1>14. PICK o \in Outcomes(c, cmd, TRUE, 0) :
         /\ Command(c, cmd, 0, o, ResetAccepted(c, o.got))
         /\ worker' = [worker EXCEPT ![c] = IF ResetAccepted(c, o.got) THEN "success"
                                                                      ELSE "failure"]
  BY DEF ResetWorker
<1>15. PICK ok : ok = ResetAccepted(c, o.got)
  OBVIOUS
<1>1. /\ Command(c, cmd, 0, o, ok)
      /\ worker' = [worker EXCEPT ![c] = IF ok THEN "success" ELSE "failure"]
      /\ ok => ResetAccepted(c, o.got)
  BY <1>14, <1>15 DEF ResetAccepted
<1>2. /\ UNCHANGED <<operation, where, card, cmdNo, attempt, types, destEid, exitCode>>
      /\ worker[c] = "running" /\ where = "joining" /\ operation.op = "reset"
      /\ exitCode = "none"
  BY DEF ResetWorker, SessionInv, WorkerInv, WhereInv
<1>3. SessionTypeInv /\ AllWellFormed
  BY <1>2, WellFormedBefore DEF SessionInv, BeforeTransfer
<1>4. PICK can \in BOOLEAN, u \in {cmd} : can = TRUE /\ u = cmd
  OBVIOUS
<1>13. /\ o \in Outcomes(c, u, can, 0) /\ Command(c, u, 0, o, ok)
       /\ u \notin {"GETTYPES", "SET_ENDPOINT_ID", "MULTIPART_RECEIVE"}
  BY <1>1, <1>4
<1>5. /\ ids' \in [Cards -> 1..IdMax]
      /\ ctl' \in [Cards -> [eid : 0..RetryCount, open : BOOLEAN, reset : BOOLEAN]]
      /\ ctl'[c] = IF o.done THEN Executed(cmd, 0, ctl[c]) ELSE ctl[c]
      /\ \A d \in Cards : ctl[d].reset => ctl'[d].reset
  <2>1. ctl'[c] = IF o.done THEN Executed(u, 0, ctl[c]) ELSE ctl[c]
    BY <1>3, <1>13 DEF Command, SessionTypeInv
  <2>2. /\ ids' \in [Cards -> 1..IdMax]
        /\ ctl' \in [Cards -> [eid : 0..RetryCount, open : BOOLEAN, reset : BOOLEAN]]
        /\ \A d \in Cards : ctl[d].reset => ctl'[d].reset
    BY <1>3, <1>13, CommandFrame
  <2> QED
    BY <1>4, <2>1, <2>2
<1>6. /\ outbox' = [d \in Cards |-> outbox'[d]]
      /\ \A d \in Cards \ {c} :
           outbox'[d] = outbox[d] /\ ids'[d] = ids[d] /\ ctl'[d] = ctl[d]
  BY <1>3, <1>13, CommandFrame
<1>7. AllWellFormed' /\ faults' \in 0..MaxFaults /\ misread' \in BOOLEAN
  BY <1>3, <1>13, CommandFrame
<1>8. worker' \in [Cards -> {"none", "running", "success", "failure"}]
      /\ worker'[c] \in {"success", "failure"}
      /\ \A d \in Cards \ {c} : worker'[d] = worker[d]
  BY <1>1 DEF SessionInv, SessionTypeInv
<1>9. SessionTypeInv'
  BY <1>2, <1>3, <1>5, <1>6, <1>7, <1>8 DEF SessionTypeInv
<1>10. OutboxInv' /\ WhereInv'
  BY <1>2, <1>7 DEF OutboxInv, AllWellFormed, WellFormed, SessionInv, WhereInv
<1>11. WorkerInv'
  <2>1. ASSUME ok PROVE ctl'[c].reset
    <3>1. IsSequence(outbox[c]) /\ InstanceId(c) \in 1..(IdMax - 1)
          /\ Len(outbox[c]) <= RetryCount /\ Aged(outbox[c], InstanceId(c))
      BY <1>2, <1>3, IdInRange
      DEF SessionInv, SessionTypeInv, OutboxInv, AgeInv, Initialised, InstanceIdsInRange
    <3>2. o.done
      BY <1>1, <2>1, <3>1, AcceptedIsOwn DEF MctpCommands
    <3> QED
      BY <1>3, <1>5, <3>2 DEF Executed, SessionTypeInv
  <2>2. worker'[c] = "success" => ok
    BY <1>1, <1>3 DEF SessionTypeInv
  <2>3. \A d \in Cards : worker'[d] = "success" => ctl'[d].reset
    BY <1>5, <1>8, <2>1, <2>2 DEF SessionInv, WorkerInv
  <2>4. \A d \in ResetTargets(operation'.arg) : d \in Cards /\ worker'[d] # "none"
    BY <1>2, <1>8 DEF SessionInv, WorkerInv
  <2> QED
    BY <1>2, <2>3, <2>4 DEF WorkerInv, ResetIsReal
<1>12. AgeInv'
  <2>1. ASSUME NEW d \in Cards, worker'[d] = "running"
        PROVE  Len(outbox'[d]) <= RetryCount /\ Aged(outbox'[d], InstanceId(d)')
    <3>1. d # c /\ worker[d] = "running"
      BY <1>8, <2>1
    <3>2. outbox'[d] = outbox[d] /\ InstanceId(d)' = InstanceId(d)
      BY <1>6, <3>1 DEF InstanceId
    <3> QED
      BY <3>1, <3>2 DEF SessionInv, AgeInv, Initialised
  <2> QED
    BY <1>2, <2>1 DEF AgeInv, Initialised
<1> QED
  BY <1>9, <1>10, <1>11, <1>12 DEF SessionInv

LEMMA JoinWorkersKeepsInv == SessionInv /\ JoinWorkers => SessionInv'
<1> SUFFICES ASSUME SessionInv, JoinWorkers PROVE SessionInv'
  OBVIOUS
<1>1. /\ where = "joining" /\ where' = "ended"
      /\ UNCHANGED <<operation, worker, card, cmdNo, attempt, types, destEid, ctl, outbox,
                     ids, faults, misread>>
      /\ \A c \in Cards : worker[c] # "running"
      /\ exitCode' \in {"success", "error"}
      /\ exitCode' = "success" => \A c \in Cards : worker[c] # "failure"
  BY DEF JoinWorkers, Exit, client, external
<1>2. SessionTypeInv' /\ WhereInv'
  <2>1. SessionTypeInv'
    BY <1>1 DEF SessionInv, SessionTypeInv
  <2> QED
    BY <1>1, <2>1 DEF SessionInv, WhereInv
<1>3. OutboxInv'
  BY <1>1 DEF SessionInv, OutboxInv, BeforeTransfer
<1>4. WorkerInv'
  <2>1. ASSUME exitCode' = "success", NEW c \in ResetTargets(operation.arg)
        PROVE  ctl'[c].reset
    <3>1. c \in Cards /\ worker[c] = "success"
      BY <1>1, <2>1 DEF SessionInv, WorkerInv, SessionTypeInv
    <3> QED
      BY <1>1, <3>1 DEF SessionInv, WorkerInv
  <2> QED
    BY <1>1, <2>1 DEF SessionInv, WorkerInv, ResetIsReal
<1>5. AgeInv'
  BY <1>1 DEF AgeInv, Initialised
<1> QED
  BY <1>2, <1>3, <1>4, <1>5 DEF SessionInv

LEMMA StartResetKeepsInv == SessionInv /\ StartReset => SessionInv'
<1> SUFFICES ASSUME SessionInv, StartReset PROVE SessionInv'
  OBVIOUS
<1>1. PICK arg \in DeviceArgs :
        /\ operation' = [op |-> "reset", arg |-> arg, item |-> 0]
        /\ \/ Exit("cancelled") /\ UNCHANGED worker
           \/ DeviceNumber(arg) >= NumCards /\ Exit("error") /\ UNCHANGED worker
           \/ /\ DeviceNumber(arg) < NumCards
              /\ worker' = [c \in Cards |-> IF c \in ResetTargets(arg) THEN "running"
                                                                       ELSE "none"]
              /\ where' = "joining"
              /\ UNCHANGED exitCode
  BY DEF StartReset
<1>2. /\ where = "dispatch" /\ exitCode = "none"
      /\ UNCHANGED <<card, cmdNo, attempt, types, destEid, ctl, outbox, ids, faults, misread>>
  BY DEF StartReset, external, SessionInv, WhereInv
<1>3. \A c \in Cards : worker[c] # "running"
  BY <1>2 DEF SessionInv, WorkerInv
<1>4. OutboxInv'
  BY <1>2 DEF SessionInv, OutboxInv, BeforeTransfer
<1>5. CASE UNCHANGED worker /\ where' = "ended" /\ exitCode' \in {"cancelled", "error"}
  <2>1. SessionTypeInv' /\ WhereInv'
    <3>1. SessionTypeInv'
      BY <1>2, <1>5 DEF SessionInv, SessionTypeInv
    <3> QED
      BY <1>1, <1>5, <3>1 DEF WhereInv
  <2>2. WorkerInv' /\ AgeInv'
    BY <1>2, <1>3, <1>5 DEF SessionInv, WorkerInv, ResetIsReal, AgeInv, Initialised
  <2> QED
    BY <1>4, <2>1, <2>2 DEF SessionInv
<1>6. CASE /\ DeviceNumber(arg) < NumCards
           /\ worker' = [c \in Cards |-> IF c \in ResetTargets(arg) THEN "running" ELSE "none"]
           /\ where' = "joining" /\ UNCHANGED exitCode
  <2>1. SessionTypeInv' /\ WhereInv'
    <3>1. SessionTypeInv'
      BY <1>2, <1>6 DEF SessionInv, SessionTypeInv
    <3> QED
      BY <1>1, <1>2, <1>6, <3>1 DEF WhereInv
  <2>2. ResetTargets(arg) \subseteq Cards
    <3>1. NumCards \in Nat /\ DeviceNumber(arg) \in Int
      BY <1>1, AmcSessionAssumption DEF DeviceArgs, DeviceNumber
    <3> QED
      BY <1>6, <3>1 DEF ResetTargets, Cards
  <2>3. WorkerInv'
    BY <1>1, <1>2, <1>6, <2>2 DEF WorkerInv, ResetIsReal
  <2>4. AgeInv'
    <3>1. \A d \in Cards : Len(outbox[d]) <= RetryCount /\ Aged(outbox[d], InstanceId(d))
      BY <1>2 DEF SessionInv, AgeInv, Initialised
    <3> QED
      BY <1>2, <1>6, <3>1 DEF AgeInv, InstanceId
  <2> QED
    BY <1>4, <2>1, <2>3, <2>4 DEF SessionInv
<1> QED
  BY <1>1, <1>5, <1>6 DEF Exit

-----------------------------------------------------------------------------
(* The other steps of the session *)

LEMMA DispatchKeepsInv == SessionInv /\ Dispatch => SessionInv'
<1> SUFFICES ASSUME SessionInv, Dispatch PROVE SessionInv'
  OBVIOUS
<1>1. /\ where = "dispatch" /\ exitCode = "none"
      /\ UNCHANGED <<cmdNo, attempt, types, destEid, ctl, outbox, ids, faults, misread, worker>>
  <2>1. UNCHANGED <<cmdNo, attempt, types, destEid, ctl, outbox, ids, faults, misread>>
        /\ where = "dispatch"
    BY DEF Dispatch, external
  <2>2. UNCHANGED worker
    BY DEF Dispatch, StartOperation
  <2> QED
    BY <2>1, <2>2 DEF SessionInv, WhereInv
<1>2. /\ card' \in Cards /\ WhereInv' /\ operation'.op # "reset"
      /\ where' \notin {"init", "dispatch", "joining"}
  <2>1. CASE \E op \in {"sensor", "file"}, arg \in DeviceArgs :
               LET c == getDeviceIndex(arg)
               IN IF c = -1
                  THEN /\ operation' = [op |-> op, arg |-> arg, item |-> 0]
                       /\ Exit("error")
                       /\ UNCHANGED <<worker, card>>
                       /\ UNCHANGED fileSize
                  ELSE \E i \in (IF op = "sensor" THEN SensorIds ELSE FileIds) :
                         /\ StartOperation([op |-> op, arg |-> arg, item |-> i], c,
                                           "repository")
                         /\ fileSize' \in (IF op = "file" THEN FileSizes ELSE {fileSize})
    <3>1. PICK op \in {"sensor", "file"}, arg \in DeviceArgs :
            \/ operation'.op = op /\ Exit("error") /\ UNCHANGED card
            \/ /\ getDeviceIndex(arg) # -1 /\ card' = getDeviceIndex(arg)
               /\ operation'.op = op /\ where' = "repository" /\ UNCHANGED exitCode
      BY <2>1 DEF StartOperation
    <3>2. getDeviceIndex(arg) # -1 => getDeviceIndex(arg) \in Cards
      BY DEF getDeviceIndex
    <3> QED
      BY <1>1, <3>1, <3>2 DEF WhereInv, Exit, SessionInv, SessionTypeInv
  <2>2. CASE \E c \in Cards :
               /\ StartOperation([op |-> "card info", arg |-> <<"bdf", c>>, item |-> 0], c,
                                 "fru metadata")
               /\ UNCHANGED fileSize
    <3>1. card' \in Cards /\ operation'.op = "card info" /\ where' = "fru metadata"
          /\ UNCHANGED exitCode
      <4>1. PICK c \in Cards : StartOperation([op |-> "card info", arg |-> <<"bdf", c>>,
                                               item |-> 0], c, "fru metadata")
        BY <2>2
      <4> DEFINE opn == [op |-> "card info", arg |-> <<"bdf", c>>, item |-> 0]
      <4>2. opn.op = "card info"
        OBVIOUS
      <4> HIDE DEF opn
      <4>3. operation' = opn /\ card' = c /\ where' = "fru metadata" /\ UNCHANGED exitCode
        BY <4>1 DEF StartOperation, opn
      <4> QED
        BY <4>2, <4>3
    <3> QED
      BY <1>1, <3>1 DEF WhereInv
  <2> QED
    BY <2>1, <2>2 DEF Dispatch
<1>3. SessionTypeInv'
  BY <1>1, <1>2 DEF SessionInv, SessionTypeInv
<1>4. AllWellFormed' /\ \A d \in Cards : IsSequence(outbox'[d])
  BY <1>1 DEF SessionInv, OutboxInv, BeforeTransfer, AllWellFormed
<1> QED
  BY <1>1, <1>2, <1>3, <1>4, OperationKeepsInv

LEMMA StartUpdateKeepsInv == SessionInv /\ StartUpdate => SessionInv'
<1> SUFFICES ASSUME SessionInv, StartUpdate PROVE SessionInv'
  OBVIOUS
<1>1. /\ where = "dispatch" /\ card' \in Cards /\ where' = "updating"
      /\ operation'.op = "update"
      /\ UNCHANGED <<cmdNo, attempt, types, destEid, exitCode, ctl, outbox, ids, faults,
                     misread, worker>>
  BY DEF StartUpdate, external
<1>2. SessionTypeInv' /\ WhereInv'
  <2>1. SessionTypeInv'
    BY <1>1 DEF SessionInv, SessionTypeInv
  <2> QED
    BY <1>1, <2>1 DEF SessionInv, WhereInv
<1>3. AllWellFormed' /\ \A d \in Cards : IsSequence(outbox'[d])
  BY <1>1 DEF SessionInv, OutboxInv, BeforeTransfer, AllWellFormed
<1> QED
  BY <1>1, <1>2, <1>3, OperationKeepsInv

(* The process ends before it has sent anything, or with the file.         *)
LEMMA ExitKeepsInv == SessionInv /\ (SessionOpenFails \/ SaveFile) => SessionInv'
<1> SUFFICES ASSUME SessionInv, SessionOpenFails \/ SaveFile PROVE SessionInv'
  OBVIOUS
<1>1. /\ where \in {"init", "save"} /\ where' = "ended"
      /\ UNCHANGED <<operation, worker, card, cmdNo, attempt, types, destEid, ctl, outbox,
                     ids, faults, misread>>
  BY DEF SessionOpenFails, SaveFile, Exit, client, external
<1>2. operation.op # "reset"
  BY <1>1 DEF SessionInv, WhereInv
<1>3. SessionTypeInv' /\ WhereInv'
  <2>1. SessionTypeInv'
    BY <1>1 DEF SessionInv, SessionTypeInv
  <2> QED
    BY <1>1, <2>1 DEF WhereInv
<1>4. \A d \in Cards : IsSequence(outbox'[d])
  BY <1>1 DEF SessionInv, OutboxInv
<1>5. ~BeforeTransfer'
  BY <1>1 DEF BeforeTransfer
<1> QED
  BY <1>1, <1>2, <1>3, <1>4, <1>5, OperationKeepsInv

LEMMA UnchangedKeepsInv == SessionInv /\ UNCHANGED sessionVars => SessionInv'
<1> SUFFICES ASSUME SessionInv, UNCHANGED sessionVars PROVE SessionInv'
  OBVIOUS
<1>1. UNCHANGED <<where, operation, card, cmdNo, attempt, ids, types, destEid, worker,
                  exitCode, ctl, outbox, faults, misread>>
  BY DEF sessionVars, client, external
<1>2. SessionTypeInv' /\ WhereInv'
  BY <1>1 DEF SessionInv, SessionTypeInv, WhereInv
<1>3. OutboxInv' /\ WorkerInv'
  BY <1>1 DEF SessionInv, OutboxInv, BeforeTransfer, WorkerInv, ResetIsReal
<1>4. AgeInv'
  BY <1>1 DEF SessionInv, AgeInv, Initialised, InstanceId
<1> QED
  BY <1>2, <1>3, <1>4 DEF SessionInv

-----------------------------------------------------------------------------
(* The file transfer *)

LEMMA ConcatOfSequences ==
  ASSUME NEW s, NEW t, IsSequence(s), IsSequence(t)
  PROVE  /\ IsSequence(s \o t) /\ Len(s \o t) = Len(s) + Len(t)
         /\ \A i \in 1..Len(s) : (s \o t)[i] = s[i]
         /\ \A i \in 1..Len(t) : (s \o t)[Len(s) + i] = t[i]
<1> DEFINE S == Items(s) \cup Items(t)
<1>1. s \in Seq(S) /\ t \in Seq(S)
  BY SequenceOfItems, SeqMonotonic
<1>2. Len(s) \in Nat /\ Len(t) \in Nat
  BY LenOfSequence
<1> HIDE DEF S
<1>3. s \o t \in Seq(S) /\ Len(s \o t) = Len(s) + Len(t)
  BY ONLY <1>1, ConcatProperties
<1>4. \A i \in 1..(Len(s) + Len(t)) :
        (s \o t)[i] = IF i <= Len(s) THEN s[i] ELSE t[i - Len(s)]
  BY ONLY <1>1, ConcatProperties
<1>5. IsSequence(s \o t)
  BY <1>3, SequenceIsSequence
<1> DEFINE u == s \o t
<1> HIDE DEF u
<1>6. \A i \in 1..(Len(s) + Len(t)) : u[i] = IF i <= Len(s) THEN s[i] ELSE t[i - Len(s)]
  BY <1>4 DEF u
<1>7. \A i \in 1..Len(s) : u[i] = s[i]
  BY <1>2, <1>6
<1>8. ASSUME NEW i \in 1..Len(t) PROVE u[Len(s) + i] = t[i]
  <2>1. Len(s) + i \in 1..(Len(s) + Len(t)) /\ ~(Len(s) + i <= Len(s)) /\ Len(s) + i - Len(s) = i
    BY <1>2
  <2> QED
    BY <1>6, <2>1
<1> QED
  BY <1>3, <1>5, <1>7, <1>8 DEF u

(* What the AMC is asked for is a part of what is left of the file.        *)
PartOfFile ==
  /\ Len(bytes) \in Nat /\ fileSize \in Nat /\ PartLength \in 0..ChunkSize
  /\ Len(bytes) + PartLength <= fileSize
  /\ PartLast \in BOOLEAN /\ (PartLast <=> Len(bytes) + PartLength = fileSize)
  /\ ~PartLast => PartLength = ChunkSize
  /\ LastOfPart \in Nat \ {0}

LEMMA PartBounds == Prefix /\ fileSize \in Nat => PartOfFile
<1> SUFFICES ASSUME Prefix, fileSize \in Nat PROVE PartOfFile
  OBVIOUS
<1>1. Len(bytes) \in Nat /\ Len(bytes) <= fileSize /\ ChunkSize \in Nat
  BY LenOfSequence, AmcSessionAssumption DEF Prefix
<1>2. PartLength \in 0..ChunkSize /\ Len(bytes) + PartLength <= fileSize
      /\ (Len(bytes) + PartLength # fileSize => PartLength = ChunkSize)
  BY <1>1 DEF PartLength
<1> QED
  BY <1>1, <1>2 DEF PartOfFile, PartLast, LastOfPart

(* The packets of the response to the request for the next part.           *)
Request(cmd, id, ok) == [cmd |-> cmd, id |-> id, ok |-> ok, v |-> PartField]

LEMMA PacketsOfPart ==
  ASSUME PartOfFile, NEW id, NEW ok \in BOOLEAN
  PROVE  LET q == Packets(Request("MULTIPART_RECEIVE", id, ok))
         IN /\ IsSequence(q) /\ Len(q) = IF ok THEN LastOfPart ELSE 1
            /\ \A i \in 1..Len(q) : /\ Fresh(q[i]) /\ q[i].byte = Len(bytes) + i
                                    /\ q[i].som => q[i].hdr.ok = ok
<1> DEFINE hdr == Request("MULTIPART_RECEIVE", id, ok)
           q == Packets(hdr)
<1>1. /\ hdr.cmd = "MULTIPART_RECEIVE" /\ hdr.ok = ok /\ hdr.v = PartField
      /\ hdr.v.len = PartLength
  BY DEF Request, PartField
<1> HIDE DEF hdr
<1>2. PartLength \in Nat /\ Len(bytes) \in Nat /\ ChunkSize \in Nat
  BY AmcSessionAssumption DEF PartOfFile
<1>3. CASE ~ok \/ PartLength <= 1
  <2> DEFINE p == [Single(hdr) EXCEPT !.byte = Len(bytes) + 1]
  <2>1. q = <<p>>
    BY <1>1, <1>3 DEF Packets
  <2>2. p.som /\ p.eom /\ p.seq = 0 /\ p.hdr = hdr /\ p.byte = Len(bytes) + 1
    BY DEF Single
  <2> HIDE DEF p
  <2>3. IsSequence(<<p>>) /\ Len(<<p>>) = 1 /\ <<p>>[1] = p
    BY DEF IsSequence
  <2>4. PartOf(p) = 1 /\ (ok => LastOfPart = 1) /\ 1 \in 1..LastOfPart
    BY <1>2, <1>3, <2>2 DEF PartOf, LastOfPart
  <2>5. Fresh(p)
    BY <1>1, <1>3, <2>2, <2>4 DEF Fresh
  <2> QED
    <3>1. IsSequence(q) /\ Len(q) = 1 /\ q[1] = p
      BY <2>1, <2>3
    <3>2. Len(q) = IF ok THEN LastOfPart ELSE 1
      BY <3>1, <2>4
    <3>3. \A i \in 1..Len(q) : i = 1
      BY <3>1
    <3> QED
      BY <3>1, <3>2, <3>3, <2>2, <2>5, <1>1 DEF hdr
<1>4. CASE ok /\ PartLength > 1
  <2> DEFINE n == PartLength
             P(i) == [som |-> i = 1, eom |-> i = n, seq |-> (i - 1) % 4,
                      hdr |-> IF i = 1 THEN hdr ELSE NoHdr, byte |-> Len(bytes) + i]
  <2>1. q = [i \in 1..n |-> P(i)]
    BY <1>1, <1>2, <1>4 DEF Packets
  <2>2. Len(q) = n /\ IsSequence(q) /\ \A i \in 1..n : q[i] = P(i)
    BY <1>2, <2>1 DEF IsSequence
  <2>3. LastOfPart = n
    BY <1>2, <1>4 DEF LastOfPart
  <2>4. ASSUME NEW i \in 1..n
        PROVE  /\ Fresh(P(i)) /\ P(i).byte = Len(bytes) + i
               /\ P(i).som => P(i).hdr.ok = ok
    <3>1. P(i).byte = Len(bytes) + i /\ PartOf(P(i)) = i
      BY <1>2 DEF PartOf
    <3>2. (P(i).som <=> i = 1) /\ (P(i).eom <=> i = n) /\ P(i).seq = (i - 1) % 4
          /\ (P(i).som => P(i).hdr = hdr)
      OBVIOUS
    <3> DEFINE p == P(i)
    <3> HIDE DEF p
    <3>5. p.byte \in Nat
      BY <3>1, <1>2 DEF p
    <3>3. /\ PartOf(p) = i /\ (p.som <=> i = 1) /\ (p.eom <=> i = n)
          /\ p.seq = (i - 1) % 4 /\ (p.som => p.hdr = hdr)
      BY <3>1, <3>2 DEF p
    <3>4. Fresh(p)
      <4>1. PartOf(p) \in 1..LastOfPart /\ (p.som <=> PartOf(p) = 1)
            /\ p.seq = (PartOf(p) - 1) % 4 /\ (~p.som => (p.eom <=> PartOf(p) = PartLength))
        BY <1>4, <2>3, <3>3
      <4>2. p.som => p.hdr.cmd = "MULTIPART_RECEIVE" /\ p.hdr.ok /\ p.hdr.v = PartField
                     /\ ~p.eom /\ ~(PartLength <= 1)
        <5>1. p.som => ~p.eom /\ ~(PartLength <= 1)
          BY <1>2, <1>4, <3>3
        <5>2. hdr.ok
          BY <1>1, <1>4
        <5>3. p.som => p.hdr.cmd = "MULTIPART_RECEIVE" /\ p.hdr.ok /\ p.hdr.v = PartField
          BY <1>1, <5>2, <3>3
        <5> QED
          BY <5>1, <5>3
      <4> QED
        BY <3>5, <4>1, <4>2 DEF Fresh
    <3> QED
      BY <3>1, <3>2, <3>4, <1>1 DEF p
  <2> QED
    <3> HIDE DEF P, q
    <3> QED
      BY <1>4, <2>2, <2>3, <2>4 DEF q, hdr
<1> QED
  BY <1>2, <1>3, <1>4

LEMMA PacketsOfOther ==
  ASSUME NEW cmd, cmd # "MULTIPART_RECEIVE", NEW id, NEW ok \in BOOLEAN
  PROVE  LET q == Packets(Request(cmd, id, ok))
         IN /\ IsSequence(q) /\ Len(q) = 1
            /\ q[1].som /\ q[1].eom /\ q[1].hdr = Request(cmd, id, ok)
<1> DEFINE hdr == Request(cmd, id, ok)
           p == [Single(hdr) EXCEPT !.byte = Len(bytes) + 1]
<1>1. hdr.cmd = cmd
  BY DEF Request
<1>2. p.som /\ p.eom /\ p.hdr = hdr
  BY DEF Single
<1> HIDE DEF hdr
<1>3. Packets(hdr) = <<p>>
  BY <1>1 DEF Packets
<1> HIDE DEF p
<1>4. IsSequence(<<p>>) /\ Len(<<p>>) = 1 /\ <<p>>[1] = p
  BY DEF IsSequence
<1> QED
  BY <1>2, <1>3, <1>4 DEF hdr

LEMMA TransferKeepsInv ==
  ASSUME SessionInv, where \in {"send", "read"}, UNCHANGED transfer,
         \/ where' \in {"send", "read", "save"} /\ UNCHANGED exitCode
         \/ where' = "ended",
         NEW q, IsSequence(q), outbox' = [outbox EXCEPT ![card] = q],
         ids' \in [Cards -> 1..IdMax],
         ctl' \in [Cards -> [eid : 0..RetryCount, open : BOOLEAN, reset : BOOLEAN]],
         \A d \in Cards : ctl[d].reset => ctl'[d].reset,
         faults' \in 0..MaxFaults, misread' \in BOOLEAN
  PROVE  SessionInv'
<1>1. UNCHANGED <<operation, worker, card, cmdNo, attempt, types, destEid>>
  BY DEF transfer
<1>2. card \in Cards /\ outbox' = [d \in Cards |-> outbox'[d]]
      /\ \A d \in Cards : outbox'[d] \in {q, outbox[d]}
  BY DEF SessionInv, SessionTypeInv
<1>3. \A d \in Cards : IsSequence(outbox'[d])
  BY <1>2 DEF SessionInv, OutboxInv
<1>4. SessionTypeInv'
  BY <1>1, <1>2 DEF SessionInv, SessionTypeInv
<1>5. operation.op = "file" /\ WhereInv'
  <2>1. operation.op = "file"
    BY DEF SessionInv, WhereInv
  <2> QED
    BY <1>1, <2>1 DEF SessionInv, WhereInv
<1>6. ~BeforeTransfer'
  BY DEF BeforeTransfer
<1> QED
  BY <1>1, <1>3, <1>4, <1>5, <1>6, OperationKeepsInv

(* A command that fails leaves where and exitCode as the other steps do.   *)
LEMMA WhereOfFailure ==
  ASSUME NEW cmd, FileCommandFailed(cmd)
  PROVE  \/ where' = "send" /\ UNCHANGED exitCode
         \/ where' = "ended" /\ exitCode' = "error"
  BY DEF FileCommandFailed, Exit

LEMMA WhereOfComplete ==
  ASSUME NEW hdr, NEW got, Complete(hdr, got)
  PROVE  /\ \/ where' \in {"send", "save"} /\ UNCHANGED exitCode
            \/ where' = "ended"
         /\ ids' \in {ids, [ids EXCEPT ![card] = @ + 1]}
<1>1. CASE AfterResponse(hdr, got) /\ ids' = [ids EXCEPT ![card] = @ + 1]
  BY <1>1 DEF AfterResponse, Exit
<1>2. CASE FileCommandFailed(rx.cmd) /\ UNCHANGED <<bytes, ids>>
  BY <1>2, WhereOfFailure
<1> QED
  BY <1>1, <1>2 DEF Complete

LEMMA SendFileCommandKeepsInv ==
  ASSUME SessionInv, FileInv, SendFileCommand
  PROVE  SessionInv'
<1>1. where = "send" /\ UNCHANGED <<transfer, misread>>
      /\ ids' = [ids EXCEPT ![card] = InstanceId(card)]
  BY DEF SendFileCommand
<1>2. card \in Cards /\ ids \in [Cards -> 1..IdMax] /\ faults \in 0..MaxFaults
      /\ ctl \in [Cards -> [eid : 0..RetryCount, open : BOOLEAN, reset : BOOLEAN]]
      /\ IsSequence(outbox[card]) /\ misread' \in BOOLEAN
  BY <1>1 DEF SessionInv, SessionTypeInv, OutboxInv
<1>3. ids' \in [Cards -> 1..IdMax]
  <2>1. InstanceId(card) \in 1..IdMax
    BY <1>2, IdInRange, AmcSessionAssumption DEF InstanceIdsInRange
  <2> QED
    BY <1>1, <1>2, <2>1
<1>4. faults \in Nat /\ MaxFaults \in Nat
  BY <1>2, AmcSessionAssumption
<1>5. CASE /\ faults < MaxFaults /\ faults' = faults + 1 /\ FileCommandFailed(rx.cmd)
           /\ UNCHANGED <<outbox, ctl>>
  <2>1. outbox' = [outbox EXCEPT ![card] = outbox[card]]
    BY <1>5 DEF SessionInv, SessionTypeInv
  <2>2. faults' \in 0..MaxFaults
    BY <1>4, <1>5
  <2> QED
    BY <1>1, <1>2, <1>3, <1>5, <2>1, <2>2, WhereOfFailure, TransferKeepsInv
<1>6. ASSUME NEW ok \in BOOLEAN, NEW old \in {outbox[card], <<>>},
             ok \/ faults < MaxFaults, faults' = IF ok THEN faults ELSE faults + 1,
             outbox' = [outbox EXCEPT ![card] =
                          old \o Packets(Request(rx.cmd, InstanceId(card), ok))],
             ctl' = [ctl EXCEPT ![card] = IF ok THEN FileExecuted(rx.cmd, @) ELSE @],
             where' = "read", UNCHANGED exitCode
      PROVE  SessionInv'
  <2>1. PartOfFile /\ IsSequence(old)
    BY <1>1, <1>2, PartBounds, EmptySequence DEF FileInv, RequestInv
  <2>2. IsSequence(Packets(Request(rx.cmd, InstanceId(card), ok)))
    BY <2>1, PacketsOfPart, PacketsOfOther
  <2>3. IsSequence(old \o Packets(Request(rx.cmd, InstanceId(card), ok)))
    BY <2>1, <2>2, ConcatOfSequences
  <2>4. FileExecuted(rx.cmd, ctl[card]) \in [eid : 0..RetryCount, open : BOOLEAN, reset : BOOLEAN]
        /\ FileExecuted(rx.cmd, ctl[card]).reset = ctl[card].reset
    BY <1>2 DEF FileExecuted
  <2>5. ctl' \in [Cards -> [eid : 0..RetryCount, open : BOOLEAN, reset : BOOLEAN]]
        /\ \A d \in Cards : ctl[d].reset => ctl'[d].reset
    BY <1>2, <1>6, <2>4
  <2>6. faults' \in 0..MaxFaults
    BY <1>2, <1>4, <1>6
  <2> QED
    BY <1>1, <1>2, <1>3, <1>6, <2>3, <2>5, <2>6, TransferKeepsInv
<1> QED
  BY <1>5, <1>6 DEF SendFileCommand, Request, PartField

LEMMA ReadPacketFailsKeepsInv == SessionInv /\ ReadPacketFails => SessionInv'
<1> SUFFICES ASSUME SessionInv, ReadPacketFails PROVE SessionInv'
  OBVIOUS
<1>1. where = "read" /\ UNCHANGED <<transfer, bytes, ids, ctl, misread>>
  BY DEF ReadPacketFails
<1>2. card \in Cards /\ ids' \in [Cards -> 1..IdMax] /\ faults \in 0..MaxFaults
      /\ ctl' \in [Cards -> [eid : 0..RetryCount, open : BOOLEAN, reset : BOOLEAN]]
      /\ IsSequence(outbox[card]) /\ misread' \in BOOLEAN
      /\ outbox = [d \in Cards |-> outbox[d]]
  BY <1>1 DEF SessionInv, SessionTypeInv, OutboxInv
<1>3. faults' \in 0..MaxFaults
  <2>1. MaxFaults \in Nat /\ faults \in Nat
    BY <1>2, AmcSessionAssumption
  <2>2. faults' = faults \/ (faults < MaxFaults /\ faults' = faults + 1)
    BY DEF ReadPacketFails
  <2> QED
    BY <1>2, <2>1, <2>2
<1>4. \E q : IsSequence(q) /\ outbox' = [outbox EXCEPT ![card] = q]
  <2>1. CASE UNCHANGED outbox
    <3>1. outbox' = [outbox EXCEPT ![card] = outbox[card]]
      BY <1>2, <2>1
    <3> QED
      BY <1>2, <3>1
  <2>2. CASE outbox[card] # <<>> /\ outbox' = [outbox EXCEPT ![card] = Tail(@)]
    BY <1>2, <2>2, TailOfSequence
  <2> QED
    BY <2>1, <2>2 DEF ReadPacketFails
<1>5. \/ where' \in {"send", "read", "save"} /\ UNCHANGED exitCode
      \/ where' = "ended"
  <2>1. \/ where' = "read" /\ UNCHANGED exitCode
        \/ FileCommandFailed(rx.cmd)
    BY <1>1 DEF ReadPacketFails
  <2> QED
    BY <2>1, WhereOfFailure
<1> QED
  BY <1>1, <1>2, <1>3, <1>4, <1>5, TransferKeepsInv

LEMMA ReadPacketKeepsInv ==
  ASSUME SessionInv, FileInv, ReadPacket
  PROVE  SessionInv'
<1>1. where = "read" /\ outbox[card] # <<>> /\ UNCHANGED <<transfer, ctl>>
      /\ misread' = (misread \/ Head(outbox[card]).hdr.cmd \notin {rx.cmd, "none"})
  BY DEF ReadPacket
<1>2. card \in Cards /\ ids \in [Cards -> 1..IdMax] /\ faults \in 0..MaxFaults
      /\ ctl' \in [Cards -> [eid : 0..RetryCount, open : BOOLEAN, reset : BOOLEAN]]
      /\ IsSequence(outbox[card]) /\ outbox = [d \in Cards |-> outbox[d]]
  BY <1>1 DEF SessionInv, SessionTypeInv, OutboxInv
<1>3. faults' \in 0..MaxFaults
  <2>1. MaxFaults \in Nat /\ faults \in Nat
    BY <1>2, AmcSessionAssumption
  <2>2. faults' = faults \/ (faults < MaxFaults /\ faults' = faults + 1)
    BY DEF ReadPacket
  <2> QED
    BY <1>2, <2>1, <2>2
<1>4. \E q : IsSequence(q) /\ outbox' = [outbox EXCEPT ![card] = q]
  <2>1. CASE UNCHANGED outbox
    <3>1. outbox' = [outbox EXCEPT ![card] = outbox[card]]
      BY <1>2, <2>1
    <3> QED
      BY <1>2, <3>1
  <2>2. CASE outbox' = [outbox EXCEPT ![card] = Tail(@)]
    BY <1>1, <1>2, <2>2, TailOfSequence
  <2> QED
    BY <2>1, <2>2 DEF ReadPacket
<1>5. /\ \/ where' \in {"send", "read", "save"} /\ UNCHANGED exitCode
         \/ where' = "ended"
      /\ ids' \in {ids, [ids EXCEPT ![card] = @ + 1]}
  <2>1. \/ UNCHANGED <<where, ids, exitCode>>
        \/ \E hdr, got : Complete(hdr, got)
        \/ FileCommandFailed(rx.cmd) /\ UNCHANGED ids
    BY DEF ReadPacket
  <2>2. CASE UNCHANGED <<where, ids, exitCode>>
    BY <1>1, <2>2
  <2>3. CASE \E hdr, got : Complete(hdr, got)
    BY <2>3, WhereOfComplete
  <2>4. CASE FileCommandFailed(rx.cmd) /\ UNCHANGED ids
    BY <2>4, WhereOfFailure
  <2> QED
    BY <2>1, <2>2, <2>3, <2>4
<1>6. ids' \in [Cards -> 1..IdMax]
  <2>1. ids[card] < IdMax /\ IdMax \in Nat
    BY <1>1, AmcSessionAssumption DEF FileInv
  <2> QED
    BY <1>2, <1>5, <2>1
<1>7. misread' \in BOOLEAN
  BY <1>1
<1> QED
  BY <1>1, <1>2, <1>3, <1>4, <1>5, <1>6, <1>7, TransferKeepsInv

LEMMA SessionStepKeepsInv ==
  ASSUME SessionInv, FileInv, [AmcNext]_amcVars
  PROVE  SessionInv'
<1>1. CASE SessionNext
  <2>1. CASE SessionOpenFails \/ SaveFile
    BY <2>1, ExitKeepsInv
  <2>2. CASE InitCommand
    BY <2>2, InitCommandKeepsInv
  <2>3. CASE Dispatch
    BY <2>3, DispatchKeepsInv
  <2>4. CASE StartReset
    BY <2>4, StartResetKeepsInv
  <2>5. CASE \E c \in Cards : ResetWorker(c)
    BY <2>5, ResetWorkerKeepsInv
  <2>6. CASE JoinWorkers
    BY <2>6, JoinWorkersKeepsInv
  <2>7. CASE OneResponse
    BY <2>7, OneResponseKeepsInv
  <2>8. CASE SendFileCommand \/ ReadPacketFails \/ ReadPacket
    BY <2>8, SendFileCommandKeepsInv, ReadPacketFailsKeepsInv, ReadPacketKeepsInv
  <2> QED
    BY <1>1, <2>1, <2>2, <2>3, <2>4, <2>5, <2>6, <2>7, <2>8 DEF SessionNext, OneResponse
<1>2. CASE StartUpdate
  BY <1>2, StartUpdateKeepsInv
<1>3. CASE UNCHANGED sessionVars
  BY <1>3, UnchangedKeepsInv
<1> QED
  BY <1>1, <1>2, <1>3 DEF AmcNext, SessionStep, UpdateStep, Ended, amcVars

-----------------------------------------------------------------------------
(* The packets of a part *)

(* As long as what was collected does not change, the packets of the part  *)
(* stay what they are.                                                     *)
LEMMA FreshKept ==
  ASSUME UNCHANGED <<bytes, fileSize>>
  PROVE  /\ PartLength' = PartLength /\ LastOfPart' = LastOfPart /\ PartField' = PartField
         /\ \A p : PartOf(p)' = PartOf(p)
         /\ \A p : Fresh(p) => Fresh(p)'
<1>1. PartLength' = PartLength
  BY DEF PartLength
<1>2. LastOfPart' = LastOfPart /\ PartField' = PartField
  BY <1>1 DEF LastOfPart, PartField, PartLast
<1>3. \A p : PartOf(p)' = PartOf(p)
  BY DEF PartOf
<1> QED
  BY <1>1, <1>2, <1>3 DEF Fresh

AllFresh(q) ==
  /\ \A i \in 1..Len(q) : Fresh(q[i])
  /\ \A i, k \in 1..Len(q) : i < k => PartOf(q[i]) < PartOf(q[k])

LEMMA OrderedPackets ==
  ASSUME NEW q, IsSequence(q), q # <<>>, Ordered(q)
  PROVE  AllFresh(q) \/ (Stale(q[1]) /\ ~rx.som)
<1>1. PICK s \in 0..Len(q) :
        /\ \A i \in 1..s : Stale(q[i])
        /\ \A i \in (s + 1)..Len(q) : Fresh(q[i])
        /\ \A i, k \in (s + 1)..Len(q) : i < k => PartOf(q[i]) < PartOf(q[k])
        /\ rx.som => s = 0
  BY DEF Ordered
<1>2. Len(q) \in Nat \ {0}
  BY TailOfSequence
<1>3. CASE s = 0
  BY <1>1, <1>2, <1>3 DEF AllFresh
<1>4. CASE s # 0
  BY <1>1, <1>2, <1>4
<1> QED
  BY <1>3, <1>4

LEMMA OrderedTail ==
  ASSUME NEW q, IsSequence(q), q # <<>>, Ordered(q)
  PROVE  Ordered(Tail(q))
<1>1. PICK s \in 0..Len(q) :
        /\ \A i \in 1..s : Stale(q[i])
        /\ \A i \in (s + 1)..Len(q) : Fresh(q[i])
        /\ \A i, k \in (s + 1)..Len(q) : i < k => PartOf(q[i]) < PartOf(q[k])
        /\ rx.som => s = 0
  BY DEF Ordered
<1> DEFINE r == Tail(q)
           t == IF s = 0 THEN 0 ELSE s - 1
<1>2. Len(q) \in Nat \ {0} /\ Len(r) = Len(q) - 1 /\ \A i \in 1..Len(r) : r[i] = q[i + 1]
  BY TailOfSequence
<1> HIDE DEF r
<1>3. t \in 0..Len(r) /\ (rx.som => t = 0)
  BY <1>1, <1>2
<1>4. \A i \in 1..t : Stale(r[i])
  <2> SUFFICES ASSUME NEW i \in 1..t PROVE Stale(r[i])
    OBVIOUS
  <2>1. r[i] = q[i + 1] /\ i + 1 \in 1..s
    BY <1>1, <1>2
  <2> QED
    BY <1>1, <2>1
<1>5. \A i \in (t + 1)..Len(r) : r[i] = q[i + 1] /\ i + 1 \in (s + 1)..Len(q)
  BY <1>1, <1>2
<1>6. \A i \in (t + 1)..Len(r) : Fresh(r[i])
  BY <1>1, <1>5
<1>7. \A i, k \in (t + 1)..Len(r) : i < k => PartOf(r[i]) < PartOf(r[k])
  <2> SUFFICES ASSUME NEW i \in (t + 1)..Len(r), NEW k \in (t + 1)..Len(r), i < k
               PROVE  PartOf(r[i]) < PartOf(r[k])
    OBVIOUS
  <2>1. r[i] = q[i + 1] /\ i + 1 \in (s + 1)..Len(q) /\ r[k] = q[k + 1]
        /\ k + 1 \in (s + 1)..Len(q) /\ i + 1 < k + 1
    BY <1>3, <1>5, <1>2
  <2> QED
    BY <1>1, <2>1
<1> HIDE DEF t
<1>8. Ordered(r)
  BY <1>3, <1>4, <1>6, <1>7 DEF Ordered
<1> QED
  BY <1>8 DEF r

LEMMA ReadSoFarTail ==
  ASSUME NEW q, IsSequence(q), q # <<>>, ReadSoFar(q)
  PROVE  ReadSoFar(Tail(q))
<1>1. PICK j \in 1..(PartLength - 1) :
        /\ Len(rx.bytes) \in 1..j /\ IsSequence(rx.bytes)
        /\ rx.seq = j % 4
        /\ \A i \in 1..Len(q) : PartOf(q[i]) >= j
        /\ Len(rx.bytes) = j => \A i \in 1..j : rx.bytes[i] = Len(bytes) + i
        /\ rx.hdr.cmd = "MULTIPART_RECEIVE" /\ rx.hdr.ok /\ rx.hdr.v = PartField
  BY DEF ReadSoFar
<1> DEFINE r == Tail(q)
<1>2. Len(q) \in Nat \ {0} /\ Len(r) = Len(q) - 1 /\ \A i \in 1..Len(r) : r[i] = q[i + 1]
  BY TailOfSequence
<1> HIDE DEF r
<1>3. \A i \in 1..Len(r) : PartOf(r[i]) >= j
  <2> SUFFICES ASSUME NEW i \in 1..Len(r) PROVE PartOf(r[i]) >= j
    OBVIOUS
  <2>1. r[i] = q[i + 1] /\ i + 1 \in 1..Len(q)
    BY <1>2
  <2> QED
    BY <1>1, <2>1
<1>4. ReadSoFar(r)
  BY <1>1, <1>3 DEF ReadSoFar
<1> QED
  BY <1>4 DEF r

(* The packets of a part put together are its bytes.                       *)
LEMMA CollectedPart ==
  ASSUME Prefix, PartOfFile, NEW got, IsSequence(got), Len(got) >= PartLength,
         \A i \in 1..PartLength : got[i] = Len(bytes) + i
  PROVE  LET b == bytes \o SubSeq(got, 1, PartLength)
         IN /\ IsSequence(b) /\ Len(b) = Len(bytes) + PartLength /\ Len(b) <= fileSize
            /\ \A i \in 1..Len(b) : b[i] = i
<1> DEFINE part == SubSeq(got, 1, PartLength)
           b == bytes \o part
<1>1. PartLength \in Nat /\ Len(bytes) \in Nat /\ Len(bytes) + PartLength <= fileSize
      /\ Len(got) \in Nat /\ IsSequence(bytes) /\ \A i \in 1..Len(bytes) : bytes[i] = i
  BY LenOfSequence, AmcSessionAssumption DEF PartOfFile, Prefix
<1>2. got \in Seq(Items(got))
  BY SequenceOfItems
<1>3. /\ part \in Seq(Items(got)) /\ Len(part) = PartLength
      /\ \A i \in 1..PartLength : part[i] = got[i]
  BY <1>1, <1>2, SubSeqProperties
<1> HIDE DEF part
<1>4. IsSequence(part)
  BY <1>3, SequenceIsSequence
<1>5. /\ IsSequence(b) /\ Len(b) = Len(bytes) + PartLength
      /\ \A i \in 1..Len(bytes) : b[i] = bytes[i]
      /\ \A i \in 1..PartLength : b[Len(bytes) + i] = part[i]
  BY <1>1, <1>3, <1>4, ConcatOfSequences
<1> HIDE DEF b
<1>6. ASSUME NEW i \in 1..Len(b) PROVE b[i] = i
  <2>1. CASE i <= Len(bytes)
    BY <1>1, <1>5, <2>1
  <2>2. CASE ~(i <= Len(bytes))
    <3>1. i - Len(bytes) \in 1..PartLength /\ Len(bytes) + (i - Len(bytes)) = i
      BY <1>1, <1>5, <2>2
    <3>2. b[Len(bytes) + (i - Len(bytes))] = part[i - Len(bytes)]
      BY <1>5, <3>1
    <3>3. part[i - Len(bytes)] = Len(bytes) + (i - Len(bytes))
      BY <1>3, <3>1
    <3> QED
      BY <3>1, <3>2, <3>3
  <2> QED
    BY <2>1, <2>2
<1> QED
  BY <1>1, <1>5, <1>6 DEF b, part

(* A packet was read: it is gone, or the AMC sends it once more.           *)
LEMMA RestOfPackets ==
  ASSUME NEW q, IsSequence(q), q # <<>>, AllFresh(q), PartOfFile, NEW r \in {q, Tail(q)}
  PROVE  /\ IsSequence(r) /\ AllFresh(r)
         /\ \A i \in 1..Len(r) : /\ Fresh(r[i]) /\ PartOf(r[i]) \in 1..LastOfPart
                                 /\ PartOf(q[1]) \in Nat /\ PartOf(r[i]) >= PartOf(q[1])
<1>1. Len(q) \in Nat \ {0} /\ IsSequence(Tail(q)) /\ Len(Tail(q)) = Len(q) - 1
      /\ \A i \in 1..Len(Tail(q)) : Tail(q)[i] = q[i + 1]
  BY TailOfSequence
<1>2. \A i \in 1..Len(q) : PartOf(q[i]) \in 1..LastOfPart
  BY DEF AllFresh, Fresh
<1>3. LastOfPart \in Nat
  BY DEF PartOfFile
<1>4. CASE r = q
  <2>1. \A i \in 1..Len(q) : PartOf(q[i]) >= PartOf(q[1])
    <3> SUFFICES ASSUME NEW i \in 1..Len(q) PROVE PartOf(q[i]) >= PartOf(q[1])
      OBVIOUS
    <3>1. 1 \in 1..Len(q) /\ (i = 1 \/ 1 < i)
      BY <1>1
    <3>2. PartOf(q[i]) \in Nat /\ PartOf(q[1]) \in Nat
      BY <1>2, <1>3, <3>1
    <3>3. 1 < i => PartOf(q[1]) < PartOf(q[i])
      BY <3>1 DEF AllFresh
    <3> QED
      BY <3>1, <3>2, <3>3
  <2>2. PartOf(q[1]) \in Nat
    <3>1. 1 \in 1..Len(q)
      BY <1>1
    <3> QED
      BY <1>2, <1>3, <3>1
  <2> QED
    BY <1>1, <1>2, <1>4, <2>1, <2>2 DEF AllFresh
<1>5. CASE r = Tail(q)
  <2> DEFINE t == Tail(q)
  <2>1. IsSequence(t) /\ Len(t) = Len(q) - 1 /\ \A i \in 1..Len(t) : t[i] = q[i + 1]
    BY <1>1
  <2> HIDE DEF t
  <2>2. \A i \in 1..Len(t) : t[i] = q[i + 1] /\ i + 1 \in 1..Len(q) /\ 1 \in 1..Len(q)
                             /\ 1 < i + 1
    BY <1>1, <2>1
  <2>3. ASSUME NEW i \in 1..Len(t)
        PROVE  /\ Fresh(t[i]) /\ PartOf(t[i]) \in 1..LastOfPart
               /\ PartOf(q[1]) \in Nat /\ PartOf(t[i]) >= PartOf(q[1])
    <3>1. Fresh(q[i + 1]) /\ PartOf(q[1]) < PartOf(q[i + 1])
      BY <2>2 DEF AllFresh
    <3>2. PartOf(q[i + 1]) \in 1..LastOfPart /\ PartOf(q[1]) \in 1..LastOfPart
      BY <1>2, <2>2
    <3> QED
      BY <1>3, <2>2, <3>1, <3>2
  <2>4. ASSUME NEW i \in 1..Len(t), NEW k \in 1..Len(t), i < k
        PROVE  PartOf(t[i]) < PartOf(t[k])
    <3>1. i + 1 < k + 1 /\ i + 1 \in 1..Len(q) /\ k + 1 \in 1..Len(q)
      BY <1>1, <2>1, <2>4
    <3>2. PartOf(q[i + 1]) < PartOf(q[k + 1])
      BY <3>1 DEF AllFresh
    <3> QED
      BY <2>2, <3>2
  <2>5. AllFresh(t)
    BY <2>3, <2>4 DEF AllFresh
  <2> QED
    BY <1>5, <2>1, <2>3, <2>5 DEF t
<1> QED
  BY <1>4, <1>5

LEMMA AllFreshKept ==
  ASSUME UNCHANGED <<bytes, fileSize>>, NEW q, IsSequence(q), AllFresh(q)
  PROVE  Ordered(q)'
<1>1. \A p : PartOf(p)' = PartOf(p)
  BY FreshKept
<1>2. \A p : Fresh(p) => Fresh(p)'
  BY FreshKept
<1>3. Len(q) \in Nat
  BY LenOfSequence
<1>4. /\ \A i \in 1..Len(q) : Fresh(q[i])'
      /\ \A i, k \in 1..Len(q) : i < k => PartOf(q[i])' < PartOf(q[k])'
  BY <1>1, <1>2 DEF AllFresh
<1> QED
  BY <1>3, <1>4 DEF Ordered

(* The first packet of a part, the first one that is read.                 *)
LEMMA FirstPacket ==
  ASSUME PartOfFile, RxInv, UNCHANGED <<bytes, fileSize>>, NEW q, IsSequence(q), q # <<>>,
         AllFresh(q), NEW r \in {q, Tail(q)}, q[1].som, ~q[1].eom,
         rx' = [rx EXCEPT !.retry = 0, !.som = TRUE, !.seq = (q[1].seq + 1) % 4,
                          !.hdr = q[1].hdr, !.bytes = <<q[1].byte>>]
  PROVE  Ordered(r)' /\ ReadSoFar(r)'
<1> DEFINE p == q[1]
<1>1. Len(q) \in Nat \ {0} /\ Fresh(p)
  BY TailOfSequence DEF AllFresh
<1>2. rx'.seq = (p.seq + 1) % 4 /\ rx'.hdr = p.hdr /\ rx'.bytes = <<p.byte>>
  BY DEF RxInv
<1>3. IsSequence(r) /\ AllFresh(r) /\ \A i \in 1..Len(r) : PartOf(r[i]) \in 1..LastOfPart
  BY RestOfPackets
<1>4. Ordered(r)'
  BY <1>3, AllFreshKept
<1> HIDE DEF p
<1>5. /\ PartOf(p) = 1 /\ p.seq = 0 /\ p.byte \in Nat /\ p.hdr.cmd = "MULTIPART_RECEIVE"
      /\ p.hdr.ok /\ p.hdr.v = PartField /\ ~(PartLength <= 1)
  BY <1>1 DEF Fresh, p
<1>6. PartLength \in Nat /\ Len(bytes) \in Nat /\ LastOfPart \in Nat
  BY AmcSessionAssumption DEF PartOfFile
<1>7. p.byte = Len(bytes) + 1
  BY <1>5, <1>6 DEF PartOf
<1>8. 1 \in 1..(PartLength - 1) /\ rx'.seq = 1 % 4
  BY <1>2, <1>5, <1>6
<1>9. IsSequence(rx'.bytes) /\ Len(rx'.bytes) = 1 /\ rx'.bytes[1] = Len(bytes) + 1
  BY <1>2, <1>7 DEF IsSequence
<1>10. \A i \in 1..Len(r) : PartOf(r[i]) >= 1
  BY <1>3, <1>6
<1>11. PartLength' = PartLength /\ PartField' = PartField /\ \A x : PartOf(x)' = PartOf(x)
  BY FreshKept
<1>12. \E j \in 1..(PartLength' - 1) :
         /\ Len(rx'.bytes) \in 1..j /\ IsSequence(rx'.bytes)
         /\ rx'.seq = j % 4
         /\ \A i \in 1..Len(r) : PartOf(r[i])' >= j
         /\ Len(rx'.bytes) = j => \A i \in 1..j : rx'.bytes[i] = Len(bytes') + i
         /\ rx'.hdr.cmd = "MULTIPART_RECEIVE" /\ rx'.hdr.ok /\ rx'.hdr.v = PartField'
  <2> DEFINE j == 1
  <2>1. j \in 1..(PartLength' - 1) /\ rx'.seq = j % 4
        /\ Len(rx'.bytes) \in 1..j /\ IsSequence(rx'.bytes)
    BY <1>8, <1>9, <1>11
  <2>2. \A i \in 1..Len(r) : PartOf(r[i])' >= j
    BY <1>10, <1>11
  <2>3. \A i \in 1..j : rx'.bytes[i] = Len(bytes') + i
    BY <1>9
  <2>4. rx'.hdr.cmd = "MULTIPART_RECEIVE" /\ rx'.hdr.ok /\ rx'.hdr.v = PartField'
    BY <1>2, <1>5, <1>11
  <2> QED
    BY <2>1, <2>2, <2>3, <2>4
<1>13. ReadSoFar(r)'
  BY <1>12 DEF ReadSoFar
<1> QED
  BY <1>4, <1>13

(* A packet that follows in sequence: packets between may only have been   *)
(* lost four at a time, and then the bytes read so far are fewer.          *)
LEMMA FollowingPacket ==
  ASSUME PartOfFile, NEW q, IsSequence(q), q # <<>>, AllFresh(q), ReadSoFar(q),
         ~q[1].som, q[1].seq = rx.seq
  PROVE  \E k \in 2..PartLength :
           /\ PartOf(q[1]) = k /\ rx.seq = (k - 1) % 4
           /\ q[1].eom <=> k = PartLength
           /\ LET got == Append(rx.bytes, q[1].byte)
              IN /\ IsSequence(got) /\ Len(got) \in 1..k
                 /\ Len(got) = k => \A i \in 1..k : got[i] = Len(bytes) + i
           /\ rx.hdr.cmd = "MULTIPART_RECEIVE" /\ rx.hdr.ok /\ rx.hdr.v = PartField
<1> DEFINE p == q[1]
           got == Append(rx.bytes, p.byte)
<1>1. Len(q) \in Nat \ {0} /\ Fresh(p) /\ 1 \in 1..Len(q)
  BY TailOfSequence DEF AllFresh
<1>2. PICK j \in 1..(PartLength - 1) :
        /\ Len(rx.bytes) \in 1..j /\ IsSequence(rx.bytes)
        /\ rx.seq = j % 4
        /\ \A i \in 1..Len(q) : PartOf(q[i]) >= j
        /\ Len(rx.bytes) = j => \A i \in 1..j : rx.bytes[i] = Len(bytes) + i
        /\ rx.hdr.cmd = "MULTIPART_RECEIVE" /\ rx.hdr.ok /\ rx.hdr.v = PartField
  BY DEF ReadSoFar
<1>3. PartLength \in Nat /\ PartLength >= 2 /\ LastOfPart = PartLength /\ Len(bytes) \in Nat
  BY <1>2, AmcSessionAssumption DEF PartOfFile, LastOfPart
<1> DEFINE k == PartOf(p)
<1>4. k \in 1..PartLength /\ k >= j /\ k # 1 /\ p.seq = (k - 1) % 4 /\ p.byte \in Nat
      /\ (p.eom <=> k = PartLength)
  BY <1>1, <1>2, <1>3 DEF Fresh
<1>5. p.byte = Len(bytes) + k
  BY <1>3, <1>4 DEF PartOf
<1> HIDE DEF p, k
<1>6. j \in Nat /\ k \in Nat /\ (k - 1) % 4 = j % 4
  <2>1. p.seq = rx.seq
    BY DEF p
  <2> QED
    BY <1>2, <1>3, <1>4, <2>1
<1>7. k >= j + 1
  BY <1>4, <1>6
<1>8. /\ IsSequence(got) /\ Len(got) = Len(rx.bytes) + 1
      /\ \A i \in 1..Len(rx.bytes) : got[i] = rx.bytes[i]
      /\ got[Len(rx.bytes) + 1] = p.byte
  BY <1>2, AppendToSequence
<1> HIDE DEF got
<1>9. Len(got) \in 1..k
  BY <1>2, <1>6, <1>7, <1>8
<1>10. ASSUME Len(got) = k, NEW i \in 1..k PROVE got[i] = Len(bytes) + i
  <2>1. Len(rx.bytes) = j /\ k = j + 1
    BY <1>2, <1>6, <1>7, <1>8, <1>10
  <2>2. CASE i = k
    BY <1>5, <1>8, <2>1, <2>2
  <2>3. CASE i # k
    BY <1>2, <1>8, <2>1, <2>3
  <2> QED
    BY <2>2, <2>3
<1>11. k \in 2..PartLength
  BY <1>3, <1>4
<1>12. rx.seq = (k - 1) % 4
  BY <1>2, <1>6
<1> QED
  <2>1. rx.hdr.cmd = "MULTIPART_RECEIVE" /\ rx.hdr.ok /\ rx.hdr.v = PartField
    BY <1>2
  <2>2. p.eom <=> k = PartLength
    BY <1>4
  <2>3. /\ IsSequence(got) /\ Len(got) \in 1..k
        /\ Len(got) = k => \A i \in 1..k : got[i] = Len(bytes) + i
    BY <1>8, <1>9, <1>10
  <2> QED
    BY <1>11, <1>12, <2>1, <2>2, <2>3 DEF p, got, k

(* A middle packet.                                                        *)
LEMMA MiddlePacket ==
  ASSUME PartOfFile, RxInv, UNCHANGED <<bytes, fileSize>>, NEW q, IsSequence(q), q # <<>>,
         AllFresh(q), ReadSoFar(q), NEW r \in {q, Tail(q)}, ~q[1].som, q[1].seq = rx.seq,
         ~q[1].eom,
         rx' = [rx EXCEPT !.retry = 0, !.seq = (@ + 1) % 4,
                          !.bytes = Append(rx.bytes, q[1].byte)]
  PROVE  Ordered(r)' /\ ReadSoFar(r)'
<1> DEFINE got == Append(rx.bytes, q[1].byte)
<1>1. PICK k \in 2..PartLength :
        /\ PartOf(q[1]) = k /\ rx.seq = (k - 1) % 4
        /\ q[1].eom <=> k = PartLength
        /\ IsSequence(got) /\ Len(got) \in 1..k
        /\ Len(got) = k => \A i \in 1..k : got[i] = Len(bytes) + i
        /\ rx.hdr.cmd = "MULTIPART_RECEIVE" /\ rx.hdr.ok /\ rx.hdr.v = PartField
  BY FollowingPacket
<1>2. rx'.seq = (rx.seq + 1) % 4 /\ rx'.bytes = got /\ rx'.hdr = rx.hdr
  BY DEF RxInv
<1> HIDE DEF got
<1>3. IsSequence(r) /\ AllFresh(r) /\ \A i \in 1..Len(r) : PartOf(r[i]) >= k
  BY <1>1, RestOfPackets
<1>4. Ordered(r)'
  BY <1>3, AllFreshKept
<1>5. PartLength \in Nat /\ PartLength' = PartLength /\ PartField' = PartField
      /\ \A x : PartOf(x)' = PartOf(x)
  BY FreshKept, AmcSessionAssumption DEF PartOfFile
<1>6. k \in 1..(PartLength' - 1) /\ rx'.seq = k % 4
  BY <1>1, <1>2, <1>5
<1>7. /\ Len(rx'.bytes) \in 1..k /\ IsSequence(rx'.bytes)
      /\ \A i \in 1..Len(r) : PartOf(r[i])' >= k
      /\ Len(rx'.bytes) = k => \A i \in 1..k : rx'.bytes[i] = Len(bytes') + i
      /\ rx'.hdr.cmd = "MULTIPART_RECEIVE" /\ rx'.hdr.ok /\ rx'.hdr.v = PartField'
  BY <1>1, <1>2, <1>3, <1>5
<1>8. ReadSoFar(r)'
  BY <1>6, <1>7 DEF ReadSoFar
<1> QED
  BY <1>4, <1>8

(* A command of the transfer fails.                                        *)
LEMMA FailureKeepsFile ==
  ASSUME FileInv, where \in {"send", "read"}, FileCommandFailed(rx.cmd),
         UNCHANGED <<transfer, bytes>>
  PROVE  FileInv'
<1>1. RequestInv /\ fileSize \in Nat /\ UNCHANGED <<bytes, fileSize, card, operation>>
  BY DEF FileInv, transfer
<1>2. Prefix'
  BY <1>1 DEF RequestInv, Prefix, IsSequence
<1>3. CASE where' = "ended" /\ exitCode' = "error" /\ rx' = NoRx
  BY <1>1, <1>3 DEF FileInv, RxInv, NoRx
<1>4. CASE where' = "send" /\ rx' = [NoRx EXCEPT !.cmd = "DF_CLOSE"] /\ fileRet' = FALSE
  <2>1. RxInv' /\ ~rx'.som /\ rx'.cmd = "DF_CLOSE"
    BY <1>4 DEF RxInv, NoRx
  <2>2. RequestInv'
    BY <1>2, <1>4, <2>1 DEF RequestInv
  <2> QED
    BY <1>1, <1>4, <2>1, <2>2 DEF FileInv
<1> QED
  BY <1>3, <1>4 DEF FileCommandFailed, Exit

(* The part is complete: it is appended to what was collected.             *)
LEMMA PartReceivedKeepsFile ==
  ASSUME FileInv, where = "read", rx.cmd = "MULTIPART_RECEIVE",
         NEW hdr, NEW got, IsSequence(got), hdr.v = PartField, Len(got) >= PartLength,
         \A i \in 1..PartLength : got[i] = Len(bytes) + i,
         AfterResponse(hdr, got), UNCHANGED <<transfer, ctl, fileRet>>,
         NEW r, r = outbox'[card],
         \A i \in 1..Len(r) : r[i].som => /\ r[i].eom /\ r[i].hdr.cmd = "MULTIPART_RECEIVE"
                                          /\ PartLength < 2
  PROVE  FileInv'
<1>1. RequestInv /\ fileSize \in Nat /\ Prefix /\ PartOfFile
      /\ UNCHANGED <<fileSize, card, operation>>
  BY PartBounds DEF FileInv, RequestInv, transfer
<1>2. /\ bytes' = Collected(hdr, got) /\ where' = "send"
      /\ rx' = [NoRx EXCEPT !.cmd = IF hdr.v.last \/ hdr.v.len < ChunkSize
                                    THEN "DF_CLOSE" ELSE "MULTIPART_RECEIVE"]
  BY DEF AfterResponse
<1>3. hdr.v.len = PartLength /\ hdr.v.last = PartLast
  BY DEF PartField
<1>4. bytes' = bytes \o SubSeq(got, 1, PartLength)
  BY <1>2, <1>3 DEF Collected
<1>5. /\ IsSequence(bytes') /\ Len(bytes') = Len(bytes) + PartLength
      /\ Len(bytes') <= fileSize /\ \A i \in 1..Len(bytes') : bytes'[i] = i
  BY <1>1, <1>4, CollectedPart
<1>6. Prefix'
  BY <1>1, <1>5 DEF Prefix, IsSequence
<1>7. RxInv' /\ ~rx'.som /\ rx'.cmd \in {"DF_CLOSE", "MULTIPART_RECEIVE"}
  BY <1>2 DEF RxInv, NoRx
<1>8. ChunkSize \in Nat /\ ChunkSize >= 2 /\ PartLength \in 0..ChunkSize
  BY <1>1, AmcSessionAssumption DEF PartOfFile
<1>9. CASE PartLast \/ PartLength < ChunkSize
  <2>1. rx'.cmd = "DF_CLOSE"
    BY <1>2, <1>3, <1>9 DEF NoRx
  <2>2. Len(bytes') = fileSize
    BY <1>1, <1>5, <1>8, <1>9 DEF PartOfFile
  <2>3. \A i \in 1..Len(r) : CloseTakes(r[i])'
    BY DEF CloseTakes, SameCode
  <2>4. \A i \in 1..Len(outbox'[card']) : CloseTakes(outbox[card][i])'
    BY <1>1, <2>3 DEF CloseTakes
  <2>5. RequestInv'
    BY <1>1, <1>6, <1>7, <2>1, <2>2, <2>4 DEF RequestInv
  <2> QED
    BY <1>1, <1>2, <1>7, <2>1, <2>5 DEF FileInv
<1>10. CASE ~PartLast /\ PartLength >= ChunkSize
  <2>1. rx'.cmd = "MULTIPART_RECEIVE"
    BY <1>2, <1>3, <1>8, <1>10 DEF NoRx
  <2>2. \A i \in 1..Len(r) : ~r[i].som
    BY <1>8, <1>10
  <2>3. \A i \in 1..Len(outbox'[card']) : Stale(outbox[card][i])'
    BY <1>1, <2>2 DEF Stale
  <2>4. RequestInv'
    BY <1>1, <1>6, <1>7, <2>1 DEF RequestInv
  <2> QED
    BY <1>1, <1>2, <1>7, <2>1, <2>3, <2>4 DEF FileInv
<1> QED
  BY <1>1, <1>8, <1>9, <1>10 DEF PartOfFile

(* Reads of a part that go on.                                             *)
LEMMA PartGoesOn ==
  ASSUME FileInv, where = "read", rx.cmd = "MULTIPART_RECEIVE", rx'.cmd = rx.cmd, RxInv',
         UNCHANGED <<where, bytes, ids, fileRet, transfer>>,
         NEW r, r = outbox'[card], Ordered(r)', rx'.som => ReadSoFar(r)'
  PROVE  FileInv'
<1>1. RequestInv /\ fileSize \in Nat /\ UNCHANGED <<fileSize, card, operation>>
  BY DEF FileInv, transfer
<1>2. Prefix'
  BY <1>1 DEF RequestInv, Prefix, IsSequence
<1>3. RequestInv'
  BY <1>1, <1>2 DEF RequestInv
<1>4. Ordered(outbox[card])' /\ (rx'.som => ReadSoFar(outbox[card])')
  BY <1>1 DEF Ordered, ReadSoFar
<1>5. PartInv'
  BY <1>4 DEF PartInv
<1> QED
  BY <1>1, <1>3, <1>5 DEF FileInv

LEMMA MultipartReadKeepsFile ==
  ASSUME SessionInv, FileInv, ReadPacket, rx.cmd = "MULTIPART_RECEIVE"
  PROVE  FileInv'
<1>1. PICK q, r : q = outbox[card] /\ r = outbox'[card]
  OBVIOUS
<1>2. /\ where = "read" /\ q # <<>> /\ IsSequence(q) /\ r \in {q, Tail(q)}
      /\ UNCHANGED <<transfer, ctl>>
  <2>1. card \in Cards /\ IsSequence(q) /\ outbox = [d \in Cards |-> outbox[d]]
    BY <1>1 DEF SessionInv, SessionTypeInv, OutboxInv
  <2> QED
    BY <1>1, <2>1 DEF ReadPacket
<1>3. RequestInv /\ RxInv /\ fileSize \in Nat /\ Prefix /\ PartOfFile
      /\ Ordered(q) /\ (rx.som => ReadSoFar(q)) /\ UNCHANGED fileSize
  BY <1>1, <1>2, PartBounds DEF FileInv, RequestInv, PartInv, transfer
<1> DEFINE p == q[1]
<1>4. Head(q) = p /\ Len(q) \in Nat \ {0}
  BY <1>2, TailOfSequence
<1> DEFINE got == Append(rx.bytes, p.byte)
<1>5. \/ /\ p.som /\ p.eom
         /\ Complete(p.hdr, <<p.byte>>)
      \/ /\ p.som /\ ~p.eom
         /\ rx' = [rx EXCEPT !.retry = 0, !.som = TRUE, !.seq = (p.seq + 1) % 4,
                             !.hdr = p.hdr, !.bytes = <<p.byte>>]
         /\ UNCHANGED <<where, bytes, ids, fileRet, exitCode>>
      \/ /\ ~p.som /\ InSequence(p) /\ ~p.eom
         /\ rx' = [rx EXCEPT !.retry = 0, !.seq = (@ + 1) % 4, !.bytes = got]
         /\ UNCHANGED <<where, bytes, ids, fileRet, exitCode>>
      \/ ~p.som /\ InSequence(p) /\ p.eom /\ Complete(rx.hdr, got)
      \/ ~p.som /\ ~InSequence(p) /\ FileCommandFailed(rx.cmd) /\ UNCHANGED <<bytes, ids>>
  BY <1>1, <1>4 DEF ReadPacket
<1>6. ASSUME FileCommandFailed(rx.cmd), UNCHANGED bytes PROVE FileInv'
  BY <1>2, <1>6, FailureKeepsFile
<1> HIDE DEF got
<1>7. CASE Stale(p) /\ ~rx.som
  <2>1. ~InSequence(p)
    BY <1>7 DEF InSequence
  <2>2. p.som => p.eom /\ ~ResponseOk(p.hdr, <<p.byte>>)
    BY <1>7 DEF Stale, ResponseOk, SameCode
  <2>3. FileCommandFailed(rx.cmd) /\ UNCHANGED bytes
    <3>1. CASE p.som
      BY <1>5, <2>2, <3>1 DEF Complete
    <3>2. CASE ~p.som
      BY <1>5, <2>1, <3>2
    <3> QED
      BY <3>1, <3>2
  <2> QED
    BY <1>6, <2>3
<1>8. CASE AllFresh(q)
  <2>1. Fresh(p) /\ 1 \in 1..Len(q)
    BY <1>4, <1>8 DEF AllFresh
  <2>2. /\ IsSequence(r) /\ AllFresh(r)
        /\ \A i \in 1..Len(r) : /\ Fresh(r[i]) /\ PartOf(r[i]) \in 1..LastOfPart
                                /\ PartOf(p) \in Nat /\ PartOf(r[i]) >= PartOf(p)
    BY <1>2, <1>3, <1>8, RestOfPackets
  <2>3. PartLength \in 0..ChunkSize /\ ChunkSize \in Nat /\ Len(bytes) \in Nat
    BY <1>3, AmcSessionAssumption DEF PartOfFile
  <2> HIDE DEF p
  <2>4. CASE p.som /\ p.eom /\ Complete(p.hdr, <<p.byte>>)
    <3>1. CASE ResponseOk(p.hdr, <<p.byte>>) /\ AfterResponse(p.hdr, <<p.byte>>)
               /\ UNCHANGED fileRet
      <4>1. p.hdr.ok
        BY <3>1 DEF ResponseOk
      <4>2. p.hdr.v = PartField /\ PartLength <= 1 /\ PartOf(p) = 1 /\ p.byte \in Nat
        BY <2>1, <2>4, <4>1 DEF Fresh
      <4>3. IsSequence(<<p.byte>>) /\ Len(<<p.byte>>) = 1 /\ <<p.byte>>[1] = Len(bytes) + 1
        BY <2>3, <4>2 DEF IsSequence, PartOf
      <4>4. Len(<<p.byte>>) >= PartLength
            /\ \A i \in 1..PartLength : <<p.byte>>[i] = Len(bytes) + i
        BY <2>3, <4>2, <4>3
      <4>5. LastOfPart = 1
        BY <4>2 DEF LastOfPart
      <4>6. ASSUME NEW i \in 1..Len(r)
            PROVE  r[i].som => /\ r[i].eom /\ r[i].hdr.cmd = "MULTIPART_RECEIVE"
                               /\ PartLength < 2
        <5>1. Fresh(r[i]) /\ PartOf(r[i]) = 1
          BY <2>2, <4>5
        <5> QED
          BY <5>1, <4>2, <2>3 DEF Fresh
      <4> DEFINE one == <<p.byte>>
                 hdr == p.hdr
      <4> HIDE DEF one, hdr
      <4>7. IsSequence(one) /\ hdr.v = PartField /\ Len(one) >= PartLength
            /\ (\A i \in 1..PartLength : one[i] = Len(bytes) + i)
            /\ AfterResponse(hdr, one)
        BY <3>1, <4>2, <4>3, <4>4 DEF one, hdr
      <4> QED
        BY <1>1, <1>2, <3>1, <4>6, <4>7, PartReceivedKeepsFile
    <3>2. CASE ~ResponseOk(p.hdr, <<p.byte>>)
      BY <1>6, <2>4, <3>2 DEF Complete
    <3> QED
      BY <2>4, <3>1, <3>2 DEF Complete
  <2>5. CASE /\ p.som /\ ~p.eom
             /\ rx' = [rx EXCEPT !.retry = 0, !.som = TRUE, !.seq = (p.seq + 1) % 4,
                                 !.hdr = p.hdr, !.bytes = <<p.byte>>]
             /\ UNCHANGED <<where, bytes, ids, fileRet, exitCode>>
    <3>1. Ordered(r)' /\ ReadSoFar(r)'
      BY <1>2, <1>3, <1>8, <2>5, FirstPacket DEF p
    <3>2. RxInv' /\ rx'.cmd = rx.cmd
      BY <1>3, <2>5 DEF RxInv
    <3> QED
      BY <1>1, <1>2, <2>5, <3>1, <3>2, PartGoesOn
  <2>6. CASE /\ ~p.som /\ InSequence(p) /\ ~p.eom
             /\ rx' = [rx EXCEPT !.retry = 0, !.seq = (@ + 1) % 4, !.bytes = got]
             /\ UNCHANGED <<where, bytes, ids, fileRet, exitCode>>
    <3>1. Ordered(r)' /\ ReadSoFar(r)'
      BY <1>2, <1>3, <1>8, <2>6, MiddlePacket DEF p, InSequence, got
    <3>2. RxInv' /\ rx'.cmd = rx.cmd
      BY <1>3, <2>6 DEF RxInv
    <3> QED
      BY <1>1, <1>2, <2>6, <3>1, <3>2, PartGoesOn
  <2>7. CASE ~p.som /\ InSequence(p) /\ p.eom /\ Complete(rx.hdr, got)
    <3>1. CASE ResponseOk(rx.hdr, got) /\ AfterResponse(rx.hdr, got) /\ UNCHANGED fileRet
      <4>1. PICK k \in 2..PartLength :
              /\ PartOf(p) = k /\ (p.eom <=> k = PartLength)
              /\ IsSequence(got) /\ Len(got) \in 1..k
              /\ Len(got) = k => \A i \in 1..k : got[i] = Len(bytes) + i
              /\ rx.hdr.v = PartField
        BY <1>2, <1>3, <1>8, <2>7, FollowingPacket DEF p, InSequence, got
      <4>2. Len(got) >= PartLength
        BY <3>1, <4>1 DEF ResponseOk, PartField
      <4>3. k = PartLength /\ Len(got) = PartLength
        BY <2>3, <2>7, <4>1, <4>2
      <4>4. ASSUME NEW i \in 1..Len(r) PROVE ~r[i].som
        BY <2>2, <2>3, <4>1, <4>4 DEF Fresh
      <4>5. PICK hdr : hdr = rx.hdr
        OBVIOUS
      <4> QED
        BY <1>1, <1>2, <3>1, <4>1, <4>2, <4>3, <4>4, <4>5, PartReceivedKeepsFile
    <3>2. CASE ~ResponseOk(rx.hdr, got)
      BY <1>6, <2>7, <3>2 DEF Complete
    <3> QED
      BY <2>7, <3>1, <3>2 DEF Complete
  <2>8. CASE ~p.som /\ ~InSequence(p) /\ FileCommandFailed(rx.cmd) /\ UNCHANGED <<bytes, ids>>
    BY <1>6, <2>8
  <2> QED
    BY <1>5, <2>4, <2>5, <2>6, <2>7, <2>8 DEF p
<1> QED
  BY <1>2, <1>3, <1>7, <1>8, OrderedPackets

LEMMA OpenReadKeepsFile ==
  ASSUME SessionInv, FileInv, ReadPacket, rx.cmd = "DF_OPEN"
  PROVE  FileInv'
<1>1. PICK q, r : q = outbox[card] /\ r = outbox'[card]
  OBVIOUS
<1>2. /\ where = "read" /\ q # <<>> /\ IsSequence(q) /\ r \in {q, Tail(q)}
      /\ UNCHANGED <<transfer, ctl>>
  <2>1. card \in Cards /\ IsSequence(q) /\ outbox = [d \in Cards |-> outbox[d]]
    BY <1>1 DEF SessionInv, SessionTypeInv, OutboxInv
  <2> QED
    BY <1>1, <2>1 DEF ReadPacket
<1>3. fileRet = TRUE /\ fileSize \in Nat /\ WellFormed(q)
      /\ UNCHANGED <<fileSize, card, operation>>
  BY <1>1, <1>2 DEF FileInv, RequestInv, transfer
<1> DEFINE p == q[1]
<1>4. Head(q) = p /\ Len(q) \in Nat \ {0} /\ Plain(p) /\ 1 \in 1..Len(q)
  BY <1>2, <1>3, TailOfSequence DEF WellFormed
<1>5. p.som /\ p.eom
  BY <1>4 DEF Plain
<1> HIDE DEF p
<1>6. Complete(p.hdr, <<p.byte>>)
  BY <1>1, <1>4, <1>5 DEF ReadPacket
<1>7. CASE FileCommandFailed(rx.cmd) /\ UNCHANGED bytes
  BY <1>2, <1>7, FailureKeepsFile
<1>8. CASE AfterResponse(p.hdr, <<p.byte>>) /\ UNCHANGED fileRet
  <2>1. where' = "send" /\ rx' = [NoRx EXCEPT !.cmd = "MULTIPART_RECEIVE"] /\ bytes' = <<>>
    BY <1>8 DEF AfterResponse
  <2>2. RxInv' /\ ~rx'.som /\ rx'.cmd = "MULTIPART_RECEIVE"
    BY <2>1 DEF RxInv, NoRx
  <2>3. Prefix'
    BY <1>3, <2>1, EmptySequence DEF Prefix, IsSequence
  <2>4. \A i \in 1..Len(r) : \E k \in 1..Len(q) : r[i] = q[k]
    <3>1. CASE r = q
      BY <3>1
    <3>2. CASE r = Tail(q)
      <4> SUFFICES ASSUME NEW i \in 1..Len(r) PROVE \E k \in 1..Len(q) : r[i] = q[k]
        OBVIOUS
      <4>1. r[i] = q[i + 1] /\ i + 1 \in 1..Len(q)
        BY <1>2, <1>4, <3>2, TailOfSequence
      <4> QED
        BY <4>1
    <3> QED
      BY <1>2, <3>1, <3>2
  <2>5. \A i \in 1..Len(r) : Plain(r[i])
    BY <1>3, <2>4 DEF WellFormed
  <2>6. \A i \in 1..Len(outbox'[card']) : Stale(outbox[card][i])'
    BY <1>1, <1>3, <2>5 DEF Stale, Plain
  <2>7. RequestInv'
    BY <1>3, <1>8, <2>2, <2>3 DEF RequestInv
  <2> QED
    BY <1>3, <2>1, <2>2, <2>6, <2>7 DEF FileInv
<1> QED
  BY <1>6, <1>7, <1>8 DEF Complete

LEMMA CloseReadKeepsFile ==
  ASSUME SessionInv, FileInv, ReadPacket, rx.cmd = "DF_CLOSE"
  PROVE  FileInv'
<1>1. PICK q : q = outbox[card]
  OBVIOUS
<1>2. where = "read" /\ q # <<>> /\ IsSequence(q) /\ UNCHANGED <<transfer, ctl>>
      /\ card \in Cards
  BY <1>1 DEF ReadPacket, SessionInv, SessionTypeInv, OutboxInv
<1>3. RequestInv /\ RxInv /\ fileSize \in Nat /\ Prefix /\ UNCHANGED <<fileSize, card, operation>>
      /\ ids[card] < IdMax
  BY <1>2 DEF FileInv, RequestInv, transfer
<1> DEFINE p == q[1]
           GoesOn == /\ UNCHANGED <<where, bytes, ids, fileRet, exitCode>>
                     /\ RxInv' /\ rx'.cmd = rx.cmd
<1>4. Head(q) = p /\ 1 \in 1..Len(q)
  BY <1>2, TailOfSequence
<1>5. \/ p.som /\ p.eom /\ Complete(p.hdr, <<p.byte>>)
      \/ ((p.som /\ ~p.eom) \/ InSequence(p)) /\ GoesOn
      \/ InSequence(p) /\ \E got : Complete(rx.hdr, got)
      \/ FileCommandFailed(rx.cmd) /\ UNCHANGED bytes
  <2>1. \/ p.som /\ p.eom /\ Complete(p.hdr, <<p.byte>>)
        \/ /\ p.som /\ ~p.eom
           /\ rx' = [rx EXCEPT !.retry = 0, !.som = TRUE, !.seq = (p.seq + 1) % 4,
                               !.hdr = p.hdr, !.bytes = <<p.byte>>]
           /\ UNCHANGED <<where, bytes, ids, fileRet, exitCode>>
        \/ /\ InSequence(p)
           /\ rx' = [rx EXCEPT !.retry = 0, !.seq = (@ + 1) % 4,
                               !.bytes = Append(rx.bytes, p.byte)]
           /\ UNCHANGED <<where, bytes, ids, fileRet, exitCode>>
        \/ InSequence(p) /\ Complete(rx.hdr, Append(rx.bytes, p.byte))
        \/ FileCommandFailed(rx.cmd) /\ UNCHANGED bytes
    BY <1>1, <1>4 DEF ReadPacket
  <2> HIDE DEF p
  <2>2. CASE /\ p.som /\ ~p.eom
             /\ rx' = [rx EXCEPT !.retry = 0, !.som = TRUE, !.seq = (p.seq + 1) % 4,
                                 !.hdr = p.hdr, !.bytes = <<p.byte>>]
             /\ UNCHANGED <<where, bytes, ids, fileRet, exitCode>>
    BY <1>3, <2>2 DEF RxInv
  <2>3. CASE /\ InSequence(p)
             /\ rx' = [rx EXCEPT !.retry = 0, !.seq = (@ + 1) % 4,
                                 !.bytes = Append(rx.bytes, p.byte)]
             /\ UNCHANGED <<where, bytes, ids, fileRet, exitCode>>
    BY <1>3, <2>3 DEF RxInv
  <2> QED
    BY <2>1, <2>2, <2>3
<1>6. ASSUME FileCommandFailed(rx.cmd), UNCHANGED bytes PROVE FileInv'
  BY <1>2, <1>6, FailureKeepsFile
<1>7. Prefix' \/ ~UNCHANGED bytes
  BY <1>3 DEF Prefix, IsSequence
<1>8. CASE fileRet
  <2>1. ~rx.som /\ Len(bytes) = fileSize /\ CloseTakes(p)
    BY <1>1, <1>3, <1>4, <1>8 DEF RequestInv
  <2>2. ~InSequence(p) /\ ~(p.som /\ ~p.eom)
    BY <2>1 DEF InSequence, CloseTakes
  <2> HIDE DEF p
  <2>3. CASE /\ p.som /\ ResponseOk(p.hdr, <<p.byte>>)
             /\ AfterResponse(p.hdr, <<p.byte>>) /\ UNCHANGED fileRet
    <3>1. where' = "save" /\ rx' = NoRx /\ UNCHANGED bytes
      BY <1>8, <2>3 DEF AfterResponse
    <3>2. ~ctl[card].open
      BY <2>1, <2>3 DEF CloseTakes, ResponseOk
    <3>3. WholeFile' /\ RxInv'
      BY <1>2, <1>3, <1>7, <2>1, <3>1, <3>2 DEF WholeFile, RxInv, NoRx
    <3> QED
      BY <1>3, <3>1, <3>3 DEF FileInv
  <2> QED
    BY <1>5, <1>6, <2>2, <2>3 DEF Complete
<1>9. CASE ~fileRet
  <2> HIDE DEF p
  <2>1. ASSUME NEW hdr, NEW got, AfterResponse(hdr, got), UNCHANGED fileRet PROVE FileInv'
    <3>1. where' = "ended" /\ exitCode' = "error" /\ rx' = NoRx
      BY <1>9, <2>1 DEF AfterResponse, Exit
    <3> QED
      BY <1>3, <3>1 DEF FileInv, RxInv, NoRx
  <2>2. CASE GoesOn
    <3>1. RequestInv'
      BY <1>3, <1>7, <1>9, <2>2 DEF RequestInv
    <3> QED
      BY <1>2, <1>3, <2>2, <3>1 DEF FileInv
  <2> QED
    BY <1>5, <1>6, <2>1, <2>2 DEF Complete
<1> QED
  BY <1>8, <1>9

LEMMA RestOfQueue ==
  ASSUME NEW q, IsSequence(q), NEW r \in {q, Tail(q)}, q # <<>> \/ r = q
  PROVE  IsSequence(r) /\ \A i \in 1..Len(r) : \E k \in 1..Len(q) : r[i] = q[k]
<1>1. CASE r = q
  BY <1>1
<1>2. CASE r = Tail(q) /\ q # <<>>
  <2>1. IsSequence(r) /\ Len(q) \in Nat \ {0} /\ Len(r) = Len(q) - 1
        /\ \A i \in 1..Len(r) : r[i] = q[i + 1]
    BY <1>2, TailOfSequence
  <2>2. \A i \in 1..Len(r) : i + 1 \in 1..Len(q)
    BY <2>1
  <2> QED
    BY <2>1, <2>2
<1> QED
  BY <1>1, <1>2

LEMMA ReadFailsKeepsFile == SessionInv /\ FileInv /\ ReadPacketFails => FileInv'
<1> SUFFICES ASSUME SessionInv, FileInv, ReadPacketFails PROVE FileInv'
  OBVIOUS
<1>1. PICK q, r : q = outbox[card] /\ r = outbox'[card]
  OBVIOUS
<1>2. where = "read" /\ UNCHANGED <<transfer, bytes, ids, ctl, misread>>
  BY DEF ReadPacketFails
<1>3. /\ IsSequence(q) /\ r \in {q, Tail(q)} /\ (q # <<>> \/ r = q)
      /\ card \in Cards /\ ids[card] < IdMax
  <2>1. card \in Cards /\ IsSequence(q) /\ outbox = [d \in Cards |-> outbox[d]]
    BY <1>1 DEF SessionInv, SessionTypeInv, OutboxInv
  <2> QED
    BY <1>1, <1>2, <2>1 DEF ReadPacketFails, FileInv
<1>4. RequestInv /\ RxInv /\ fileSize \in Nat /\ Prefix
      /\ UNCHANGED <<fileSize, card, operation, bytes, ids, ctl>>
  BY <1>2 DEF FileInv, RequestInv, transfer
<1>5. CASE FileCommandFailed(rx.cmd)
  BY <1>2, <1>5, FailureKeepsFile
<1>6. CASE rx' = [rx EXCEPT !.retry = @ + 1] /\ UNCHANGED <<where, fileRet, exitCode>>
  <2>1. RxInv' /\ rx'.cmd = rx.cmd /\ rx'.som = rx.som /\ rx'.seq = rx.seq
        /\ rx'.hdr = rx.hdr /\ rx'.bytes = rx.bytes
    BY <1>4, <1>6 DEF RxInv
  <2>2. IsSequence(r) /\ \A i \in 1..Len(r) : \E k \in 1..Len(q) : r[i] = q[k]
    BY <1>3, RestOfQueue
  <2>3. Prefix'
    BY <1>4 DEF Prefix, IsSequence
  <2>4. rx.cmd = "DF_OPEN" => WellFormed(outbox[card])'
    <3>1. rx.cmd = "DF_OPEN" => WellFormed(r)
      BY <1>1, <1>4, <2>2 DEF RequestInv, WellFormed
    <3> QED
      BY <1>1, <1>4, <3>1 DEF WellFormed, IsSequence, Plain
  <2>5. rx.cmd = "DF_CLOSE" /\ fileRet =>
          \A i \in 1..Len(outbox'[card']) : CloseTakes(outbox[card][i])'
    <3>1. rx.cmd = "DF_CLOSE" /\ fileRet => \A i \in 1..Len(r) : CloseTakes(r[i])
      BY <1>1, <1>4, <2>2 DEF RequestInv
    <3> QED
      BY <1>1, <1>4, <3>1 DEF CloseTakes
  <2>6. RequestInv'
    BY <1>4, <1>6, <2>1, <2>3, <2>4, <2>5 DEF RequestInv
  <2>7. ASSUME rx.cmd = "MULTIPART_RECEIVE" PROVE PartInv'
    <3>1. Ordered(q) /\ (rx.som => ReadSoFar(q))
      BY <1>1, <1>2, <2>7 DEF FileInv, PartInv
    <3>2. Ordered(r) /\ (rx.som => ReadSoFar(r))
      <4>1. CASE r = q
        BY <3>1, <4>1
      <4>2. CASE q # <<>> /\ r = Tail(q)
        BY <1>3, <3>1, <4>2, OrderedTail, ReadSoFarTail
      <4> QED
        BY <1>3, <4>1, <4>2
    <3>3. Ordered(r)'
      <4>1. PICK s \in 0..Len(r) :
              /\ \A i \in 1..s : Stale(r[i])
              /\ \A i \in (s + 1)..Len(r) : Fresh(r[i])
              /\ \A i, k \in (s + 1)..Len(r) : i < k => PartOf(r[i]) < PartOf(r[k])
              /\ rx.som => s = 0
        BY <3>2 DEF Ordered
      <4>2. \A i \in (s + 1)..Len(r) : Fresh(r[i])'
        BY <1>4, <4>1, FreshKept
      <4>3. \A i, k \in (s + 1)..Len(r) : i < k => PartOf(r[i])' < PartOf(r[k])'
        BY <1>4, <4>1, FreshKept
      <4> QED
        BY <4>1, <4>2, <4>3, <2>1 DEF Ordered
    <3>4. rx.som => ReadSoFar(r)'
      <4>1. PartLength' = PartLength /\ PartField' = PartField
            /\ \A x : PartOf(x)' = PartOf(x)
        BY <1>4, FreshKept
      <4> QED
        BY <1>4, <2>1, <3>2, <4>1 DEF ReadSoFar
    <3>5. Ordered(outbox[card])' /\ (rx'.som => ReadSoFar(outbox[card])')
      BY <1>1, <1>4, <2>1, <3>3, <3>4 DEF Ordered, ReadSoFar
    <3> QED
      BY <3>5 DEF PartInv
  <2> QED
    BY <1>2, <1>3, <1>4, <1>6, <2>1, <2>6, <2>7 DEF FileInv
<1> QED
  BY <1>5, <1>6 DEF ReadPacketFails

LEMMA SendKeepsFile ==
  ASSUME SessionInv, FileInv, SendFileCommand
  PROVE  FileInv'
<1>1. /\ where = "send" /\ UNCHANGED <<transfer, bytes, misread>>
      /\ ids' = [ids EXCEPT ![card] = InstanceId(card)]
  BY DEF SendFileCommand
<1>2. /\ card \in Cards /\ ids \in [Cards -> 1..IdMax] /\ IsSequence(outbox[card])
      /\ ctl \in [Cards -> [eid : 0..RetryCount, open : BOOLEAN, reset : BOOLEAN]]
      /\ outbox = [d \in Cards |-> outbox[d]]
  BY DEF SessionInv, SessionTypeInv, OutboxInv
<1>3. RequestInv /\ RxInv /\ fileSize \in Nat /\ Prefix /\ PartOfFile
      /\ UNCHANGED <<fileSize, card, operation, bytes>>
  BY <1>1, PartBounds DEF FileInv, RequestInv, transfer
<1>4. ids'[card] < IdMax
  BY <1>1, <1>2, IdInRange, AmcSessionAssumption DEF InstanceIdsInRange
<1>5. CASE FileCommandFailed(rx.cmd)
  BY <1>1, <1>5, FailureKeepsFile
<1>6. ASSUME NEW ok \in BOOLEAN, NEW old \in {outbox[card], <<>>},
             outbox' = [outbox EXCEPT ![card] =
                          old \o Packets(Request(rx.cmd, InstanceId(card), ok))],
             ctl' = [ctl EXCEPT ![card] = IF ok THEN FileExecuted(rx.cmd, @) ELSE @],
             where' = "read", rx' = [NoRx EXCEPT !.cmd = rx.cmd], UNCHANGED fileRet
      PROVE  FileInv'
  <2>12. PICK ps : ps = Packets(Request(rx.cmd, InstanceId(card), ok))
    OBVIOUS
  <2>13. PICK r : r = old \o ps
    OBVIOUS
  <2>1. RxInv' /\ rx'.cmd = rx.cmd /\ ~rx'.som
    BY <1>6 DEF RxInv, NoRx
  <2>2. Prefix'
    BY <1>3 DEF Prefix, IsSequence
  <2>3. outbox'[card] = r
    BY <1>2, <1>6, <2>12, <2>13
  <2>4. IsSequence(old) /\ Len(old) \in Nat
        /\ \A i \in 1..Len(old) : \E k \in 1..Len(outbox[card]) : old[i] = outbox[card][k]
    <3>1. CASE old = outbox[card]
      BY <1>2, <3>1, LenOfSequence
    <3>2. CASE old = <<>>
      BY <3>2, EmptySequence
    <3> QED
      BY <1>6, <3>1, <3>2
  <2>5. IsSequence(ps)
    BY <1>3, <2>12, PacketsOfPart, PacketsOfOther
  <2>6. /\ IsSequence(r) /\ Len(r) = Len(old) + Len(ps) /\ Len(ps) \in Nat
        /\ \A i \in 1..Len(old) : r[i] = old[i]
        /\ \A i \in 1..Len(ps) : r[Len(old) + i] = ps[i]
    BY <2>4, <2>5, <2>13, ConcatOfSequences, LenOfSequence
  <2>7. ASSUME NEW i \in 1..Len(r)
        PROVE  \/ \E k \in 1..Len(outbox[card]) : r[i] = outbox[card][k]
               \/ \E k \in 1..Len(ps) : r[i] = ps[k]
    <3>1. CASE i <= Len(old)
      <4>1. i \in 1..Len(old) /\ r[i] = old[i]
        BY <2>4, <2>6, <3>1
      <4> QED
        BY <2>4, <4>1
    <3>2. CASE ~(i <= Len(old))
      <4>1. i - Len(old) \in 1..Len(ps) /\ Len(old) + (i - Len(old)) = i
        BY <2>4, <2>6, <3>2
      <4>2. r[Len(old) + (i - Len(old))] = ps[i - Len(old)]
        BY <2>6, <4>1
      <4> QED
        BY <4>1, <4>2
    <3> QED
      BY <3>1, <3>2
  <2>8. ASSUME rx.cmd # "MULTIPART_RECEIVE"
        PROVE  /\ Len(ps) = 1 /\ ps[1].som /\ ps[1].eom /\ ps[1].hdr.cmd = rx.cmd
               /\ ps[1].hdr.ok = ok
    BY <2>8, <2>12, PacketsOfOther DEF Request
  <2>9. CASE rx.cmd = "DF_OPEN"
    <3>1. bytes = <<>> /\ fileRet = TRUE /\ WellFormed(outbox[card])
      BY <1>3, <2>9 DEF RequestInv
    <3>2. \A i \in 1..Len(r) : Plain(r[i])
      <4>1. Plain(ps[1]) /\ Len(ps) = 1
        BY <2>8, <2>9 DEF Plain
      <4>2. \A k \in 1..Len(ps) : k = 1
        BY <4>1
      <4>3. \A k \in 1..Len(outbox[card]) : Plain(outbox[card][k])
        BY <3>1 DEF WellFormed
      <4> QED
        BY <2>7, <4>1, <4>2, <4>3
    <3>3. WellFormed(outbox[card])'
      BY <1>3, <2>3, <2>6, <3>2 DEF WellFormed, IsSequence, Plain
    <3>4. RequestInv'
      BY <1>3, <1>6, <2>1, <2>2, <2>9, <3>1, <3>3 DEF RequestInv
    <3> QED
      BY <1>3, <1>4, <1>6, <2>1, <2>9, <3>4 DEF FileInv
  <2>10. CASE rx.cmd = "MULTIPART_RECEIVE"
    <3>1. fileRet = TRUE /\ \A k \in 1..Len(outbox[card]) : Stale(outbox[card][k])
      BY <1>1, <1>3, <2>10 DEF FileInv, RequestInv
    <3>2. \A i \in 1..Len(old) : Stale(r[i])
      BY <2>4, <2>6, <3>1
    <3>3. /\ Len(bytes) \in Nat
          /\ \A i \in 1..Len(ps) : Fresh(ps[i]) /\ ps[i].byte = Len(bytes) + i
      BY <1>3, <2>10, <2>12, PacketsOfPart DEF PartOfFile
    <3>4. ASSUME NEW i \in (Len(old) + 1)..Len(r)
          PROVE  Fresh(r[i]) /\ PartOf(r[i]) = i - Len(old)
      <4>1. i - Len(old) \in 1..Len(ps) /\ Len(old) + (i - Len(old)) = i
        BY <2>4, <2>6
      <4>2. r[Len(old) + (i - Len(old))] = ps[i - Len(old)]
        BY <2>6, <4>1
      <4> QED
        BY <3>3, <4>1, <4>2 DEF PartOf
    <3>5. \A i, k \in (Len(old) + 1)..Len(r) : i < k => PartOf(r[i]) < PartOf(r[k])
      BY <2>4, <3>4
    <3>6. \A i \in (Len(old) + 1)..Len(r) : Fresh(r[i])'
      BY <1>3, <3>4, FreshKept
    <3>7. \A i, k \in (Len(old) + 1)..Len(r) : i < k => PartOf(r[i])' < PartOf(r[k])'
      BY <1>3, <3>5, FreshKept
    <3>8. Len(old) \in 0..Len(r)
      BY <2>4, <2>6
    <3>9. Ordered(r)'
      BY <2>1, <3>2, <3>6, <3>7, <3>8 DEF Ordered
    <3>10. PartInv'
      BY <1>3, <2>1, <2>3, <3>9 DEF PartInv, Ordered
    <3>11. RequestInv'
      BY <1>6, <2>1, <2>2, <2>10, <3>1 DEF RequestInv
    <3> QED
      BY <1>3, <1>4, <1>6, <2>1, <2>10, <3>10, <3>11 DEF FileInv
  <2>11. CASE rx.cmd = "DF_CLOSE"
    <3>1. fileRet => /\ Len(bytes) = fileSize
                     /\ \A k \in 1..Len(outbox[card]) : CloseTakes(outbox[card][k])
      BY <1>3, <2>11 DEF RequestInv
    <3>2. (ok => ~ctl'[card].open) /\ (~ctl[card].open => ~ctl'[card].open)
      BY <1>2, <1>6, <2>11 DEF FileExecuted
    <3>3. ASSUME fileRet, NEW i \in 1..Len(r) PROVE CloseTakes(r[i])'
      <4>1. CASE \E k \in 1..Len(outbox[card]) : r[i] = outbox[card][k]
        BY <1>3, <3>1, <3>2, <3>3, <4>1 DEF CloseTakes
      <4>2. CASE \E k \in 1..Len(ps) : r[i] = ps[k]
        <5>1. r[i] = ps[1]
          <6>1. Len(ps) = 1
            BY <2>8, <2>11
          <6>2. \A k \in 1..Len(ps) : k = 1
            BY <6>1
          <6> QED
            BY <4>2, <6>2
        <5> QED
          BY <1>3, <2>8, <2>11, <3>2, <5>1 DEF CloseTakes
      <4> QED
        BY <2>7, <4>1, <4>2
    <3>4. fileRet => \A i \in 1..Len(outbox'[card']) : CloseTakes(outbox[card][i])'
      BY <1>3, <2>3, <3>3 DEF CloseTakes
    <3>5. RequestInv'
      BY <1>3, <1>6, <2>1, <2>2, <2>11, <3>1, <3>4 DEF RequestInv
    <3> QED
      BY <1>3, <1>4, <1>6, <2>1, <2>11, <3>5 DEF FileInv
  <2> QED
    BY <1>3, <2>9, <2>10, <2>11 DEF RequestInv
<1> QED
  BY <1>5, <1>6 DEF SendFileCommand, Request, PartField

LEMMA SaveKeepsFile == FileInv /\ SaveFile => FileInv'
<1> SUFFICES ASSUME FileInv, SaveFile PROVE FileInv'
  OBVIOUS
<1>1. /\ WholeFile /\ where' = "ended"
      /\ UNCHANGED <<bytes, fileSize, ctl, card, rx>>
  BY DEF SaveFile, Exit, client, external, FileInv
<1>2. WholeFile' /\ RxInv'
  BY <1>1 DEF WholeFile, Prefix, IsSequence, FileInv, RxInv
<1> QED
  BY <1>1, <1>2 DEF FileInv

(* Steps that lead to no step of the transfer.                             *)
LEMMA ElsewhereKeepsFile ==
  ASSUME FileInv, fileSize' \in Nat, UNCHANGED rx,
         where' \notin {"send", "read", "save"},
         where' \in {"init", "dispatch", "joining", "repository", "pdr", "sensor",
                     "fru metadata"} => bytes' = <<>> /\ fileRet' = TRUE,
         where' = "ended" => operation'.op # "file" \/ exitCode' # "success"
  PROVE  FileInv'
<1>1. RxInv'
  BY DEF FileInv, RxInv
<1> QED
  BY <1>1 DEF FileInv

LEMMA UnchangedKeepsFile == FileInv /\ UNCHANGED sessionVars => FileInv'
<1> SUFFICES ASSUME FileInv, UNCHANGED sessionVars PROVE FileInv'
  OBVIOUS
<1>1. UNCHANGED <<where, operation, card, ids, ctl, outbox, fileSize, bytes, rx, fileRet,
                  exitCode>>
  BY DEF sessionVars, client, external
<1>2. PartLength' = PartLength /\ LastOfPart' = LastOfPart /\ PartField' = PartField
      /\ PartLast' = PartLast
  BY <1>1 DEF LastOfPart, PartField, PartLength, PartLast
<1>3. PartInv' = PartInv
  BY <1>1, <1>2 DEF PartInv, Ordered, ReadSoFar, Fresh, Stale, PartOf
<1>4. RequestInv' = RequestInv
  BY <1>1 DEF RequestInv, Prefix, IsSequence, WellFormed, Plain, CloseTakes
<1>5. WholeFile' = WholeFile /\ RxInv' = RxInv
  BY <1>1 DEF WholeFile, Prefix, IsSequence, RxInv
<1> QED
  BY <1>1, <1>3, <1>4, <1>5 DEF FileInv, Stale

LEMMA GetPdrKeepsFile == SessionInv /\ FileInv /\ GetPdr => FileInv'
<1> SUFFICES ASSUME SessionInv, FileInv, GetPdr PROVE FileInv'
  OBVIOUS
<1>1. /\ where = "pdr" /\ bytes = <<>> /\ fileRet = TRUE /\ fileSize \in Nat
      /\ UNCHANGED <<operation, bytes, fileRet, fileSize, card>>
  BY DEF GetPdr, FileInv
<1>2. PICK o \in Outcomes(card, "GET_PDR", PdrExists(Asked), PdrValue(Asked)) :
        /\ Command(card, "GET_PDR", 0, o, o.got.ok)
        /\ \/ \E p : /\ AfterPdrs(p)
                     /\ \/ where' # "send" /\ UNCHANGED rx
                        \/ where' = "send" /\ rx' = [NoRx EXCEPT !.cmd = "DF_OPEN"]
           \/ Exit("error") /\ UNCHANGED rx
  BY DEF GetPdr
<1>3. \/ where' \in {"pdr", "sensor"} /\ UNCHANGED rx
      \/ where' = "ended" /\ exitCode' = "error" /\ UNCHANGED rx
      \/ where' = "send" /\ rx' = [NoRx EXCEPT !.cmd = "DF_OPEN"]
  BY <1>1, <1>2 DEF AfterPdrs, Exit
<1>4. CASE where' # "send"
  BY <1>1, <1>3, <1>4, ElsewhereKeepsFile
<1>5. CASE where' = "send"
  <2>1. RxInv' /\ ~rx'.som /\ rx'.cmd = "DF_OPEN"
    BY <1>3, <1>5 DEF RxInv, NoRx
  <2>2. Prefix'
    BY <1>1, EmptySequence DEF Prefix, IsSequence
  <2>3. WellFormed(outbox[card])'
    <3>7. card \in Cards
      BY DEF SessionInv, SessionTypeInv
    <3>8. PICK c \in Cards, can \in BOOLEAN, ok \in {o.got.ok} :
            c = card /\ can = PdrExists(Asked) /\ ok = o.got.ok
      BY <3>7 DEF PdrExists
    <3>9. PICK cmd, v : cmd = "GET_PDR" /\ v = PdrValue(Asked)
      OBVIOUS
    <3>1. /\ c = card /\ cmd = "GET_PDR" /\ v = PdrValue(Asked)
          /\ can = PdrExists(Asked) /\ ok = o.got.ok
      BY <3>8, <3>9
    <3>2. Command(c, cmd, v, o, ok) /\ o \in Outcomes(c, cmd, can, v)
          /\ cmd \notin {"GETTYPES", "SET_ENDPOINT_ID", "MULTIPART_RECEIVE"}
      BY <1>2, <3>1 DEF Command, Executed
    <3>3. SessionTypeInv /\ AllWellFormed
      BY <1>1, WellFormedBefore DEF SessionInv, BeforeTransfer
    <3>4. AllWellFormed'
      BY <3>2, <3>3, CommandFrame
    <3>5. \A d \in Cards : WellFormed(outbox[d])'
      BY <3>4 DEF AllWellFormed
    <3>6. card' = c
      BY <1>1, <3>1
    <3> QED
      BY <3>5, <3>6 DEF WellFormed, IsSequence, Plain
  <2>4. RequestInv'
    BY <1>1, <2>1, <2>2, <2>3 DEF RequestInv
  <2> QED
    BY <1>1, <1>5, <2>1, <2>4 DEF FileInv
<1> QED
  BY <1>4, <1>5

(* The steps of the session that are neither of the transfer nor GetPdr.   *)
LEMMA OtherKeepsFile ==
  ASSUME SessionInv, SessionInv', FileInv, SessionNext,
         ~(GetPdr \/ SendFileCommand \/ ReadPacketFails \/ ReadPacket \/ SaveFile)
  PROVE  FileInv'
<1>1. fileSize \in Nat /\ WhereInv /\ WhereInv'
      /\ (where \in {"init", "dispatch", "joining", "repository", "pdr", "sensor",
                     "fru metadata"} => bytes = <<>> /\ fileRet = TRUE)
  BY DEF FileInv, SessionInv
<1>2. CASE SessionOpenFails \/ InitCommand
  <2>1. where = "init" /\ UNCHANGED <<operation, bytes, rx, fileRet, fileSize>>
    BY <1>2 DEF SessionOpenFails, InitCommand, client
  <2>2. where' \in {"init", "dispatch", "ended"}
    BY <1>2, <2>1 DEF SessionOpenFails, InitCommand, InitCommandOk, InitCommandFailed, Exit
  <2> QED
    BY <1>1, <2>1, <2>2, ElsewhereKeepsFile DEF WhereInv
<1>3. CASE Dispatch
  <2>1. where = "dispatch" /\ UNCHANGED <<bytes, rx, fileRet>>
    BY <1>3 DEF Dispatch
  <2>2. /\ fileSize' \in FileSizes \cup {fileSize}
        /\ \/ where' \in {"repository", "fru metadata"}
           \/ where' = "ended" /\ exitCode' = "error"
    BY <1>3 DEF Dispatch, StartOperation, Exit
  <2> QED
    BY <1>1, <2>1, <2>2, ElsewhereKeepsFile, AmcSessionAssumption
<1>4. CASE StartReset
  <2>1. where = "dispatch" /\ UNCHANGED <<bytes, rx, fileRet, fileSize>>
    BY <1>4 DEF StartReset
  <2>2. where' \in {"joining", "ended"} /\ operation'.op = "reset"
    BY <1>4 DEF StartReset, Exit
  <2> QED
    BY <1>1, <2>1, <2>2, ElsewhereKeepsFile
<1>5. CASE \E c \in Cards : ResetWorker(c)
  <2>1. where = "joining" /\ UNCHANGED <<operation, where, bytes, rx, fileRet, fileSize>>
    BY <1>5 DEF ResetWorker, SessionInv, WorkerInv
  <2> QED
    BY <1>1, <2>1, ElsewhereKeepsFile
<1>6. CASE JoinWorkers
  <2>1. where = "joining" /\ where' = "ended"
        /\ UNCHANGED <<operation, bytes, rx, fileRet, fileSize>>
    BY <1>6 DEF JoinWorkers, Exit, client
  <2> QED
    BY <1>1, <2>1, ElsewhereKeepsFile DEF WhereInv
<1>7. CASE GetRepositoryInfo
  <2>1. where = "repository" /\ UNCHANGED <<bytes, rx, fileRet, fileSize>>
    BY <1>7 DEF GetRepositoryInfo, session
  <2>2. where' = "pdr" \/ (where' = "ended" /\ exitCode' = "error")
    BY <1>7 DEF GetRepositoryInfo, Exit
  <2> QED
    BY <1>1, <2>1, <2>2, ElsewhereKeepsFile
<1>8. CASE GetSensorReading
  <2>1. where = "sensor" /\ where' = "ended"
        /\ UNCHANGED <<operation, bytes, rx, fileRet, fileSize>>
    BY <1>8 DEF GetSensorReading, session, Exit
  <2> QED
    BY <1>1, <2>1, ElsewhereKeepsFile DEF WhereInv
<1>9. CASE GetFruMetadata \/ GetFruTable
  <2>1. where \in {"fru metadata", "fru table"} /\ UNCHANGED <<operation, rx, fileSize>>
    BY <1>9 DEF GetFruMetadata, GetFruTable
  <2>2. where' \in {"fru table", "ended"}
    BY <1>9 DEF GetFruMetadata, GetFruTable, Exit
  <2> QED
    BY <1>1, <2>1, <2>2, ElsewhereKeepsFile DEF WhereInv
<1> QED
  BY <1>2, <1>3, <1>4, <1>5, <1>6, <1>7, <1>8, <1>9 DEF SessionNext

LEMMA SessionStepKeepsFile ==
  ASSUME SessionInv, FileInv, [AmcNext]_amcVars
  PROVE  FileInv'
<1>1. SessionInv'
  BY SessionStepKeepsInv
<1>2. CASE SessionNext
  <2>1. CASE GetPdr
    BY <2>1, GetPdrKeepsFile
  <2>2. CASE SendFileCommand
    BY <2>2, SendKeepsFile
  <2>3. CASE ReadPacketFails
    BY <2>3, ReadFailsKeepsFile
  <2>4. CASE ReadPacket
    <3>1. rx.cmd \in {"DF_OPEN", "MULTIPART_RECEIVE", "DF_CLOSE"}
      BY <2>4 DEF ReadPacket, FileInv, RequestInv
    <3> QED
      BY <2>4, <3>1, OpenReadKeepsFile, MultipartReadKeepsFile, CloseReadKeepsFile
  <2>5. CASE SaveFile
    BY <2>5, SaveKeepsFile
  <2> QED
    BY <1>1, <1>2, <2>1, <2>2, <2>3, <2>4, <2>5, OtherKeepsFile
<1>3. CASE StartUpdate
  <2>1. where' = "updating" /\ UNCHANGED <<bytes, rx, fileRet, fileSize>>
    BY <1>3 DEF StartUpdate
  <2> QED
    BY <2>1, ElsewhereKeepsFile DEF FileInv
<1>4. CASE UNCHANGED sessionVars
  BY <1>4, UnchangedKeepsFile
<1> QED
  BY <1>2, <1>3, <1>4 DEF AmcNext, SessionStep, UpdateStep, Ended, amcVars

-----------------------------------------------------------------------------
(* Sessions in which nothing fails *)

LEMMA CleanOutcome ==
  ASSUME NEW c, IsSequence(outbox[c]), NEW cmd, NEW can \in BOOLEAN, NEW v,
         NEW o \in Outcomes(c, cmd, can, v), o.cost = 0, ~o.stale
  PROVE  o.box = <<>>
<1>1. CASE o = WriteFailure(c)
  BY <1>1 DEF WriteFailure
<1>2. CASE ReadFails(c, cmd, v, o)
  BY <1>2 DEF ReadFails, ReadFailure
<1>3. CASE ReadsOldest(c, cmd, can, v, o)
  <2>1. PICK ok \in BOOLEAN, old \in {outbox[c], <<>>} :
          o = ReadOf(old, Response(c, cmd, ok, v), IF ok \/ ~can THEN 0 ELSE 1)
    BY <1>3 DEF ReadsOldest
  <2> DEFINE m == Response(c, cmd, ok, v)
  <2>2. o.box = Tail(Append(old, m))
    BY <2>1 DEF ReadOf
  <2>3. o.stale = (old # <<>>)
    BY <2>1 DEF ReadOf
  <2>4. old = <<>>
    BY <2>3
  <2> HIDE DEF m
  <2> QED
    BY <2>2, <2>4, RotatedQueue
<1> QED
  BY <1>1, <1>2, <1>3, OutcomeCases

(* A command that is neither of the transfer nor followed by it.           *)
LEMMA ElsewhereKeepsClean ==
  ASSUME SessionInv, CleanInv, where \notin {"send", "read", "save", "ended"},
         \A c \in Cards : ctl'[c].open = ctl[c].open, where' \notin {"send", "read"},
         card' \in Cards
  PROVE  CleanInv'
  BY DEF CleanInv

LEMMA UnchangedKeepsClean == CleanInv /\ UNCHANGED sessionVars => CleanInv'
<1> SUFFICES ASSUME CleanInv, UNCHANGED sessionVars PROVE CleanInv'
  OBVIOUS
<1>1. UNCHANGED <<where, operation, card, ctl, outbox, fileSize, bytes, rx, fileRet,
                  faults, misread>>
  BY DEF sessionVars, client, external
<1>2. PartLength' = PartLength /\ LastOfPart' = LastOfPart /\ PartField' = PartField
  BY <1>1 DEF LastOfPart, PartField, PartLength, PartLast
<1>3. CleanRead' = CleanRead
  BY <1>1, <1>2 DEF CleanRead, Fresh, PartOf
<1> QED
  BY <1>1, <1>3 DEF CleanInv

(* Commands leave the files of the AMCs alone.                             *)
LEMMA CommandKeepsClean ==
  ASSUME SessionInv, CleanInv, BeforeTransfer, NEW c \in Cards, NEW cmd,
         cmd \notin {"GETTYPES", "SET_ENDPOINT_ID", "MULTIPART_RECEIVE"},
         NEW can \in BOOLEAN, NEW v, NEW v2, NEW o \in Outcomes(c, cmd, can, v), NEW ok,
         Command(c, cmd, v2, o, ok), card' \in Cards, where' # "read",
         where' = "send" => c = card /\ card' = card /\ fileRet' = TRUE
  PROVE  CleanInv'
<1>1. SessionTypeInv /\ AllWellFormed
  BY WellFormedBefore DEF SessionInv
<1>2. Command(c, cmd, v, o, ok)
  BY DEF Command, Executed
<1>3. /\ \A d \in Cards : ctl'[d].open = ctl[d].open
      /\ outbox'[c] = o.box /\ faults' = faults + o.cost
      /\ misread' = (misread \/ o.stale)
  <2>1. \A d \in Cards : ctl'[d].open = ctl[d].open
    BY <1>1, <1>2, CommandFrame
  <2>2. outbox'[c] = o.box
    BY <1>1, <1>2, CommandFrame
  <2> QED
    BY <2>1, <2>2, <1>2 DEF Command
<1>4. where \notin {"send", "read", "save", "ended"}
  BY DEF BeforeTransfer
<1>5. CASE where' # "send"
  BY <1>3, <1>4, <1>5, ElsewhereKeepsClean
<1>6. CASE where' = "send"
  <2>1. ASSUME faults' = 0, ~misread' PROVE outbox'[card'] = <<>>
    <3>1. o.cost = 0 /\ ~o.stale
      <4>1. o.cost \in {0, 1, 2}
        BY OutcomeCost
      <4>2. faults \in Nat
        BY <1>1, AmcSessionAssumption DEF SessionTypeInv
      <4>3. o.cost = 0
        BY <1>3, <2>1, <4>1, <4>2
      <4>4. ~o.stale
        BY <1>3, <2>1
      <4> QED
        BY <4>3, <4>4
    <3>2. IsSequence(outbox[c])
      BY <1>1 DEF AllWellFormed, WellFormed
    <3> QED
      BY <1>3, <1>6, <3>1, <3>2, CleanOutcome
  <2> QED
    BY <1>6, <2>1 DEF CleanInv
<1> QED
  BY <1>5, <1>6

LEMMA OneResponseKeepsClean ==
  SessionInv /\ FileInv /\ CleanInv /\ OneResponse => CleanInv'
<1> SUFFICES ASSUME SessionInv, FileInv, CleanInv, OneResponse PROVE CleanInv'
  OBVIOUS
<1>1. card \in Cards
  BY DEF SessionInv, SessionTypeInv
<1>2. CASE GetRepositoryInfo
  <2>1. PICK o \in Outcomes(card, "GET_PDR_REPOSITORY_INFO", TRUE, Len(Repository)),
             n \in 0..Len(Repository) :
          /\ Command(card, "GET_PDR_REPOSITORY_INFO", 0, o, n > 0)
          /\ where' = "pdr" \/ Exit("error")
    BY <1>2 DEF GetRepositoryInfo
  <2>2. where = "repository" /\ where' \in {"pdr", "ended"} /\ card' = card
    BY <1>2, <2>1 DEF GetRepositoryInfo, session, Exit
  <2>3. PICK c, can, ok :
          /\ c \in Cards /\ can \in BOOLEAN
          /\ c = card /\ can = TRUE /\ ok = (n > 0)
    BY <1>1
  <2> QED
    BY <1>1, <2>1, <2>2, <2>3, CommandKeepsClean DEF BeforeTransfer
<1>3. CASE GetPdr
  <2>1. PICK o \in Outcomes(card, "GET_PDR", PdrExists(Asked), PdrValue(Asked)) :
          Command(card, "GET_PDR", 0, o, o.got.ok)
    BY <1>3 DEF GetPdr
  <2>2. where = "pdr" /\ card' = card /\ fileRet' = TRUE
    BY <1>3 DEF GetPdr, FileInv
  <2>3. where' # "read"
    BY <1>3, <2>2 DEF GetPdr, AfterPdrs, Exit
  <2>4. PICK c, can, ok :
          /\ c \in Cards /\ can \in BOOLEAN
          /\ c = card /\ can = PdrExists(Asked) /\ ok = o.got.ok
    BY <1>1 DEF PdrExists
  <2> QED
    BY <1>1, <2>1, <2>2, <2>3, <2>4, CommandKeepsClean DEF BeforeTransfer
<1>4. CASE GetSensorReading
  <2>1. PICK o \in Outcomes(card, "GET_SENSOR_READING", TRUE, operation.item) :
          Command(card, "GET_SENSOR_READING", 0, o, o.got.ok)
    BY <1>4 DEF GetSensorReading
  <2>2. where = "sensor" /\ where' = "ended" /\ card' = card
    BY <1>4 DEF GetSensorReading, session, Exit
  <2>3. PICK c, can, ok :
          /\ c \in Cards /\ can \in BOOLEAN
          /\ c = card /\ can = TRUE /\ ok = o.got.ok
    BY <1>1
  <2> QED
    BY <1>1, <2>1, <2>2, <2>3, CommandKeepsClean DEF BeforeTransfer
<1>5. CASE GetFruMetadata
  <2>1. PICK o \in Outcomes(card, "GET_FRU_RECORD_TABLE_METADATA", TRUE, FruParts) :
          Command(card, "GET_FRU_RECORD_TABLE_METADATA", 0, o, o.got.ok)
    BY <1>5 DEF GetFruMetadata
  <2>2. where = "fru metadata" /\ where' \in {"fru table", "ended"} /\ card' = card
    BY <1>5 DEF GetFruMetadata, Exit
  <2>3. PICK c, can, ok :
          /\ c \in Cards /\ can \in BOOLEAN
          /\ c = card /\ can = TRUE /\ ok = o.got.ok
    BY <1>1
  <2> QED
    BY <1>1, <2>1, <2>2, <2>3, CommandKeepsClean DEF BeforeTransfer
<1>6. CASE GetFruTable
  <2>1. PICK v, o :
          /\ o \in Outcomes(card, "GET_FRU_RECORD_TABLE", fru.handle \in 1..FruParts, v)
          /\ Command(card, "GET_FRU_RECORD_TABLE", 0, o, o.got.ok)
    BY <1>6 DEF GetFruTable
  <2>2. where = "fru table" /\ where' \in {"fru table", "ended"} /\ card' = card
    BY <1>6 DEF GetFruTable, Exit
  <2>3. PICK c, can, ok :
          /\ c \in Cards /\ can \in BOOLEAN
          /\ c = card /\ can = (fru.handle \in 1..FruParts) /\ ok = o.got.ok
    <3>1. CASE fru.handle \in 1..FruParts
      BY <1>1, <3>1
    <3>2. CASE fru.handle \notin 1..FruParts
      <4>1. (fru.handle \in 1..FruParts) = FALSE
        BY <3>2
      <4> QED
        BY <1>1, <4>1
    <3> QED
      BY <3>1, <3>2
  <2> QED
    BY <1>1, <2>1, <2>2, <2>3, CommandKeepsClean DEF BeforeTransfer
<1> QED
  BY <1>2, <1>3, <1>4, <1>5, <1>6 DEF OneResponse

(* The steps of the session that are neither such a command nor of the     *)
(* transfer.                                                               *)
LEMMA OtherKeepsClean ==
  ASSUME SessionInv, SessionInv', FileInv, CleanInv, SessionNext,
         ~(OneResponse \/ SendFileCommand \/ ReadPacketFails \/ ReadPacket)
  PROVE  CleanInv'
<1>1. card \in Cards /\ card' \in Cards
      /\ ctl \in [Cards -> [eid : 0..RetryCount, open : BOOLEAN, reset : BOOLEAN]]
  BY DEF SessionInv, SessionTypeInv
<1>2. CASE SessionOpenFails
  <2>1. where = "init" /\ where' = "ended" /\ UNCHANGED ctl
    BY <1>2 DEF SessionOpenFails, Exit, external
  <2> QED
    BY <1>1, <2>1, ElsewhereKeepsClean
<1>3. CASE InitCommand
  <2>1. PICK c, cmd, v :
          /\ c \in Cards
          /\ c = card /\ cmd = initCommands(types)[cmdNo]
          /\ v = InitValue(cmd)
    BY <1>1
  <2>2. PICK o \in Outcomes(c, cmd, TRUE, v) :
          /\ Command(c, cmd, v, o, o.got.ok)
          /\ InitCommandOk(cmd, o.got) \/ InitCommandFailed(cmd)
    BY <1>3, <2>1 DEF InitCommand
  <2>3. where = "init" /\ where' \in {"init", "dispatch", "ended"}
    BY <1>3, <2>2 DEF InitCommand, InitCommandOk, InitCommandFailed, Exit
  <2>4. \A d \in Cards : ctl'[d].open = ctl[d].open
    BY <1>1, <2>2 DEF Command, Executed
  <2> QED
    BY <1>1, <2>3, <2>4, ElsewhereKeepsClean
<1>4. CASE Dispatch
  <2>1. where = "dispatch" /\ where' \in {"repository", "fru metadata", "ended"}
        /\ UNCHANGED ctl
    BY <1>4 DEF Dispatch, StartOperation, Exit, external
  <2> QED
    BY <1>1, <2>1, ElsewhereKeepsClean
<1>5. CASE StartReset
  <2>1. where = "dispatch" /\ where' \in {"joining", "ended"} /\ UNCHANGED ctl
    BY <1>5 DEF StartReset, Exit, external
  <2> QED
    BY <1>1, <2>1, ElsewhereKeepsClean
<1>6. CASE \E c \in Cards : ResetWorker(c)
  <2>1. PICK c \in Cards : ResetWorker(c)
    BY <1>6
  <2>2. where = "joining" /\ where' = where
    BY <2>1 DEF ResetWorker, SessionInv, WorkerInv
  <2>3. PICK o, ok : Command(c, "SET_STATE_EFFECTER_STATES", 0, o, ok)
    BY <2>1 DEF ResetWorker
  <2>4. \A d \in Cards : ctl'[d].open = ctl[d].open
    BY <1>1, <2>3 DEF Command, Executed
  <2> QED
    BY <1>1, <2>2, <2>4, ElsewhereKeepsClean
<1>7. CASE JoinWorkers
  <2>1. where = "joining" /\ where' = "ended" /\ UNCHANGED ctl
    BY <1>7 DEF JoinWorkers, Exit, external
  <2> QED
    BY <1>1, <2>1, ElsewhereKeepsClean
<1>8. CASE SaveFile
  <2>1. WholeFile /\ where' = "ended" /\ UNCHANGED <<ctl, card>>
    BY <1>8 DEF SaveFile, Exit, external, FileInv
  <2> QED
    BY <2>1 DEF CleanInv, WholeFile
<1> QED
  BY <1>2, <1>3, <1>4, <1>5, <1>6, <1>7, <1>8 DEF SessionNext, OneResponse

(* A read fails only for a fault: there is a packet to read.               *)
LEMMA PacketToRead ==
  ASSUME SessionInv, FileInv, where = "read", CleanRead
  PROVE  outbox[card] # <<>>
<1>1. RequestInv /\ PartOfFile /\ RxInv /\ (rx.cmd = "MULTIPART_RECEIVE" => PartInv)
  BY PartBounds DEF FileInv, RequestInv
<1>2. LastOfPart \in Nat
  BY <1>1 DEF PartOfFile
<1>3. Len(outbox[card]) > 0
  <2>1. CASE rx.cmd # "MULTIPART_RECEIVE"
    BY <2>1 DEF CleanRead
  <2>2. CASE rx.cmd = "MULTIPART_RECEIVE" /\ rx.som
    <3>1. Len(rx.bytes) \in Nat
      BY <1>1, <2>2 DEF PartInv, ReadSoFar, IsSequence
    <3>2. Len(outbox[card]) = LastOfPart - Len(rx.bytes) /\ Len(rx.bytes) < LastOfPart
      BY <2>2 DEF CleanRead
    <3> QED
      BY <1>2, <3>1, <3>2
  <2>3. CASE rx.cmd = "MULTIPART_RECEIVE" /\ ~rx.som
    BY <1>2, <2>3 DEF CleanRead
  <2> QED
    BY <2>1, <2>2, <2>3
<1> QED
  BY <1>3, EmptySequence

(* In the transfer only the second part of the invariant says something.   *)
LEMMA TransferKeepsClean ==
  ASSUME where' \in {"send", "read", "save", "ended"},
         faults' = 0 /\ ~misread' =>
           /\ where' = "send" => outbox'[card'] = <<>> /\ fileRet' = TRUE
           /\ where' = "read" => CleanRead'
           /\ where' = "ended" => ~ctl'[card'].open
  PROVE  CleanInv'
  BY DEF CleanInv

LEMMA ReadFailsKeepsClean ==
  ASSUME SessionInv, FileInv, CleanInv, ReadPacketFails
  PROVE  CleanInv'
<1>1. where = "read" /\ UNCHANGED misread
  BY DEF ReadPacketFails
<1>2. faults \in Nat
  BY AmcSessionAssumption DEF SessionInv, SessionTypeInv
<1>3. where' \in {"send", "read", "ended"}
  BY <1>1, WhereOfFailure DEF ReadPacketFails
<1>4. ~(faults' = 0 /\ ~misread')
  <2> SUFFICES ASSUME faults' = 0, ~misread' PROVE FALSE
    OBVIOUS
  <2>1. faults' = faults \/ faults' = faults + 1
    BY DEF ReadPacketFails
  <2>2. faults = 0 /\ ~misread /\ UNCHANGED faults
    BY <1>1, <1>2, <2>1
  <2>3. outbox[card] # <<>>
    BY <1>1, <2>2, PacketToRead DEF CleanInv
  <2> QED
    BY <1>2, <2>2, <2>3 DEF ReadPacketFails
<1> QED
  BY <1>3, <1>4, TransferKeepsClean

LEMMA SendKeepsClean ==
  ASSUME SessionInv, FileInv, CleanInv, SendFileCommand
  PROVE  CleanInv'
<1>1. where = "send" /\ UNCHANGED <<transfer, bytes, misread>>
  BY DEF SendFileCommand
<1>2. /\ card \in Cards /\ outbox = [d \in Cards |-> outbox[d]] /\ faults \in Nat
      /\ ctl \in [Cards -> [eid : 0..RetryCount, open : BOOLEAN, reset : BOOLEAN]]
  BY AmcSessionAssumption DEF SessionInv, SessionTypeInv
<1>3. RequestInv /\ PartOfFile /\ UNCHANGED <<fileSize, card, bytes>>
  BY <1>1, PartBounds DEF FileInv, RequestInv, transfer
<1>4. CASE /\ faults < MaxFaults /\ faults' = faults + 1
           /\ FileCommandFailed(rx.cmd)
  <2>1. faults' # 0
    BY <1>2, <1>4
  <2>2. where' \in {"send", "ended"}
    BY <1>4, WhereOfFailure
  <2> QED
    BY <2>1, <2>2, TransferKeepsClean
<1>5. ASSUME NEW ok \in BOOLEAN, NEW old \in {outbox[card], <<>>},
             faults' = IF ok THEN faults ELSE faults + 1,
             outbox' = [outbox EXCEPT ![card] =
                          old \o Packets(Request(rx.cmd, InstanceId(card), ok))],
             ctl' = [ctl EXCEPT ![card] = IF ok THEN FileExecuted(rx.cmd, @) ELSE @],
             where' = "read", rx' = [NoRx EXCEPT !.cmd = rx.cmd], UNCHANGED fileRet
      PROVE  CleanInv'
  <2>1. ASSUME faults' = 0, ~misread' PROVE CleanRead'
    <3>1. ok /\ old = <<>> /\ fileRet = TRUE
      <4>1. ok /\ faults = 0
        BY <1>2, <1>5, <2>1
      <4> QED
        BY <1>1, <1>5, <2>1, <4>1 DEF CleanInv
    <3>2. PICK ps : ps = Packets(Request(rx.cmd, InstanceId(card), ok))
      OBVIOUS
    <3>3. PICK r : r = old \o ps
      OBVIOUS
    <3>4. IsSequence(ps)
      BY <1>3, <3>2, PacketsOfPart, PacketsOfOther
    <3>5. Len(ps) \in Nat /\ Len(r) = Len(ps) /\ \A i \in 1..Len(ps) : r[i] = ps[i]
      <4>1. /\ Len(r) = Len(old) + Len(ps)
            /\ \A i \in 1..Len(ps) : r[Len(old) + i] = ps[i]
        BY <3>1, <3>3, <3>4, EmptySequence, ConcatOfSequences
      <4>2. Len(old) = 0 /\ Len(ps) \in Nat
        BY <3>1, <3>4, EmptySequence, LenOfSequence
      <4> QED
        BY <4>1, <4>2
    <3>6. outbox'[card'] = r /\ rx'.cmd = rx.cmd /\ rx'.som = FALSE
      BY <1>2, <1>3, <1>5, <3>2, <3>3 DEF NoRx
    <3>7. CASE rx.cmd # "MULTIPART_RECEIVE"
      <4>4. /\ Len(ps) = 1 /\ ps[1].som /\ ps[1].eom /\ ps[1].hdr.cmd = rx.cmd
            /\ ps[1].hdr.ok = ok
        BY <3>2, <3>7, PacketsOfOther DEF Request
      <4>1. /\ Len(ps) = 1 /\ ps[1].som /\ ps[1].eom /\ ps[1].hdr.cmd = rx.cmd
            /\ ps[1].hdr.ok
        BY <3>1, <4>4
      <4>2. Len(r) = 1 /\ r[1] = ps[1]
        BY <3>5, <4>1
      <4>3. rx.cmd = "DF_CLOSE" => ~ctl'[card'].open
        BY <1>2, <1>3, <1>5, <3>1 DEF FileExecuted
      <4> QED
        BY <1>5, <3>1, <3>6, <3>7, <4>1, <4>2, <4>3 DEF CleanRead
    <3>8. CASE rx.cmd = "MULTIPART_RECEIVE"
      <4>6. /\ Len(ps) = IF ok THEN LastOfPart ELSE 1
            /\ \A i \in 1..Len(ps) : /\ Fresh(ps[i]) /\ ps[i].byte = Len(bytes) + i
                                     /\ ps[i].som => ps[i].hdr.ok = ok
        BY <1>3, <3>2, <3>8, PacketsOfPart
      <4>1. /\ Len(ps) = LastOfPart
            /\ \A i \in 1..Len(ps) : /\ Fresh(ps[i]) /\ ps[i].byte = Len(bytes) + i
                                     /\ ps[i].som => ps[i].hdr.ok = ok
        BY <3>1, <4>6
      <4>2. LastOfPart' = LastOfPart /\ \A p : PartOf(p)' = PartOf(p)
        BY <1>3, FreshKept
      <4>3. ASSUME NEW i \in 1..Len(r)
            PROVE  Fresh(r[i])' /\ PartOf(r[i])' = i /\ (r[i].som => r[i].hdr.ok)
        <5>1. r[i] = ps[i] /\ Fresh(ps[i]) /\ ps[i].byte = Len(bytes) + i
              /\ (ps[i].som => ps[i].hdr.ok)
          BY <3>1, <3>5, <4>1
        <5>2. PartOf(ps[i]) = i
          BY <1>3, <5>1 DEF PartOf, PartOfFile
        <5>3. Fresh(r[i])'
          BY <1>3, <5>1, FreshKept
        <5> QED
          BY <4>2, <5>1, <5>2, <5>3
      <4>4. LastOfPart \in Nat \ {0}
        BY <1>3 DEF PartOfFile
      <4>5. LastOfPart' - 0 = Len(r) /\ 0 < LastOfPart' /\ \A i \in 1..Len(r) : 0 + i = i
        BY <3>5, <4>1, <4>2, <4>4
      <4>7. /\ Len(outbox'[card']) = LastOfPart' - 0 /\ 0 < LastOfPart'
            /\ \A i \in 1..Len(outbox'[card']) :
                 /\ Fresh(outbox[card][i])' /\ PartOf(outbox[card][i])' = 0 + i
                 /\ outbox'[card'][i].som => outbox'[card'][i].hdr.ok
        BY <3>6, <4>3, <4>5 DEF Fresh, PartOf
      <4>8. fileRet' = TRUE
        BY <1>5, <3>1
      <4> QED
        BY <3>6, <3>8, <4>7, <4>8 DEF CleanRead
    <3> QED
      BY <3>7, <3>8
  <2> QED
    BY <1>5, <2>1, TransferKeepsClean
<1> QED
  BY <1>4, <1>5 DEF SendFileCommand, Request, PartField

LEMMA TailOfOne ==
  ASSUME NEW q, IsSequence(q), q # <<>>, Len(q) = 1
  PROVE  Tail(q) = <<>>
<1>1. IsSequence(Tail(q)) /\ Len(Tail(q)) = 0
  BY TailOfSequence
<1> QED
  BY <1>1, TailOfSequence

(* What is known of a read without a fault, once the packet is taken.      *)
LEMMA CleanTake ==
  ASSUME SessionInv, FileInv, CleanInv, ReadPacket, faults' = 0, ~misread'
  PROVE  /\ CleanRead /\ IsSequence(outbox[card]) /\ outbox[card] # <<>>
         /\ Len(outbox[card]) \in Nat \ {0}
         /\ outbox'[card'] = Tail(outbox[card])
<1>1. where = "read" /\ outbox[card] # <<>> /\ UNCHANGED <<transfer, ctl>>
      /\ (misread' = (misread \/ Head(outbox[card]).hdr.cmd \notin {rx.cmd, "none"}))
  BY DEF ReadPacket
<1>2. card \in Cards /\ faults \in Nat /\ IsSequence(outbox[card])
      /\ outbox = [d \in Cards |-> outbox[d]]
  BY AmcSessionAssumption DEF SessionInv, SessionTypeInv, OutboxInv
<1>3. ~misread
  BY <1>1
<1>4. \/ outbox' = [outbox EXCEPT ![card] = Tail(@)] /\ UNCHANGED faults
      \/ faults' = faults + 1
  BY DEF ReadPacket
<1>5. faults = 0 /\ outbox' = [outbox EXCEPT ![card] = Tail(@)]
  BY <1>2, <1>4
<1>6. CleanRead
  BY <1>1, <1>3, <1>5 DEF CleanInv
<1>7. card' = card
  BY <1>1 DEF transfer
<1> QED
  BY <1>1, <1>2, <1>5, <1>6, <1>7, TailOfSequence

LEMMA WholeReadKeepsClean ==
  ASSUME SessionInv, FileInv, CleanInv, ReadPacket, rx.cmd # "MULTIPART_RECEIVE"
  PROVE  CleanInv'
<1>1. where = "read" /\ UNCHANGED <<transfer, ctl>> /\ RequestInv
  BY DEF ReadPacket, FileInv
<1>2. where' \in {"send", "read", "save", "ended"}
  BY <1>1, WhereOfFailure, WhereOfComplete DEF ReadPacket
<1>3. ASSUME faults' = 0, ~misread'
      PROVE  /\ where' = "send" => outbox'[card'] = <<>> /\ fileRet' = TRUE
             /\ where' = "read" => CleanRead'
             /\ where' = "ended" => ~ctl'[card'].open
  <2>1. PICK q : q = outbox[card]
    OBVIOUS
  <2>2. /\ CleanRead /\ IsSequence(q) /\ q # <<>> /\ Len(q) \in Nat \ {0}
        /\ outbox'[card'] = Tail(q)
    BY <1>3, <2>1, CleanTake
  <2> DEFINE p == q[1]
  <2>3. Head(q) = p
    BY <2>2, TailOfSequence
  <2>4. Len(q) = 1 /\ p.som /\ p.eom /\ p.hdr.cmd = rx.cmd /\ p.hdr.ok /\ fileRet = TRUE
    BY <2>1, <2>2 DEF CleanRead
  <2>5. outbox'[card'] = <<>>
    BY <2>2, <2>4, TailOfOne
  <2> HIDE DEF p
  <2>6. Complete(p.hdr, <<p.byte>>)
    BY <2>1, <2>3, <2>4 DEF ReadPacket
  <2>7. ResponseOk(p.hdr, <<p.byte>>)
    BY <2>4 DEF ResponseOk, SameCode
  <2>8. AfterResponse(p.hdr, <<p.byte>>) /\ UNCHANGED fileRet
    BY <2>6, <2>7 DEF Complete
  <2>9. where' \in {"send", "save"}
    <3>1. rx.cmd \in {"DF_OPEN", "DF_CLOSE"}
      BY <1>1 DEF RequestInv
    <3> QED
      BY <2>4, <2>8, <3>1 DEF AfterResponse
  <2> QED
    BY <2>4, <2>5, <2>8, <2>9
<1> QED
  BY <1>2, <1>3, TransferKeepsClean

(* A packet of a part is taken, and more follow.                           *)
LEMMA NextPacketKeepsClean ==
  ASSUME UNCHANGED <<bytes, fileSize>>, NEW q, IsSequence(q), Len(q) \in Nat \ {0}, q # <<>>,
         NEW read \in Nat, Len(q) = LastOfPart - read, LastOfPart \in Nat,
         read + 1 < LastOfPart,
         \A i \in 1..Len(q) : /\ Fresh(q[i]) /\ PartOf(q[i]) = read + i
                              /\ q[i].som => q[i].hdr.ok,
         outbox'[card'] = Tail(q), rx'.cmd = "MULTIPART_RECEIVE", rx'.som,
         rx'.som \in BOOLEAN,
         Len(rx'.bytes) = read + 1, rx'.seq = (read + 1) % 4, fileRet' = TRUE
  PROVE  CleanRead'
<1> DEFINE t == Tail(q)
<1>1. Len(t) = Len(q) - 1 /\ \A i \in 1..Len(t) : t[i] = q[i + 1]
  BY TailOfSequence
<1> HIDE DEF t
<1>2. LastOfPart' = LastOfPart /\ \A p : PartOf(p)' = PartOf(p)
  BY FreshKept
<1>3. ASSUME NEW i \in 1..Len(t)
      PROVE  Fresh(t[i])' /\ PartOf(t[i])' = read + 1 + i /\ (t[i].som => t[i].hdr.ok)
  <2>1. t[i] = q[i + 1] /\ i + 1 \in 1..Len(q) /\ read + (i + 1) = read + 1 + i
    BY <1>1
  <2>2. Fresh(q[i + 1]) /\ PartOf(q[i + 1]) = read + 1 + i
        /\ (q[i + 1].som => q[i + 1].hdr.ok)
    BY <2>1
  <2>3. Fresh(q[i + 1])'
    BY <2>2, FreshKept
  <2> QED
    BY <1>2, <2>1, <2>2, <2>3
<1>4. Len(outbox'[card']) = LastOfPart' - (read + 1) /\ read + 1 < LastOfPart'
  BY <1>1, <1>2 DEF t
<1>5. \A i \in 1..Len(outbox'[card']) :
        /\ Fresh(outbox[card][i])' /\ PartOf(outbox[card][i])' = read + 1 + i
        /\ outbox'[card'][i].som => outbox'[card'][i].hdr.ok
  <2>1. outbox'[card'] = t
    BY DEF t
  <2> SUFFICES ASSUME NEW i \in 1..Len(t)
               PROVE  /\ Fresh(outbox[card][i])' /\ PartOf(outbox[card][i])' = read + 1 + i
                      /\ outbox'[card'][i].som => outbox'[card'][i].hdr.ok
    BY <2>1
  <2>2. outbox'[card'][i] = t[i]
    BY <2>1
  <2>3. PICK p : p = t[i]
    OBVIOUS
  <2>4. Fresh(p)' /\ PartOf(p)' = read + 1 + i /\ (p.som => p.hdr.ok)
    BY <1>3, <2>3
  <2>5. outbox'[card'][i] = p
    BY <2>2, <2>3
  <2>6. Fresh(outbox[card][i])'
    BY ONLY <2>4, <2>5 DEF Fresh, PartOf
  <2>7. PartOf(outbox[card][i])' = read + 1 + i
    BY ONLY <2>4, <2>5 DEF PartOf
  <2> QED
    BY <2>4, <2>5, <2>6, <2>7
<1> QED
  BY <1>4, <1>5 DEF CleanRead

LEMMA MultipartReadKeepsClean ==
  ASSUME SessionInv, FileInv, CleanInv, ReadPacket, rx.cmd = "MULTIPART_RECEIVE"
  PROVE  CleanInv'
<1>1. where = "read" /\ UNCHANGED <<transfer, ctl>> /\ RequestInv /\ RxInv /\ PartOfFile
      /\ (rx.som => ReadSoFar(outbox[card])) /\ UNCHANGED fileSize
  BY PartBounds DEF ReadPacket, FileInv, RequestInv, PartInv, transfer
<1>2. where' \in {"send", "read", "save", "ended"}
  BY <1>1, WhereOfFailure, WhereOfComplete DEF ReadPacket
<1>3. ASSUME faults' = 0, ~misread'
      PROVE  /\ where' = "send" => outbox'[card'] = <<>> /\ fileRet' = TRUE
             /\ where' = "read" => CleanRead'
             /\ where' = "ended" => ~ctl'[card'].open
  <2>1. PICK q : q = outbox[card]
    OBVIOUS
  <2>2. /\ CleanRead /\ IsSequence(q) /\ q # <<>> /\ Len(q) \in Nat \ {0}
        /\ outbox'[card'] = Tail(q)
    BY <1>3, <2>1, CleanTake
  <2> DEFINE p == q[1]
             got == Append(rx.bytes, p.byte)
  <2>3. Head(q) = p /\ fileRet = TRUE
    BY <2>2, TailOfSequence DEF CleanRead
  <2>4. PICK read \in Nat :
          /\ read = IF rx.som THEN Len(rx.bytes) ELSE 0
          /\ rx.som => read >= 1 /\ IsSequence(rx.bytes)
    <3>1. CASE rx.som
      <4>1. Len(rx.bytes) \in Nat /\ Len(rx.bytes) >= 1 /\ IsSequence(rx.bytes)
        BY <1>1, <3>1 DEF ReadSoFar, IsSequence
      <4> QED
        BY <3>1, <4>1
    <3>2. CASE ~rx.som
      BY <3>2
    <3> QED
      BY <3>1, <3>2
  <2>5. /\ Len(q) = LastOfPart - read /\ read < LastOfPart
        /\ rx.som => rx.seq = read % 4
        /\ \A i \in 1..Len(q) : /\ Fresh(q[i]) /\ PartOf(q[i]) = read + i
                                /\ q[i].som => q[i].hdr.ok
    BY <2>1, <2>2, <2>4 DEF CleanRead
  <2>6. Fresh(p) /\ PartOf(p) = read + 1 /\ (p.som => p.hdr.ok)
    BY <2>2, <2>5
  <2>7. LastOfPart \in Nat /\ PartLength \in Nat /\ LastOfPart >= 1
    BY <1>1, AmcSessionAssumption DEF PartOfFile
  <2> HIDE DEF p, got
  <2>8. \/ p.som /\ p.eom /\ Complete(p.hdr, <<p.byte>>)
        \/ /\ p.som /\ ~p.eom
           /\ rx' = [rx EXCEPT !.retry = 0, !.som = TRUE, !.seq = (p.seq + 1) % 4,
                               !.hdr = p.hdr, !.bytes = <<p.byte>>]
           /\ UNCHANGED <<where, bytes, ids, fileRet, exitCode>>
        \/ /\ ~p.som /\ InSequence(p) /\ ~p.eom
           /\ rx' = [rx EXCEPT !.retry = 0, !.seq = (@ + 1) % 4, !.bytes = got]
           /\ UNCHANGED <<where, bytes, ids, fileRet, exitCode>>
        \/ ~p.som /\ InSequence(p) /\ p.eom /\ Complete(rx.hdr, got)
        \/ ~p.som /\ ~InSequence(p)
    BY <2>1, <2>3 DEF ReadPacket, got
  <2>9. ASSUME NEW hdr, NEW bs, AfterResponse(hdr, bs), UNCHANGED fileRet, Len(q) = 1
        PROVE  where' = "send" /\ outbox'[card'] = <<>> /\ fileRet' = TRUE
    BY <2>2, <2>3, <2>9, TailOfOne DEF AfterResponse
  <2>10. CASE ~rx.som
    <3>1. read = 0 /\ p.som /\ PartOf(p) = 1
      BY <2>4, <2>6, <2>10 DEF Fresh
    <3>2. p.hdr.cmd = "MULTIPART_RECEIVE" /\ p.hdr.ok /\ p.hdr.v = PartField
          /\ (p.eom <=> PartLength <= 1) /\ p.seq = 0
      BY <2>6, <3>1 DEF Fresh
    <3>3. CASE p.eom
      <4>1. Complete(p.hdr, <<p.byte>>)
        BY <2>8, <3>1, <3>3
      <4>2. LastOfPart = 1 /\ Len(q) = 1
        BY <2>5, <3>1, <3>2, <3>3 DEF LastOfPart
      <4>3. p.hdr.v.len = PartLength /\ PartLength <= Len(<<p.byte>>)
        BY <3>2, <3>3 DEF PartField
      <4>4. ResponseOk(p.hdr, <<p.byte>>)
        BY <3>2, <4>3 DEF ResponseOk, SameCode
      <4>5. AfterResponse(p.hdr, <<p.byte>>) /\ UNCHANGED fileRet
        BY <4>1, <4>4 DEF Complete
      <4> DEFINE one == <<p.byte>>
                 hdr == p.hdr
      <4> HIDE DEF one, hdr
      <4>6. AfterResponse(hdr, one)
        BY <4>5 DEF one, hdr
      <4> QED
        BY <2>9, <4>2, <4>5, <4>6
    <3>4. CASE ~p.eom
      <4>1. /\ rx' = [rx EXCEPT !.retry = 0, !.som = TRUE, !.seq = (p.seq + 1) % 4,
                                !.hdr = p.hdr, !.bytes = <<p.byte>>]
            /\ UNCHANGED <<where, bytes, fileRet>>
        BY <2>8, <3>1, <3>4
      <4>2. rx'.cmd = "MULTIPART_RECEIVE" /\ rx'.som /\ rx'.som \in BOOLEAN
            /\ rx'.seq = (p.seq + 1) % 4 /\ rx'.bytes = <<p.byte>>
        BY <1>1, <4>1 DEF RxInv
      <4>3. Len(rx'.bytes) = read + 1 /\ rx'.seq = (read + 1) % 4
        BY <3>1, <3>2, <4>2
      <4>4. read + 1 < LastOfPart
        BY <2>7, <3>1, <3>2, <3>4 DEF LastOfPart
      <4>5. CleanRead'
        BY <1>1, <2>2, <2>3, <2>5, <2>7, <4>1, <4>2, <4>3, <4>4, NextPacketKeepsClean
      <4> QED
        BY <1>1, <4>1, <4>5
    <3> QED
      BY <3>3, <3>4
  <2>11. CASE rx.som
    <3>1. /\ read >= 1 /\ read = Len(rx.bytes) /\ IsSequence(rx.bytes)
          /\ rx.seq = read % 4
      BY <2>4, <2>5, <2>11
    <3>2. LastOfPart = PartLength
      BY <2>5, <2>7, <3>1 DEF LastOfPart
    <3>3. ~p.som /\ p.seq = read % 4 /\ (p.eom <=> read + 1 = PartLength)
      BY <2>6, <3>1 DEF Fresh
    <3>4. InSequence(p)
      BY <2>11, <3>1, <3>3 DEF InSequence
    <3>5. Len(got) = read + 1
      BY <3>1, AppendToSequence DEF got
    <3>6. CASE p.eom
      <4>1. Complete(rx.hdr, got)
        BY <2>8, <3>3, <3>4, <3>6
      <4>2. rx.hdr.cmd = "MULTIPART_RECEIVE" /\ rx.hdr.ok /\ rx.hdr.v = PartField
        BY <1>1, <2>11 DEF ReadSoFar
      <4>3. rx.hdr.v.len <= Len(got)
        BY <2>7, <3>3, <3>5, <3>6, <4>2 DEF PartField
      <4>4. ResponseOk(rx.hdr, got)
        BY <4>2, <4>3 DEF ResponseOk, SameCode
      <4>5. AfterResponse(rx.hdr, got) /\ UNCHANGED fileRet
        BY <4>1, <4>4 DEF Complete
      <4>6. Len(q) = 1
        BY <2>5, <2>7, <3>2, <3>3, <3>6
      <4>7. PICK hdr : hdr = rx.hdr
        OBVIOUS
      <4> QED
        BY <2>9, <4>5, <4>6, <4>7
    <3>7. CASE ~p.eom
      <4>1. /\ rx' = [rx EXCEPT !.retry = 0, !.seq = (@ + 1) % 4, !.bytes = got]
            /\ UNCHANGED <<where, bytes, fileRet>>
        BY <2>8, <3>3, <3>4, <3>7
      <4>2. rx'.cmd = "MULTIPART_RECEIVE" /\ rx'.som /\ rx'.som \in BOOLEAN
            /\ rx'.seq = (rx.seq + 1) % 4 /\ rx'.bytes = got
        BY <1>1, <2>11, <4>1 DEF RxInv
      <4>3. Len(rx'.bytes) = read + 1 /\ rx'.seq = (read + 1) % 4
        <5>1. ((read % 4) + 1) % 4 = (read + 1) % 4
          BY ONLY read \in Nat
        <5>2. rx'.seq = ((read % 4) + 1) % 4
          BY <3>1, <4>2
        <5>3. Len(rx'.bytes) = read + 1
          BY <3>5, <4>2
        <5> QED
          BY ONLY <5>1, <5>2, <5>3
      <4>4. read + 1 < LastOfPart
        BY <2>5, <2>7, <3>2, <3>3, <3>7
      <4>5. CleanRead'
        BY <1>1, <2>2, <2>3, <2>5, <2>7, <4>1, <4>2, <4>3, <4>4, NextPacketKeepsClean
      <4> QED
        BY <1>1, <4>1, <4>5
    <3> QED
      BY <3>6, <3>7
  <2> QED
    BY <2>10, <2>11
<1> QED
  BY <1>2, <1>3, TransferKeepsClean

LEMMA SessionStepKeepsClean ==
  ASSUME SessionInv, FileInv, CleanInv, [AmcNext]_amcVars
  PROVE  CleanInv'
<1>1. SessionInv'
  BY SessionStepKeepsInv
<1>2. CASE SessionNext
  <2>1. CASE OneResponse
    BY <2>1, OneResponseKeepsClean
  <2>2. CASE SendFileCommand
    BY <2>2, SendKeepsClean
  <2>3. CASE ReadPacketFails
    BY <2>3, ReadFailsKeepsClean
  <2>4. CASE ReadPacket
    BY <2>4, WholeReadKeepsClean, MultipartReadKeepsClean
  <2> QED
    BY <1>1, <1>2, <2>1, <2>2, <2>3, <2>4, OtherKeepsClean
<1>3. CASE StartUpdate
  <2>1. where = "dispatch" /\ where' = "updating" /\ UNCHANGED ctl
    BY <1>3 DEF StartUpdate, external
  <2> QED
    BY <2>1 DEF CleanInv
<1>4. CASE UNCHANGED sessionVars
  BY <1>4, UnchangedKeepsClean
<1> QED
  BY <1>2, <1>3, <1>4 DEF AmcNext, SessionStep, UpdateStep, Ended, amcVars

-----------------------------------------------------------------------------
(* What the invariants of the resets and of the file transfer come to *)

LEMMA FileInitInv == AmcInit => FileInv /\ CleanInv
<1> SUFFICES ASSUME AmcInit PROVE FileInv /\ CleanInv
  OBVIOUS
<1>1. /\ where = "init" /\ bytes = <<>> /\ rx = NoRx /\ fileRet = TRUE /\ fileSize = 0
      /\ \A c \in Cards : ~ctl[c].open
  BY DEF AmcInit, SessionInit
<1>2. RxInv
  BY <1>1 DEF RxInv, NoRx
<1> QED
  BY <1>1, <1>2 DEF FileInv, CleanInv

LEMMA SessionAlways == AmcSpec => [](SessionInv /\ FileInv /\ CleanInv)
<1>1. AmcInit => SessionInv /\ FileInv /\ CleanInv
  BY SessionInitInv, FileInitInv
<1>2. SessionInv /\ FileInv /\ CleanInv /\ [AmcNext]_amcVars
        => (SessionInv /\ FileInv /\ CleanInv)'
  BY SessionStepKeepsInv, SessionStepKeepsFile, SessionStepKeepsClean
<1> QED
  BY <1>1, <1>2, PTL DEF AmcSpec

(* "GPU reset successfully completed" is printed only when every selected  *)
(* card has executed the reset (gpuReset(), amcGpuReset()): a response to  *)
(* an earlier request, which has another instance ID, is not accepted.     *)
THEOREM ResetsAreReal == AmcSpec => []ResetIsReal
<1>1. SessionInv => ResetIsReal
  BY DEF SessionInv, WorkerInv
<1> QED
  BY <1>1, SessionAlways, PTL

(* A file that was read (getFile(), rxMultiPartData()) is whole, in order  *)
(* and closed again, whatever packets were lost, repeated or left over,    *)
(* and without a fault it is closed in any case.                           *)
THEOREM FilesAreReadWhole == AmcSpec => []FileReadWhole
<1>1. SessionInv /\ FileInv /\ CleanInv => FileReadWhole
  <2> SUFFICES ASSUME SessionInv, FileInv, CleanInv, operation.op = "file", where = "ended"
               PROVE  /\ exitCode = "success" =>
                           bytes = [i \in 1..fileSize |-> i] /\ ~ctl[card].open
                      /\ ctl[card].open => faults > 0 \/ misread
    BY DEF FileReadWhole
  <2>1. ASSUME exitCode = "success"
        PROVE  bytes = [i \in 1..fileSize |-> i] /\ ~ctl[card].open
    <3>1. WholeFile
      BY <2>1 DEF FileInv
    <3>2. IsSequence(bytes) /\ Len(bytes) = fileSize /\ \A i \in 1..Len(bytes) : bytes[i] = i
      BY <3>1 DEF WholeFile, Prefix
    <3>3. bytes = [i \in 1..fileSize |-> bytes[i]]
      BY <3>2 DEF IsSequence
    <3> QED
      BY <3>1, <3>2, <3>3 DEF WholeFile
  <2>2. ASSUME ctl[card].open PROVE faults > 0 \/ misread
    <3>1. faults \in Nat
      BY AmcSessionAssumption DEF SessionInv, SessionTypeInv
    <3> QED
      BY <2>2, <3>1 DEF CleanInv
  <2> QED
    BY <2>1, <2>2
<1> QED
  BY <1>1, SessionAlways, PTL

-----------------------------------------------------------------------------
(* Answers: the response that is read is the one to the request *)

LEMMA OwnResponse ==
  ASSUME NEW c, IsSequence(outbox[c]), NEW cmd, NEW can \in BOOLEAN, NEW v,
         NEW o \in Outcomes(c, cmd, can, v), o.got.ok, ~o.stale
  PROVE  can /\ o.done /\ o.got.cmd = cmd /\ o.got.v = v
<1>1. PICK ok \in BOOLEAN, old \in {outbox[c], <<>>} :
        /\ ok => can
        /\ o = ReadOf(old, Response(c, cmd, ok, v), IF ok \/ ~can THEN 0 ELSE 1)
  BY OnlyAReadSucceeds DEF ReadsOldest
<1> DEFINE m == Response(c, cmd, ok, v)
<1>2. /\ o.got = Head(Append(old, m)).hdr /\ o.done = m.hdr.ok
      /\ o.stale = (old # <<>>)
  BY <1>1 DEF ReadOf
<1>3. m.hdr.cmd = cmd /\ m.hdr.v = v /\ m.hdr.ok = ok
  BY DEF Response, Single
<1>4. old = <<>>
  BY <1>2
<1> HIDE DEF m
<1>5. Head(Append(old, m)) = m
  BY <1>4, RotatedQueue
<1>6. ok
  BY <1>2, <1>3, <1>5
<1> QED
  BY <1>1, <1>2, <1>3, <1>5, <1>6

(* Without an older response in the way what a command reads is its own.   *)
LEMMA OwnAnswer ==
  ASSUME SessionInv, BeforeTransfer, NEW c \in Cards, NEW cmd, NEW can \in BOOLEAN, NEW v,
         NEW v2, NEW o \in Outcomes(c, cmd, can, v), NEW ok, Command(c, cmd, v2, o, ok),
         ~misread'
  PROVE  ~misread /\ (o.got.ok => can /\ o.done /\ o.got.cmd = cmd /\ o.got.v = v)
<1>1. ~misread /\ ~o.stale
  BY DEF Command
<1>2. IsSequence(outbox[c])
  BY DEF SessionInv, OutboxInv
<1> QED
  BY <1>1, <1>2, OwnResponse

(* The EIDs, once the initialisation is over.                              *)
LEMMA ElsewhereKeepsEid ==
  ASSUME EidInv, where \notin {"init", "ended"}, where' # "init", UNCHANGED destEid,
         \A c \in Cards : ctl'[c].eid = ctl[c].eid, ~misread' => ~misread
  PROVE  EidInv'
<1>1. ~misread' => \A c \in Cards : destEid'[c] = ctl'[c].eid
  BY DEF EidInv, SameEids
<1> QED
  BY <1>1 DEF EidInv, SameEids

LEMMA UnchangedKeepsEid == EidInv /\ UNCHANGED sessionVars => EidInv'
  BY DEF EidInv, SameEids, sessionVars, external

LEMMA InitCommandKeepsEid == SessionInv /\ EidInv /\ InitCommand => EidInv'
<1> SUFFICES ASSUME SessionInv, EidInv, InitCommand, ~misread' PROVE EidInv'
  BY DEF EidInv
<1>1. PICK c \in Cards, cmd \in {initCommands(types)[cmdNo]},
             v \in {InitValue(initCommands(types)[cmdNo])} :
        c = card /\ cmd = initCommands(types)[cmdNo] /\ v = InitValue(cmd)
  BY DEF SessionInv, SessionTypeInv
<1>2. PICK o \in Outcomes(c, cmd, TRUE, v) :
        /\ Command(c, cmd, v, o, o.got.ok)
        /\ \/ o.got.ok /\ InitCommandOk(cmd, o.got)
           \/ ~o.got.ok /\ InitCommandFailed(cmd)
  BY <1>1 DEF InitCommand
<1>3. where = "init" /\ NumCards \in Nat /\ exitCode = "none"
      /\ ctl \in [Cards -> [eid : 0..RetryCount, open : BOOLEAN, reset : BOOLEAN]]
      /\ destEid = [d \in Cards |-> destEid[d]]
  BY AmcSessionAssumption DEF InitCommand, SessionInv, WhereInv, SessionTypeInv
<1>4. /\ types \in {<<>>, SupportedTypes} /\ cmdNo \in 1..Len(initCommands(types))
      /\ cmdNo \in Nat /\ cmdNo >= 1
  BY CommandsInTurn DEF SessionInv, SessionTypeInv
<1>5. /\ cmd = "GET_ENDPOINT_ID" <=> cmdNo = 2
      /\ cmd = "SET_ENDPOINT_ID" <=> cmdNo = 4
  BY <1>1, <1>4, CommandsInTurn
<1>6. PICK can \in BOOLEAN, ok \in {o.got.ok} : can = TRUE /\ ok = o.got.ok
  OBVIOUS
<1>7. ~misread /\ (o.got.ok => o.done /\ o.got.cmd = cmd /\ o.got.v = v)
  <2>1. /\ SessionInv /\ BeforeTransfer /\ o \in Outcomes(c, cmd, can, v)
        /\ Command(c, cmd, v, o, ok) /\ ~misread'
    BY <1>2, <1>3, <1>6 DEF BeforeTransfer
  <2> QED
    BY <2>1, OwnAnswer
<1>8. /\ \A d \in Cards : d < c => SameEids(d)
      /\ \A d \in Cards : d > c \/ (d = c /\ cmdNo <= 2) => destEid[d] = 0
      /\ cmdNo >= 3 /\ cmdNo # 4 => SameEids(c)
      /\ cmdNo = 4 => destEid[c] = 0
  BY <1>1, <1>3, <1>7 DEF EidInv
<1>13. \A d \in Cards : (d < c => d # c) /\ (d > c => d # c) /\ (d <= c => d < c \/ d = c)
  BY <1>3 DEF Cards
<1>9. /\ \A d \in Cards \ {c} : ctl'[d] = ctl[d]
      /\ ctl'[c] = IF o.done THEN Executed(cmd, v, ctl[c]) ELSE ctl[c]
  BY <1>2, <1>3 DEF Command
<1>10. cmdNo # 4 => ctl'[c].eid = ctl[c].eid
  BY <1>3, <1>5, <1>9 DEF Executed
<1>11. CASE ~o.got.ok /\ InitCommandFailed(cmd)
  <2>1. /\ UNCHANGED <<card, cmdNo, destEid>>
        /\ where' = "init" \/ (where' = "ended" /\ exitCode' = "error")
        /\ UNCHANGED exitCode \/ exitCode' = "error"
    BY <1>3, <1>11 DEF InitCommandFailed, Exit
  <2>2. \A d \in Cards : d < c => SameEids(d)'
    BY <1>8, <1>9, <1>13, <2>1 DEF SameEids
  <2>3. cmdNo >= 3 /\ cmdNo # 4 => SameEids(c)'
    BY <1>8, <1>10, <2>1 DEF SameEids
  <2>4. card' = c /\ cmdNo' = cmdNo /\ destEid' = destEid /\ exitCode' # "success"
    BY <1>1, <1>3, <2>1
  <2>5. \A d \in Cards : d = c => (cmdNo >= 3 /\ cmdNo # 4 => SameEids(d)')
    BY <2>3 DEF SameEids
  <2> QED
    BY <1>8, <2>1, <2>2, <2>4, <2>5, <1>3 DEF EidInv, SameEids
<1>12. CASE o.got.ok /\ InitCommandOk(cmd, o.got)
  <2>1. InitResponse(cmd, o.got) /\ o.done /\ o.got.cmd = cmd /\ o.got.v = v
        /\ exitCode' = "none"
    BY <1>3, <1>7, <1>12 DEF InitCommandOk
  <2>2. \A d \in Cards \ {c} : destEid'[d] = destEid[d]
    BY <1>1, <1>3, <2>1 DEF InitResponse
  <2>3. cmdNo \notin {2, 4} => destEid'[c] = destEid[c]
    BY <1>1, <1>5, <2>1 DEF InitResponse
  <2>4. cmdNo \in {2, 4} => destEid'[c] = IF v = 0 /\ cmdNo = 2 THEN destEid[c] ELSE v
    BY <1>1, <1>3, <1>5, <2>1 DEF InitResponse, Fields
  <2>5. cmdNo = 2 => SameEids(c)'
    <3>1. cmdNo = 2 => v = ctl[c].eid /\ destEid[c] = 0
      BY <1>1, <1>5, <1>8 DEF InitValue
    <3> QED
      BY <1>10, <2>4, <3>1 DEF SameEids
  <2>6. cmdNo = 4 => SameEids(c)'
    BY <1>3, <1>5, <1>9, <2>1, <2>4 DEF SameEids, Executed
  <2>7. cmdNo >= 3 /\ cmdNo # 4 => SameEids(c)'
    BY <1>8, <1>10, <2>3 DEF SameEids
  <2>8. \A d \in Cards : d < c => SameEids(d)'
    BY <1>8, <1>9, <1>13, <2>2 DEF SameEids
  <2>9. /\ \A d \in Cards : d > c => destEid'[d] = 0
        /\ cmdNo = 1 => destEid'[c] = 0
    BY <1>8, <1>13, <2>2, <2>3
  <2>10. CASE /\ cmdNo' = FollowingNo(destEid'[card])
              /\ UNCHANGED <<where, card>>
    <3>1. card' = c /\ where' = "init" /\ (cmdNo = 1 => cmdNo' = 2)
          /\ (cmdNo = 2 => cmdNo' = 3)
          /\ (cmdNo = 3 => cmdNo' = 5 \/ (cmdNo' = 4 /\ destEid'[c] = 0))
          /\ (cmdNo >= 4 => cmdNo' = cmdNo + 1)
      BY <1>1, <1>3, <1>4, <2>10 DEF FollowingNo
    <3>2. cmdNo' \in Nat /\ (cmdNo' <= 2 => cmdNo = 1) /\ (cmdNo' = 4 => destEid'[c] = 0)
          /\ (cmdNo' >= 3 => cmdNo >= 2)
      BY <1>4, <3>1
    <3>3. cmdNo' >= 3 => destEid'[c] = ctl'[c].eid
      BY <1>4, <2>5, <2>6, <2>7, <3>2 DEF SameEids
    <3>4. \A d \in Cards : d < c => destEid'[d] = ctl'[d].eid
      BY <2>8 DEF SameEids
    <3>5. \A d \in Cards : d > c \/ (d = c /\ cmdNo' <= 2) => destEid'[d] = 0
      BY <2>9, <3>2
    <3>6. exitCode' # "success"
      BY <2>1
    <3> QED
      BY <3>1, <3>2, <3>3, <3>4, <3>5, <3>6 DEF EidInv, SameEids
  <2>11. CASE /\ cmdNo = Len(initCommands(types')) /\ cmdNo' = 1
              /\ \/ card < NumCards - 1 /\ card' = card + 1 /\ UNCHANGED where
                 \/ card = NumCards - 1 /\ where' = "dispatch" /\ UNCHANGED card
    <3>1. types' \in {<<>>, SupportedTypes}
      <4>1. types' = types \/ (types' = v /\ cmd = "GETTYPES")
        BY <2>1 DEF InitResponse, Fields
      <4> QED
        BY <1>1, <1>4, <4>1 DEF InitValue
    <3>2. cmdNo >= 8
      BY <2>11, <3>1, CommandsInTurn
    <3>3. \A d \in Cards : d <= c => destEid'[d] = ctl'[d].eid
      <4>1. cmdNo >= 3 /\ cmdNo # 4
        BY <1>4, <3>2
      <4>2. destEid'[c] = ctl'[c].eid
        BY <2>7, <4>1 DEF SameEids
      <4>3. \A d \in Cards : d < c => destEid'[d] = ctl'[d].eid
        BY <2>8 DEF SameEids
      <4> QED
        BY <1>13, <4>2, <4>3
    <3>4. CASE card < NumCards - 1 /\ card' = card + 1 /\ UNCHANGED where
      <4>1. \A d \in Cards : (d < c + 1 => d <= c) /\ (d >= c + 1 => d > c)
        BY <1>1, <1>3 DEF Cards
      <4>2. card' = c + 1 /\ where' = "init" /\ cmdNo' = 1 /\ exitCode' # "success"
        BY <1>1, <1>3, <2>1, <2>11, <3>4
      <4>3. \A d \in Cards : d < card' => destEid'[d] = ctl'[d].eid
        BY <3>3, <4>1, <4>2
      <4>4. \A d \in Cards : d > card' \/ d = card' => destEid'[d] = 0
        BY <1>3, <2>9, <4>1, <4>2 DEF Cards
      <4> QED
        BY <4>2, <4>3, <4>4 DEF EidInv, SameEids
    <3>5. CASE card = NumCards - 1 /\ where' = "dispatch" /\ UNCHANGED card
      <4>1. \A d \in Cards : d <= c
        BY <1>1, <1>3, <3>5 DEF Cards
      <4> QED
        BY <3>3, <3>5, <4>1 DEF EidInv, SameEids
    <3> QED
      BY <2>11, <3>4, <3>5
  <2> QED
    BY <1>12, <2>10, <2>11 DEF InitCommandOk
<1> QED
  BY <1>2, <1>11, <1>12

LEMMA OtherKeepsEid ==
  ASSUME SessionInv, EidInv, SessionNext, ~InitCommand
  PROVE  EidInv'
<1>1. card \in Cards /\ WhereInv /\ OutboxInv
      /\ ctl \in [Cards -> [eid : 0..RetryCount, open : BOOLEAN, reset : BOOLEAN]]
  BY DEF SessionInv, SessionTypeInv
<1>2. CASE SessionOpenFails
  <2>1. where' = "ended" /\ exitCode' = "error"
    BY <1>2 DEF SessionOpenFails, Exit
  <2> QED
    BY <2>1 DEF EidInv
<1>3. CASE Dispatch \/ StartReset \/ JoinWorkers \/ SaveFile
  <2>1. where \in {"dispatch", "joining", "save"} /\ UNCHANGED <<destEid, ctl, misread>>
    BY <1>3 DEF Dispatch, StartReset, JoinWorkers, SaveFile, external
  <2>2. where' # "init"
    BY <1>3 DEF Dispatch, StartOperation, StartReset, JoinWorkers, SaveFile, Exit
  <2> QED
    BY <2>1, <2>2, ElsewhereKeepsEid
<1>4. ASSUME NEW c \in Cards, NEW cmd, cmd # "SET_ENDPOINT_ID", NEW v, NEW o, NEW ok,
             Command(c, cmd, v, o, ok), UNCHANGED destEid, where \notin {"init", "ended"},
             where' # "init"
      PROVE  EidInv'
  <2>1. \A d \in Cards : ctl'[d].eid = ctl[d].eid
    BY <1>1, <1>4 DEF Command, Executed
  <2>2. ~misread' => ~misread
    BY <1>4 DEF Command
  <2> QED
    BY <1>4, <2>1, <2>2, ElsewhereKeepsEid
<1>5. CASE \E c \in Cards : ResetWorker(c)
  <2>1. PICK c \in Cards : ResetWorker(c)
    BY <1>5
  <2>2. where = "joining" /\ where' = where /\ UNCHANGED destEid
    BY <2>1 DEF ResetWorker, SessionInv, WorkerInv
  <2>3. PICK o, ok : Command(c, "SET_STATE_EFFECTER_STATES", 0, o, ok)
    BY <2>1 DEF ResetWorker
  <2> QED
    BY <1>4, <2>2, <2>3
<1>6. CASE OneResponse
  <2>1. \E cmd, v, o, ok : Command(card, cmd, v, o, ok) /\ cmd # "SET_ENDPOINT_ID"
    <3>1. CASE GetRepositoryInfo
      <4>1. PICK o, n : Command(card, "GET_PDR_REPOSITORY_INFO", 0, o, n > 0)
        BY <3>1 DEF GetRepositoryInfo
      <4> QED
        BY <4>1
    <3>2. CASE GetPdr
      <4>1. PICK o : Command(card, "GET_PDR", 0, o, o.got.ok)
        BY <3>2 DEF GetPdr
      <4> QED
        BY <4>1
    <3>3. CASE GetSensorReading
      <4>1. PICK o : Command(card, "GET_SENSOR_READING", 0, o, o.got.ok)
        BY <3>3 DEF GetSensorReading
      <4> QED
        BY <4>1
    <3>4. CASE GetFruMetadata
      <4>1. PICK o : Command(card, "GET_FRU_RECORD_TABLE_METADATA", 0, o, o.got.ok)
        BY <3>4 DEF GetFruMetadata
      <4> QED
        BY <4>1
    <3>5. CASE GetFruTable
      <4>1. PICK o : Command(card, "GET_FRU_RECORD_TABLE", 0, o, o.got.ok)
        BY <3>5 DEF GetFruTable
      <4> QED
        BY <4>1
    <3> QED
      BY <1>6, <3>1, <3>2, <3>3, <3>4, <3>5 DEF OneResponse
  <2>2. UNCHANGED destEid
        /\ where \in {"repository", "pdr", "sensor", "fru metadata", "fru table"}
    BY <1>6 DEF OneResponse, GetRepositoryInfo, GetPdr, GetSensorReading, GetFruMetadata,
                GetFruTable, session
  <2>3. where' # "init"
    BY <1>6, <2>2 DEF OneResponse, GetRepositoryInfo, GetPdr, AfterPdrs, GetSensorReading,
                GetFruMetadata, GetFruTable, Exit
  <2> QED
    BY <1>1, <1>4, <2>1, <2>2, <2>3
<1>7. CASE SendFileCommand \/ ReadPacketFails \/ ReadPacket
  <2>1. where \in {"send", "read"} /\ UNCHANGED destEid
    BY <1>7 DEF SendFileCommand, ReadPacketFails, ReadPacket, transfer
  <2>2. ~misread' => ~misread
    BY <1>7 DEF SendFileCommand, ReadPacketFails, ReadPacket
  <2>3. where' # "init"
    BY <1>7, <2>1, WhereOfFailure, WhereOfComplete DEF SendFileCommand, ReadPacketFails, ReadPacket
  <2>4. \A d \in Cards : ctl'[d].eid = ctl[d].eid
    <3>1. UNCHANGED ctl \/ \E ok \in BOOLEAN :
            ctl' = [ctl EXCEPT ![card] = IF ok THEN FileExecuted(rx.cmd, @) ELSE @]
      BY <1>7 DEF SendFileCommand, ReadPacketFails, ReadPacket
    <3>2. FileExecuted(rx.cmd, ctl[card]).eid = ctl[card].eid
      BY <1>1 DEF FileExecuted
    <3> QED
      BY <1>1, <3>1, <3>2
  <2> QED
    BY <2>1, <2>2, <2>3, <2>4, ElsewhereKeepsEid
<1> QED
  BY <1>2, <1>3, <1>5, <1>6, <1>7 DEF SessionNext, OneResponse

LEMMA SessionStepKeepsEid ==
  ASSUME SessionInv, EidInv, [AmcNext]_amcVars
  PROVE  EidInv'
<1>1. CASE SessionNext
  BY <1>1, InitCommandKeepsEid, OtherKeepsEid
<1>2. CASE StartUpdate
  <2>1. where = "dispatch" /\ where' = "updating" /\ UNCHANGED <<destEid, ctl, misread>>
    BY <1>2 DEF StartUpdate, external
  <2> QED
    BY <2>1, ElsewhereKeepsEid
<1>3. CASE UNCHANGED sessionVars
  BY <1>3, UnchangedKeepsEid
<1> QED
  BY <1>1, <1>2, <1>3 DEF AmcNext, SessionStep, UpdateStep, Ended, amcVars

(* The FRU table.                                                          *)
LEMMA UnchangedKeepsFru == FruInv /\ UNCHANGED sessionVars => FruInv'
<1> SUFFICES ASSUME FruInv, UNCHANGED sessionVars PROVE FruInv'
  OBVIOUS
<1>1. UNCHANGED <<where, operation, bytes, fru, exitCode, misread>>
  BY DEF sessionVars, client, external
<1> QED
  BY <1>1 DEF FruInv, FruShape, IsSequence

LEMMA ElsewhereKeepsFru ==
  ASSUME FruInv, WhereInv', UNCHANGED fru, where' # "fru table",
         where' = "fru metadata" => bytes' = <<>>,
         where' = "ended" => operation'.op # "card info" \/ exitCode' # "success"
  PROVE  FruInv'
<1>1. FruShape'
  BY DEF FruInv, FruShape
<1>2. exitCode' = "success" => where' = "ended"
  BY DEF WhereInv
<1> QED
  BY <1>1, <1>2 DEF FruInv

LEMMA GetFruMetadataKeepsFru ==
  ASSUME SessionInv, FileInv, FruInv, GetFruMetadata
  PROVE  FruInv'
<1> DEFINE cmd == "GET_FRU_RECORD_TABLE_METADATA"
<1>1. PICK o \in Outcomes(card, cmd, TRUE, FruParts) :
        /\ Command(card, cmd, 0, o, o.got.ok)
        /\ \/ /\ o.got.ok
              /\ \E n \in Fields(o.got, cmd, 0..FruParts) :
                   fru' = [len |-> n, handle |-> 1]
              /\ where' = "fru table"
              /\ UNCHANGED exitCode
           \/ ~o.got.ok /\ Exit("error") /\ UNCHANGED fru
  BY DEF GetFruMetadata
<1>2. where = "fru metadata" /\ UNCHANGED bytes /\ exitCode = "none" /\ bytes = <<>>
  BY DEF GetFruMetadata, SessionInv, WhereInv, FileInv
<1>3. CASE Exit("error") /\ UNCHANGED fru
  BY <1>3 DEF FruInv, FruShape, Exit
<1>4. CASE /\ o.got.ok
           /\ \E n \in Fields(o.got, cmd, 0..FruParts) : fru' = [len |-> n, handle |-> 1]
           /\ where' = "fru table" /\ UNCHANGED exitCode
  <2>1. FruShape'
    BY <1>4 DEF FruShape
  <2>2. ASSUME ~misread' PROVE fru' = [len |-> FruParts, handle |-> 1]
    <3>0. PICK can \in BOOLEAN : can = TRUE
      OBVIOUS
    <3>1. PICK c, u, v, ok : c = card /\ u = cmd /\ v = FruParts /\ ok = o.got.ok
      OBVIOUS
    <3>2. /\ SessionInv /\ BeforeTransfer /\ c \in Cards /\ o \in Outcomes(c, u, can, v)
          /\ Command(c, u, 0, o, ok) /\ ~misread' /\ o.got.ok
      BY <1>1, <1>2, <1>4, <2>2, <3>0, <3>1 DEF BeforeTransfer, SessionInv, SessionTypeInv
    <3>4. o.got.cmd = u /\ o.got.v = v
      BY <3>2, OwnAnswer
    <3>3. o.got.cmd = u /\ o.got.v = FruParts
      BY <3>1, <3>4
    <3> QED
      BY <1>4, <3>1, <3>3 DEF Fields
  <2>3. Len(bytes') = 0 /\ IsSequence(bytes') /\ FruParts \in Nat \ {0}
    BY <1>2, EmptySequence, AmcSessionAssumption DEF IsSequence
  <2>4. where' = "fru table" /\ exitCode' # "success" /\ bytes' = bytes
    BY <1>2, <1>4
  <2>5. ~misread' => fru'.len = FruParts /\ fru'.handle = Len(bytes') + 1
    BY <2>2, <2>3
  <2>6. Len(bytes') < FruParts /\ \A i \in 1..Len(bytes') : bytes'[i] = i
    BY <2>3
  <2>7. IsSequence(bytes)'
    BY <2>3
  <2> QED
    BY <2>1, <2>4, <2>5, <2>6, <2>7 DEF FruInv
<1> QED
  BY <1>1, <1>3, <1>4

LEMMA GetFruTableKeepsFru ==
  ASSUME SessionInv, FruInv, GetFruTable
  PROVE  FruInv'
<1> DEFINE cmd == "GET_FRU_RECORD_TABLE"
           value == [part |-> fru.handle, next |-> fru.handle + 1,
                     last |-> fru.handle = FruParts]
           any == [part : {0}, next : 0..FruParts, last : BOOLEAN]
           Taken(r) == /\ bytes' = Append(bytes, r.part)
                       /\ fru' = [fru EXCEPT !.handle = r.next]
                       /\ \/ ~r.last /\ UNCHANGED <<where, exitCode>>
                          \/ r.last /\ FruComplete(bytes') /\ Exit("success")
                          \/ Exit("error")
<1>1. PICK o \in Outcomes(card, cmd, fru.handle \in 1..FruParts, value) :
        /\ Command(card, cmd, 0, o, o.got.ok)
        /\ \/ o.got.ok /\ \E r \in Fields(o.got, cmd, any) : Taken(r)
           \/ ~o.got.ok /\ Exit("error") /\ UNCHANGED <<bytes, fru>>
  BY DEF GetFruTable
<1>2. where = "fru table" /\ exitCode = "none" /\ FruShape /\ UNCHANGED operation
      /\ operation.op = "card info"
  BY DEF GetFruTable, SessionInv, WhereInv, FruInv
<1>3. CASE Exit("error") /\ FruShape'
  BY <1>3 DEF FruInv, Exit
<1>4. CASE o.got.ok /\ \E r \in Fields(o.got, cmd, any) : Taken(r)
  <2>1. FruShape'
    BY <1>2, <1>4 DEF FruShape
  <2>2. ASSUME ~misread'
        PROVE  /\ where' = "fru table" =>
                    /\ fru'.len = FruParts
                    /\ fru'.handle = Len(bytes') + 1
                    /\ Len(bytes') < FruParts
               /\ IsSequence(bytes') /\ \A i \in 1..Len(bytes') : bytes'[i] = i
               /\ exitCode' = "success" => Len(bytes') = FruParts
    <3>0. PICK can \in BOOLEAN : can = (fru.handle \in 1..FruParts)
      <4>1. CASE fru.handle \in 1..FruParts
        BY <4>1
      <4>2. CASE fru.handle \notin 1..FruParts
        <5>1. (fru.handle \in 1..FruParts) = FALSE
          BY <4>2
        <5> QED
          BY <5>1
      <4> QED
        BY <4>1, <4>2
    <3>1. PICK c, u, v, ok : c = card /\ u = cmd /\ v = value /\ ok = o.got.ok
      OBVIOUS
    <3>2. /\ SessionInv /\ BeforeTransfer /\ c \in Cards /\ o \in Outcomes(c, u, can, v)
          /\ Command(c, u, 0, o, ok) /\ ~misread' /\ o.got.ok
      BY <1>1, <1>2, <1>4, <2>2, <3>0, <3>1 DEF BeforeTransfer, SessionInv, SessionTypeInv
    <3>3. can /\ o.got.cmd = u /\ o.got.v = v /\ ~misread
      BY <3>2, OwnAnswer
    <3>4. Taken(value) /\ fru.handle \in 1..FruParts
      BY <1>4, <3>0, <3>1, <3>3 DEF Fields
    <3>5. /\ fru.len = FruParts /\ fru.handle = Len(bytes) + 1 /\ Len(bytes) < FruParts
          /\ IsSequence(bytes) /\ \A i \in 1..Len(bytes) : bytes[i] = i
      BY <1>2, <3>3 DEF FruInv
    <3>6. /\ bytes' = Append(bytes, fru.handle)
          /\ fru'.handle = fru.handle + 1 /\ fru'.len = fru.len
          /\ \/ fru.handle # FruParts /\ UNCHANGED <<where, exitCode>>
             \/ FruComplete(bytes') /\ where' = "ended"
             \/ where' = "ended" /\ exitCode' = "error"
      BY <1>2, <3>4 DEF FruShape, Exit
    <3>7. /\ IsSequence(bytes') /\ Len(bytes') = Len(bytes) + 1
          /\ \A i \in 1..Len(bytes) : bytes'[i] = bytes[i]
          /\ bytes'[Len(bytes) + 1] = fru.handle
      BY <3>5, <3>6, AppendToSequence
    <3>8. Len(bytes) \in Nat /\ FruParts \in Nat
      BY <3>5, LenOfSequence, AmcSessionAssumption
    <3>9. \A i \in 1..Len(bytes') : bytes'[i] = i
      BY <3>5, <3>7, <3>8
    <3>10. where' = "fru table" => Len(bytes') < FruParts
      <4>1. fru.handle \in 1..FruParts
        BY <3>4
      <4>2. where' = "fru table" => fru.handle # FruParts
        BY <3>6
      <4>3. Len(bytes') = fru.handle
        BY <3>5, <3>7
      <4>4. FruParts \in Nat
        BY <3>8
      <4>5. fru.handle # FruParts => fru.handle < FruParts
        BY ONLY <4>1, <4>4
      <4> QED
        BY ONLY <4>2, <4>3, <4>5
    <3>11. exitCode' = "success" => Len(bytes') = FruParts
      BY <1>2, <3>5, <3>6 DEF FruComplete
    <3> QED
      BY <3>5, <3>6, <3>7, <3>9, <3>10, <3>11
  <2> QED
    BY <2>1, <2>2, <1>2, <1>4 DEF FruInv, Exit, IsSequence
<1>5. CASE ~o.got.ok /\ Exit("error") /\ UNCHANGED <<bytes, fru>>
  BY <1>2, <1>3, <1>5 DEF FruShape
<1> QED
  BY <1>1, <1>4, <1>5

LEMMA OtherKeepsFru ==
  ASSUME SessionInv, SessionInv', FileInv, FruInv, SessionNext,
         ~(GetFruMetadata \/ GetFruTable)
  PROVE  FruInv'
<1>1. WhereInv /\ WhereInv' /\ (where = "dispatch" => bytes = <<>>)
  BY DEF SessionInv, FileInv
<1>2. CASE SessionOpenFails \/ InitCommand
  <2>1. where = "init" /\ UNCHANGED <<operation, fru>>
    BY <1>2 DEF SessionOpenFails, InitCommand, client
  <2>2. where' \in {"init", "dispatch", "ended"}
    BY <1>2, <2>1 DEF SessionOpenFails, InitCommand, InitCommandOk, InitCommandFailed, Exit
  <2>3. operation'.op = "none"
    BY <1>1, <2>1 DEF WhereInv
  <2> QED
    BY <1>1, <2>1, <2>2, <2>3, ElsewhereKeepsFru
<1>3. CASE Dispatch
  <2>1. where = "dispatch" /\ UNCHANGED <<fru, bytes>>
    BY <1>3 DEF Dispatch
  <2>2. where' \in {"repository", "fru metadata"} \/ (where' = "ended" /\ exitCode' = "error")
    BY <1>3 DEF Dispatch, StartOperation, Exit
  <2> QED
    BY <1>1, <2>1, <2>2, ElsewhereKeepsFru
<1>4. CASE StartReset
  <2>1. UNCHANGED fru /\ operation'.op = "reset" /\ where' \in {"joining", "ended"}
    BY <1>4 DEF StartReset, Exit
  <2> QED
    BY <1>1, <2>1, ElsewhereKeepsFru
<1>5. CASE \E c \in Cards : ResetWorker(c)
  <2>1. where = "joining" /\ UNCHANGED <<operation, where, fru>>
    BY <1>5 DEF ResetWorker, SessionInv, WorkerInv
  <2> QED
    BY <1>1, <2>1, ElsewhereKeepsFru
<1>6. CASE JoinWorkers
  <2>1. where = "joining" /\ where' = "ended" /\ UNCHANGED <<operation, fru>>
    BY <1>6 DEF JoinWorkers, Exit, client
  <2> QED
    BY <1>1, <2>1, ElsewhereKeepsFru DEF WhereInv
<1>7. CASE GetRepositoryInfo \/ GetPdr \/ GetSensorReading
  <2>1. where \in {"repository", "pdr", "sensor"} /\ UNCHANGED <<operation, fru>>
    BY <1>7 DEF GetRepositoryInfo, GetPdr, GetSensorReading, session
  <2>2. where' \in {"pdr", "sensor", "send", "ended"}
    BY <1>7 DEF GetRepositoryInfo, GetPdr, AfterPdrs, GetSensorReading, Exit
  <2>3. operation'.op # "card info"
    BY <1>1, <2>1 DEF WhereInv
  <2> QED
    BY <1>1, <2>1, <2>2, <2>3, ElsewhereKeepsFru
<1>8. CASE SendFileCommand \/ ReadPacketFails \/ ReadPacket \/ SaveFile
  <2>1. where \in {"send", "read", "save"} /\ UNCHANGED <<operation, fru>>
    BY <1>8 DEF SendFileCommand, ReadPacketFails, ReadPacket, SaveFile, transfer, client
  <2>2. where' \in {"send", "read", "save", "ended"}
    BY <1>8, WhereOfFailure, WhereOfComplete
    DEF SendFileCommand, ReadPacketFails, ReadPacket, SaveFile, Exit
  <2>3. operation'.op # "card info"
    BY <1>1, <2>1 DEF WhereInv
  <2> QED
    BY <1>1, <2>1, <2>2, <2>3, ElsewhereKeepsFru
<1> QED
  BY <1>2, <1>3, <1>4, <1>5, <1>6, <1>7, <1>8 DEF SessionNext

LEMMA SessionStepKeepsFru ==
  ASSUME SessionInv, FileInv, FruInv, [AmcNext]_amcVars
  PROVE  FruInv'
<1>1. SessionInv'
  BY SessionStepKeepsInv
<1>2. CASE SessionNext
  BY <1>1, <1>2, GetFruMetadataKeepsFru, GetFruTableKeepsFru, OtherKeepsFru
<1>3. CASE StartUpdate
  <2>1. where' = "updating" /\ UNCHANGED fru
    BY <1>3 DEF StartUpdate
  <2> QED
    BY <1>1, <2>1, ElsewhereKeepsFru DEF SessionInv
<1>4. CASE UNCHANGED sessionVars
  BY <1>4, UnchangedKeepsFru
<1> QED
  BY <1>2, <1>3, <1>4 DEF AmcNext, SessionStep, UpdateStep, Ended, amcVars

(* The PDRs and the sensor.                                                *)
LEMMA RepositoryParts ==
  /\ Len(Repository) \in Nat \ {0}
  /\ \A r \in 1..Len(Repository) : Repository[r].parts \in Nat \ {0}
<1> DEFINE Pdr == [type : {"sensor", "file"}, id : Nat, parts : Nat \ {0}]
<1>1. Repository \in Seq(Pdr) /\ Repository # <<>>
  BY AmcSessionAssumption
<1>2. \A p \in Pdr : p.parts \in Nat \ {0}
  OBVIOUS
<1> HIDE DEF Pdr
<1>3. Len(Repository) \in Nat /\ \A r \in 1..Len(Repository) : Repository[r] \in Pdr
  BY <1>1, LenProperties, ElementOfSeq
<1>4. Len(Repository) # 0
  BY <1>1, EmptySeq
<1> QED
  BY <1>2, <1>3, <1>4

(* A part is appended to those of its record.                              *)
LEMMA PartAppended ==
  ASSUME NEW r, NEW s, IsSequence(s), s = RecordParts(r, Len(s)), NEW x,
         x = <<r, Len(s) + 1>>
  PROVE  /\ IsSequence(Append(s, x)) /\ Len(Append(s, x)) = Len(s) + 1
         /\ Append(s, x) = RecordParts(r, Len(s) + 1)
<1> DEFINE t == Append(s, x)
<1>1. Len(s) \in Nat /\ \A i \in 1..Len(s) : s[i] = <<r, i>>
  BY LenOfSequence DEF RecordParts
<1>2. /\ IsSequence(t) /\ Len(t) = Len(s) + 1
      /\ \A i \in 1..Len(s) : t[i] = s[i]
      /\ t[Len(s) + 1] = x
  BY AppendToSequence
<1> HIDE DEF t
<1>3. \A i \in 1..Len(t) : t[i] = <<r, i>>
  BY <1>1, <1>2
<1>4. t = [i \in 1..Len(t) |-> t[i]]
  BY <1>2 DEF IsSequence
<1>5. t = [i \in 1..Len(t) |-> <<r, i>>]
  BY <1>3, <1>4
<1> QED
  BY <1>2, <1>5 DEF RecordParts, t

LEMMA UnchangedKeepsPdr == PdrInv /\ UNCHANGED sessionVars => PdrInv'
<1> SUFFICES ASSUME PdrInv, UNCHANGED sessionVars PROVE PdrInv'
  OBVIOUS
<1>1. UNCHANGED <<where, operation, pdr, reading, exitCode, misread>>
  BY DEF sessionVars, client, external
<1> QED
  BY <1>1 DEF PdrInv, PdrShape, IsSequence, Asked, Matching, HasId

(* Steps that are not of reading the PDRs.                                 *)
LEMMA ElsewhereKeepsPdr ==
  ASSUME PdrInv, WhereInv', UNCHANGED pdr, where' \notin {"pdr", "sensor"},
         where' \in {"init", "dispatch", "repository"} =>
           where \in {"init", "dispatch", "repository"} /\ (~misread' => ~misread),
         where' = "ended" => operation'.op # "sensor" \/ exitCode' # "success"
  PROVE  PdrInv'
<1>1. PdrShape'
  BY DEF PdrInv, PdrShape
<1>2. exitCode' = "success" => where' = "ended"
  BY DEF WhereInv
<1>3. where' \in {"init", "dispatch", "repository"} /\ ~misread' =>
        pdr'.recs = <<>> /\ pdr'.cur = <<>> /\ ~pdr'.next /\ pdr'.handle = 0
  BY DEF PdrInv
<1> QED
  BY <1>1, <1>2, <1>3 DEF PdrInv

LEMMA GetRepositoryInfoKeepsPdr ==
  ASSUME SessionInv, PdrInv, GetRepositoryInfo
  PROVE  PdrInv'
<1> DEFINE cmd == "GET_PDR_REPOSITORY_INFO"
<1>1. PICK o \in Outcomes(card, cmd, TRUE, Len(Repository)), n \in 0..Len(Repository) :
        /\ o.got.ok => n \in Fields(o.got, cmd, 0..Len(Repository))
        /\ ~o.got.ok => n = 0
        /\ Command(card, cmd, 0, o, n > 0)
        /\ \/ n > 0 /\ pdr' = [pdr EXCEPT !.left = n] /\ where' = "pdr" /\ UNCHANGED exitCode
           \/ n = 0 /\ Exit("error") /\ UNCHANGED pdr
  BY DEF GetRepositoryInfo
<1>2. where = "repository" /\ exitCode = "none" /\ PdrShape
  BY DEF GetRepositoryInfo, SessionInv, WhereInv, PdrInv
<1>3. CASE Exit("error") /\ UNCHANGED pdr
  <2>1. where' = "ended" /\ exitCode' = "error" /\ PdrShape'
    BY <1>2, <1>3 DEF Exit, PdrShape
  <2> QED
    BY <2>1 DEF PdrInv
<1>4. CASE n > 0 /\ pdr' = [pdr EXCEPT !.left = n] /\ where' = "pdr" /\ UNCHANGED exitCode
  <2>1. /\ pdr'.left = n /\ pdr'.recs = pdr.recs /\ pdr'.cur = pdr.cur
        /\ pdr'.next = pdr.next /\ pdr'.handle = pdr.handle /\ PdrShape'
    BY <1>2, <1>4 DEF PdrShape
  <2>2. ASSUME ~misread' PROVE n = Len(Repository) /\ ~misread
    <3>1. PICK c \in Cards, can \in BOOLEAN, u \in {cmd}, v \in {Len(Repository)}, ok \in {n > 0} :
            c = card /\ can = TRUE /\ u = cmd /\ v = Len(Repository) /\ ok = (n > 0)
      BY DEF SessionInv, SessionTypeInv
    <3>2. /\ SessionInv /\ BeforeTransfer /\ o \in Outcomes(c, u, can, v)
          /\ Command(c, u, 0, o, ok) /\ ~misread'
      BY <1>1, <1>2, <2>2, <3>1 DEF BeforeTransfer
    <3>3. ~misread /\ (o.got.ok => o.got.cmd = u /\ o.got.v = v)
      BY <3>2, OwnAnswer
    <3>4. o.got.ok
      BY <1>1, <1>4, RepositoryParts
    <3> QED
      BY <1>1, <3>1, <3>3, <3>4 DEF Fields
  <2>3. ASSUME ~misread'
        PROVE  /\ pdr'.recs = <<>> /\ pdr'.cur = <<>> /\ ~pdr'.next /\ pdr'.handle = 0
               /\ pdr'.left = Len(Repository)
    BY <1>2, <2>1, <2>2, <2>3 DEF PdrInv
  <2>4. /\ Len(<<>>) = 0 /\ IsSequence(<<>>) /\ <<>> = RecordParts(1, 0)
        /\ Len(Repository) \in Nat \ {0} /\ 0 < Repository[1].parts
    <3>1. <<>> = RecordParts(1, 0)
      BY DEF RecordParts
    <3>2. 1 \in 1..Len(Repository) /\ Len(Repository) \in Nat \ {0}
      BY RepositoryParts
    <3>3. Repository[1].parts \in Nat \ {0}
      BY <3>2, RepositoryParts
    <3> QED
      BY <3>1, <3>2, <3>3, EmptySequence
  <2>5. ASSUME ~misread'
        PROVE  /\ IsSequence(pdr.recs)'
               /\ \A r \in 1..Len(pdr'.recs) :
                    pdr'.recs[r] = RecordParts(r, Repository[r].parts)
               /\ Len(pdr'.recs) < Len(Repository)
               /\ pdr'.left = Len(Repository) - Len(pdr'.recs)
               /\ IsSequence(pdr.cur)'
               /\ Len(pdr'.cur) < Repository[Len(pdr'.recs) + 1].parts
               /\ pdr'.cur = RecordParts(Len(pdr'.recs) + 1, Len(pdr'.cur))
               /\ Asked' = <<Len(pdr'.recs) + 1, Len(pdr'.cur) + 1>>
               /\ pdr'.next \in BOOLEAN
    <3>1. IsSequence(pdr.recs)' /\ IsSequence(pdr.cur)'
      BY <2>3, <2>4, <2>5 DEF IsSequence
    <3>2. Len(pdr'.recs) = 0 /\ Len(pdr'.cur) = 0
      BY <2>3, <2>4, <2>5
    <3>3. Asked' = <<1, 1>>
      BY <2>3, <2>5 DEF Asked
    <3>4. pdr'.next = FALSE
      <4>1. pdr.next = FALSE
        BY <1>2, <2>2, <2>5 DEF PdrInv
      <4> QED
        BY <2>1, <4>1
    <3>5. \A r \in 1..Len(pdr'.recs) : pdr'.recs[r] = RecordParts(r, Repository[r].parts)
      BY <3>2
    <3>6. /\ Len(pdr'.recs) < Len(Repository)
          /\ pdr'.left = Len(Repository) - Len(pdr'.recs)
      BY <2>3, <2>4, <2>5, <3>2
    <3>7. /\ Len(pdr'.cur) < Repository[Len(pdr'.recs) + 1].parts
          /\ pdr'.cur = RecordParts(Len(pdr'.recs) + 1, Len(pdr'.cur))
      BY <2>3, <2>4, <2>5, <3>2
    <3>8. Asked' = <<Len(pdr'.recs) + 1, Len(pdr'.cur) + 1>>
      BY <3>2, <3>3
    <3> QED
      BY <3>1, <3>4, <3>5, <3>6, <3>7, <3>8
  <2>6. where' = "pdr" /\ exitCode' # "success"
    BY <1>2, <1>4
  <2> QED
    BY <2>1, <2>5, <2>6 DEF PdrInv
<1> QED
  BY <1>1, <1>3, <1>4

(* The next part of a record, or the last one.                             *)
LEMMA PartReceivedKeepsPdr ==
  ASSUME PdrInv, where = "pdr", exitCode = "none", operation.op \in {"sensor", "file"},
         UNCHANGED <<operation, reading>>, ~misread, PdrExists(Asked), NEW v,
         v = PdrValue(Asked), pdr' = PdrReceived(v), AfterPdrs(PdrReceived(v))
  PROVE  PdrInv'
<1> DEFINE n == Len(pdr.recs)
           k == Len(pdr.cur)
           cur == Append(pdr.cur, v.part)
<1>1. /\ IsSequence(pdr.recs) /\ n < Len(Repository)
      /\ \A r \in 1..n : pdr.recs[r] = RecordParts(r, Repository[r].parts)
      /\ pdr.left = Len(Repository) - n
      /\ IsSequence(pdr.cur) /\ k < Repository[n + 1].parts
      /\ pdr.cur = RecordParts(n + 1, k)
      /\ Asked = <<n + 1, k + 1>>
  BY DEF PdrInv
<1>2. /\ n \in Nat /\ k \in Nat /\ Len(Repository) \in Nat /\ n + 1 \in 1..Len(Repository)
      /\ Repository[n + 1].parts \in Nat \ {0}
  <2>1. n \in Nat /\ k \in Nat /\ Len(Repository) \in Nat
    BY <1>1, RepositoryParts, LenOfSequence
  <2>2. n + 1 \in 1..Len(Repository)
    BY <1>1, <2>1
  <2> QED
    BY <2>1, <2>2, RepositoryParts
<1>3. /\ v.part = <<n + 1, k + 1>> /\ v.nextXfer = <<n + 1, k + 2>>
      /\ v.nextRecord = IF n + 1 < Len(Repository) THEN n + 2 ELSE 0
      /\ v.last <=> k + 1 = Repository[n + 1].parts
  <2>1. PICK a : a = Asked
    OBVIOUS
  <2>2. a = <<n + 1, k + 1>> /\ PdrExists(a) /\ v = PdrValue(a)
    BY <1>1, <2>1
  <2>3. a[1] = n + 1 /\ a[2] = k + 1
    BY <2>2
  <2>4. /\ v.part = a /\ v.nextXfer = <<a[1], a[2] + 1>>
        /\ v.nextRecord = IF a[1] < Len(Repository) THEN a[1] + 1 ELSE 0
    BY <2>2 DEF PdrValue
  <2>5. v.last = (PdrExists(a) => a[2] = Repository[a[1]].parts)
    BY <2>2 DEF PdrValue
  <2>6. v.last <=> a[2] = Repository[a[1]].parts
    BY <2>2, <2>5
  <2>7. a[1] + 1 = n + 2 /\ a[2] + 1 = k + 2
    BY <1>2, <2>3
  <2> QED
    BY <2>2, <2>3, <2>4, <2>6, <2>7
<1>4. IsSequence(cur) /\ Len(cur) = k + 1 /\ cur = RecordParts(n + 1, k + 1)
  <2>1. PICK s, x, r : s = pdr.cur /\ x = v.part /\ r = n + 1
    OBVIOUS
  <2>2. IsSequence(s) /\ s = RecordParts(r, Len(s)) /\ x = <<r, Len(s) + 1>>
    BY <1>1, <1>3, <2>1
  <2>3. /\ IsSequence(Append(s, x)) /\ Len(Append(s, x)) = Len(s) + 1
        /\ Append(s, x) = RecordParts(r, Len(s) + 1)
    BY <2>2, PartAppended
  <2>4. cur = Append(s, x)
    BY <2>1
  <2> QED
    BY <2>1, <2>3, <2>4
<1> HIDE DEF cur
<1>5. /\ pdr'.handle = v.nextRecord
      /\ pdr'.xfer = IF v.last THEN <<0, 0>> ELSE v.nextXfer
      /\ pdr'.next = ~v.last
      /\ pdr'.left = IF v.last THEN pdr.left - 1 ELSE pdr.left
      /\ pdr'.cur = IF v.last THEN <<>> ELSE cur
      /\ pdr'.recs = IF v.last THEN Append(pdr.recs, cur) ELSE pdr.recs
      /\ PdrShape'
  BY DEF PdrReceived, PdrShape, cur
<1>6. \/ pdr'.left > 0 /\ UNCHANGED <<where, exitCode>>
      \/ pdr'.left = 0 /\ Exit("error")
      \/ /\ pdr'.left = 0 /\ where' \in {"send", "sensor"} /\ UNCHANGED exitCode
         /\ Matching(PdrReceived(v).recs) # {}
  BY DEF AfterPdrs
<1>7. CASE where' = "ended"
  <2>1. exitCode' = "error"
    BY <1>6, <1>7 DEF Exit
  <2> QED
    BY <1>5, <1>7, <2>1 DEF PdrInv
<1>8. CASE ~v.last
  <2>1. /\ pdr'.recs = pdr.recs /\ pdr'.left = pdr.left /\ pdr'.cur = cur
        /\ pdr'.next /\ pdr'.next \in BOOLEAN /\ pdr'.xfer = <<n + 1, k + 2>>
    BY <1>3, <1>5, <1>8
  <2>2. where' = "pdr" /\ exitCode' = "none"
    BY <1>1, <1>2, <1>6, <2>1
  <2>3. Asked' = <<n + 1, k + 2>>
    BY <2>1 DEF Asked
  <2>4. k + 1 < Repository[n + 1].parts /\ k + 2 = k + 1 + 1
    BY <1>1, <1>2, <1>3, <1>8
  <2>5. IsSequence(pdr.recs)' /\ IsSequence(pdr.cur)'
    BY <1>1, <1>4, <2>1 DEF IsSequence
  <2>6. Len(pdr'.recs) = n /\ Len(pdr'.cur) = k + 1
    BY <1>4, <2>1
  <2>7. /\ \A r \in 1..Len(pdr'.recs) : pdr'.recs[r] = RecordParts(r, Repository[r].parts)
        /\ Len(pdr'.recs) < Len(Repository)
        /\ pdr'.left = Len(Repository) - Len(pdr'.recs)
    BY <1>1, <2>1
  <2>8. /\ Len(pdr'.cur) < Repository[Len(pdr'.recs) + 1].parts
        /\ pdr'.cur = RecordParts(Len(pdr'.recs) + 1, Len(pdr'.cur))
        /\ Asked' = <<Len(pdr'.recs) + 1, Len(pdr'.cur) + 1>>
    BY <1>4, <2>1, <2>3, <2>4, <2>6
  <2> QED
    BY <1>5, <2>1, <2>2, <2>5, <2>7, <2>8 DEF PdrInv
<1>9. CASE v.last /\ where' # "ended"
  <2> DEFINE recs == Append(pdr.recs, cur)
  <2>1. /\ pdr'.recs = recs /\ pdr'.left = pdr.left - 1 /\ pdr'.cur = <<>>
        /\ pdr'.next = FALSE /\ pdr'.handle = v.nextRecord
    BY <1>5, <1>9
  <2>2. /\ IsSequence(recs) /\ Len(recs) = n + 1
        /\ \A r \in 1..n : recs[r] = pdr.recs[r]
        /\ recs[n + 1] = cur
    BY <1>1, AppendToSequence
  <2> HIDE DEF recs
  <2>3. \A r \in 1..(n + 1) : recs[r] = RecordParts(r, Repository[r].parts)
    <3>1. cur = RecordParts(n + 1, Repository[n + 1].parts)
      BY <1>3, <1>4, <1>9
    <3> QED
      BY <1>1, <1>2, <2>2, <3>1
  <2>4. IsSequence(pdr.recs)' /\ Len(pdr'.recs) = n + 1
    BY <2>1, <2>2 DEF IsSequence
  <2>5. \A r \in 1..Len(pdr'.recs) : pdr'.recs[r] = RecordParts(r, Repository[r].parts)
    BY <2>1, <2>3, <2>4
  <2>6. pdr'.left = Len(Repository) - (n + 1)
    BY <1>1, <1>2, <2>1
  <2>7. exitCode' = "none"
    BY <1>6, <1>9 DEF Exit
  <2>8. CASE pdr'.left > 0 /\ UNCHANGED where
    <3>1. n + 1 < Len(Repository) /\ n + 2 \in 1..Len(Repository) /\ n + 2 = n + 1 + 1
          /\ n + 2 # 0
      BY <1>2, <2>6, <2>8
    <3>2. Asked' = <<n + 2, 1>>
      BY <1>3, <2>1, <3>1 DEF Asked
    <3>3. Len(pdr'.cur) = 0 /\ IsSequence(pdr.cur)' /\ pdr'.cur = RecordParts(n + 2, 0)
      BY <2>1, EmptySequence DEF IsSequence, RecordParts
    <3>4. Repository[n + 2].parts \in Nat \ {0}
      BY <3>1, RepositoryParts
    <3>5. /\ Len(pdr'.recs) < Len(Repository)
          /\ pdr'.left = Len(Repository) - Len(pdr'.recs)
      BY <2>4, <2>6, <3>1
    <3>6. /\ Len(pdr'.cur) < Repository[Len(pdr'.recs) + 1].parts
          /\ pdr'.cur = RecordParts(Len(pdr'.recs) + 1, Len(pdr'.cur))
          /\ Asked' = <<Len(pdr'.recs) + 1, Len(pdr'.cur) + 1>>
      BY <2>4, <3>1, <3>2, <3>3, <3>4
    <3>7. pdr'.next \in BOOLEAN
      BY <2>1
    <3> QED
      BY <1>5, <2>4, <2>5, <2>7, <2>8, <3>3, <3>5, <3>6, <3>7 DEF PdrInv
  <2>9. CASE pdr'.left = 0 /\ where' \in {"send", "sensor"}
             /\ Matching(PdrReceived(v).recs) # {}
    <3>1. Len(pdr'.recs) = Len(Repository)
      BY <1>2, <2>4, <2>6, <2>9
    <3>2. Matching(pdr.recs)' # {}
      <4>1. PICK rs : rs = PdrReceived(v).recs
        OBVIOUS
      <4>2. pdr'.recs = rs /\ Matching(rs) # {}
        BY <2>9, <4>1
      <4>3. PICK i \in 1..Len(rs) :
              /\ HasId(rs[i], operation.item)
              /\ operation.op = "file" => Repository[rs[i][1][1]].type = "file"
        BY <4>2 DEF Matching
      <4>4. i \in Matching(pdr.recs)'
        BY <4>2, <4>3 DEF Matching, HasId
      <4> QED
        BY <4>4
    <3> QED
      BY <1>5, <2>4, <2>5, <2>7, <2>9, <3>1, <3>2 DEF PdrInv
  <2> QED
    BY <1>6, <1>9, <2>8, <2>9 DEF Exit
<1> QED
  BY <1>7, <1>8, <1>9

LEMMA GetPdrKeepsPdr ==
  ASSUME SessionInv, PdrInv, GetPdr
  PROVE  PdrInv'
<1> DEFINE Taken(r) == pdr' = PdrReceived(r) /\ AfterPdrs(PdrReceived(r))
<1>1. PICK o \in Outcomes(card, "GET_PDR", PdrExists(Asked), PdrValue(Asked)) :
        /\ Command(card, "GET_PDR", 0, o, o.got.ok)
        /\ \/ o.got.ok /\ \E r \in Fields(o.got, "GET_PDR", AnyPdr) : Taken(r)
           \/ ~o.got.ok /\ Exit("error") /\ UNCHANGED pdr
  BY DEF GetPdr
<1>2. /\ where = "pdr" /\ exitCode = "none" /\ UNCHANGED <<operation, reading>>
      /\ operation.op \in {"sensor", "file"} /\ PdrShape
  BY DEF GetPdr, SessionInv, WhereInv, PdrInv
<1>3. CASE ~o.got.ok /\ Exit("error") /\ UNCHANGED pdr
  <2>1. where' = "ended" /\ exitCode' = "error" /\ PdrShape'
    BY <1>2, <1>3 DEF Exit, PdrShape
  <2> QED
    BY <2>1 DEF PdrInv
<1>4. CASE o.got.ok /\ \E r \in Fields(o.got, "GET_PDR", AnyPdr) : Taken(r)
  <2>1. CASE misread'
    <3>1. PdrShape'
      BY <1>4 DEF PdrReceived, PdrShape
    <3> QED
      BY <2>1, <3>1 DEF PdrInv
  <2>2. CASE ~misread'
    <3>0. PICK can \in BOOLEAN : can = PdrExists(Asked)
      BY DEF PdrExists
    <3>1. PICK c, u, v, ok :
            /\ c = card /\ u = "GET_PDR" /\ v = PdrValue(Asked) /\ ok = o.got.ok
      OBVIOUS
    <3>2. /\ SessionInv /\ BeforeTransfer /\ c \in Cards /\ o \in Outcomes(c, u, can, v)
          /\ Command(c, u, 0, o, ok) /\ ~misread' /\ o.got.ok
      BY <1>1, <1>2, <1>4, <2>2, <3>0, <3>1 DEF BeforeTransfer, SessionInv, SessionTypeInv
    <3>3. can /\ o.got.cmd = u /\ o.got.v = v /\ ~misread
      BY <3>2, OwnAnswer
    <3>4. Taken(v) /\ PdrExists(Asked) /\ v = PdrValue(Asked)
      BY <1>4, <3>0, <3>1, <3>3 DEF Fields
    <3> QED
      BY <1>2, <3>3, <3>4, PartReceivedKeepsPdr
  <2> QED
    BY <2>1, <2>2
<1> QED
  BY <1>1, <1>3, <1>4

(* The first of the matching records.                                      *)
LEMMA SmallestIsIn ==
  ASSUME NEW S, S \subseteq Nat, S # {}
  PROVE  \E m \in S : \A k \in S : m <= k
<1> DEFINE R == OpToRel(<, Nat)
<1>1. \A x, y \in Nat : x < y => <<x, y>> \in R
  BY DEF OpToRel
<1>2. IsWellFoundedOn(R, Nat)
  BY NatLessThanWellFounded
<1> HIDE DEF R
<1>3. PICK m \in S : \A k \in S : <<k, m>> \notin R
  BY ONLY <1>2, WFMin, S # {}, S \subseteq Nat
<1>4. \A k \in S : m <= k
  <2> SUFFICES ASSUME NEW k \in S PROVE m <= k
    OBVIOUS
  <2>1. k \in Nat /\ m \in Nat /\ <<k, m>> \notin R
    BY <1>3
  <2>2. ~ (k < m)
    BY <2>1, <1>1, Zenon
  <2> QED
    BY <2>1, <2>2
<1> QED
  BY <1>3, <1>4

LEMMA GetSensorReadingKeepsPdr ==
  ASSUME SessionInv, PdrInv, GetSensorReading
  PROVE  PdrInv'
<1> DEFINE first == FirstMatch(pdr.recs)
           cmd == "GET_SENSOR_READING"
<1>1. PICK o \in Outcomes(card, cmd, TRUE, operation.item) :
        /\ Command(card, cmd, 0, o, o.got.ok)
        /\ \/ /\ o.got.ok
              /\ \E s \in Fields(o.got, cmd, {0}) :
                   reading' = [pdr |-> pdr.recs[first][1][1], sensor |-> s]
              /\ Exit("success")
           \/ ~o.got.ok /\ Exit("error") /\ UNCHANGED reading
  BY DEF GetSensorReading
<1>2. /\ where = "sensor" /\ exitCode = "none" /\ UNCHANGED <<operation, pdr>>
      /\ operation.op = "sensor" /\ PdrShape /\ PdrShape' /\ where' = "ended"
  <2>1. /\ where = "sensor" /\ exitCode = "none" /\ operation.op = "sensor" /\ PdrShape
    BY DEF GetSensorReading, SessionInv, WhereInv, PdrInv
  <2>2. UNCHANGED <<operation, pdr>>
    BY DEF GetSensorReading, session
  <2>3. where' = "ended"
    BY <1>1 DEF Exit
  <2> QED
    BY <2>1, <2>2, <2>3 DEF PdrShape
<1>3. CASE exitCode' = "error" \/ misread'
  BY <1>2, <1>3 DEF PdrInv
<1>4. CASE o.got.ok /\ Exit("success") /\ ~misread'
  <2>0. PICK can \in BOOLEAN : can = TRUE
    OBVIOUS
  <2>1. PICK c, u, v, ok : c = card /\ u = cmd /\ v = operation.item /\ ok = o.got.ok
    OBVIOUS
  <2>2. /\ SessionInv /\ BeforeTransfer /\ c \in Cards /\ o \in Outcomes(c, u, can, v)
        /\ Command(c, u, 0, o, ok) /\ ~misread' /\ o.got.ok
    BY <1>1, <1>2, <1>4, <2>0, <2>1 DEF BeforeTransfer, SessionInv, SessionTypeInv
  <2>3. o.got.cmd = u /\ o.got.v = v /\ ~misread
    BY <2>2, OwnAnswer
  <2>4. reading' = [pdr |-> pdr.recs[first][1][1], sensor |-> operation.item]
    BY <1>1, <1>4, <2>1, <2>3 DEF Fields
  <2>5. /\ IsSequence(pdr.recs) /\ Len(pdr.recs) = Len(Repository)
        /\ \A r \in 1..Len(pdr.recs) : pdr.recs[r] = RecordParts(r, Repository[r].parts)
        /\ Matching(pdr.recs) # {}
    BY <1>2, <2>3 DEF PdrInv
  <2>6. /\ first \in Matching(pdr.recs)
        /\ \A k \in Matching(pdr.recs) : first <= k
    <3>1. PICK S : S = Matching(pdr.recs)
      OBVIOUS
    <3>2. S \subseteq Nat /\ S # {}
      BY <2>5, <3>1, LenOfSequence DEF Matching
    <3>3. \E m \in S : \A k \in S : m <= k
      BY <3>2, SmallestIsIn
    <3>4. first = CHOOSE i \in S : \A j \in S : i <= j
      BY <3>1 DEF FirstMatch
    <3> HIDE DEF first
    <3> QED
      BY <3>1, <3>3, <3>4, Zenon
  <2> HIDE DEF first
  <2>7. ASSUME NEW r \in 1..Len(Repository)
        PROVE  /\ r \in Matching(pdr.recs) <=> Repository[r].id = operation.item
               /\ pdr.recs[r][1][1] = r
    <3>1. PICK S : S = [type : {"sensor", "file"}, id : Nat, parts : Nat \ {0}]
      OBVIOUS
    <3>2. Repository[r].parts \in Nat \ {0}
      <4>1. Repository \in Seq(S)
        BY <3>1, AmcSessionAssumption
      <4>2. Repository[r] \in S
        BY <4>1
      <4> QED
        BY <3>1, <4>2
    <3>3. pdr.recs[r] = [k \in 1..Repository[r].parts |-> <<r, k>>] /\ r \in 1..Len(pdr.recs)
      BY <2>5 DEF RecordParts
    <3>4. pdr.recs[r][1] = <<r, 1>>
      BY <3>2, <3>3
    <3>5. r > 0
      OBVIOUS
    <3>6. pdr.recs[r][1][1] = r
      BY <3>4
    <3>7. HasId(pdr.recs[r], operation.item) <=> Repository[r].id = operation.item
      BY <3>4, <3>5, <3>6 DEF HasId
    <3> QED
      BY <1>2, <3>3, <3>6, <3>7 DEF Matching
  <2>10. first \in 1..Len(Repository)
    BY <2>5, <2>6 DEF Matching
  <2>11. first \in SensorPdrs(operation.item) \/ Misleading(first, operation.item)
    <3>1. Repository[first].id = operation.item
      BY <2>6, <2>7, <2>10
    <3>2. CASE Repository[first].type = "sensor"
      BY <2>10, <3>1, <3>2 DEF SensorPdrs
    <3>3. CASE Repository[first].type # "sensor"
      <4> SUFFICES ASSUME NEW r \in SensorPdrs(operation.item) PROVE first < r
        BY <3>1 DEF Misleading
      <4>1. /\ r \in 1..Len(Repository) /\ Repository[r].id = operation.item
            /\ Repository[r].type = "sensor"
        BY DEF SensorPdrs
      <4>2. first <= r /\ first # r
        BY <2>6, <2>7, <3>3, <4>1
      <4>3. first \in Int /\ r \in Int
        BY <2>10, <4>1
      <4> QED
        BY <4>2, <4>3
    <3> QED
      BY <3>2, <3>3
  <2>8. /\ reading'.sensor = operation'.item
        /\ \/ reading'.pdr \in SensorPdrs(operation'.item)
           \/ Misleading(reading'.pdr, operation'.item)
    <3>1. pdr.recs[first][1][1] = first
      BY <2>7, <2>10
    <3>2. reading'.sensor = operation.item /\ reading'.pdr = first /\ operation' = operation
      BY <1>2, <2>4, <3>1
    <3> QED
      BY <2>11, <3>2
  <2>9. IsSequence(pdr.recs)'
    BY <1>2, <2>5 DEF IsSequence
  <2> QED
    BY <1>2, <2>5, <2>8, <2>9 DEF PdrInv
<1> QED
  BY <1>1, <1>3, <1>4 DEF Exit

LEMMA OtherKeepsPdr ==
  ASSUME SessionInv, SessionInv', PdrInv, SessionNext,
         ~(GetRepositoryInfo \/ GetPdr \/ GetSensorReading)
  PROVE  PdrInv'
<1>1. WhereInv /\ WhereInv'
  BY DEF SessionInv
<1>2. CASE SessionOpenFails \/ InitCommand
  <2>1. where = "init" /\ UNCHANGED <<operation, pdr>>
    BY <1>2 DEF SessionOpenFails, InitCommand, client
  <2>3. ~misread' => ~misread
    <3>1. CASE SessionOpenFails
      BY <3>1 DEF SessionOpenFails, external
    <3>2. CASE InitCommand
      <4>1. PICK o : misread' = (misread \/ o.stale)
        BY <3>2 DEF InitCommand, Command
      <4> QED
        BY <4>1
    <3> QED
      BY <1>2, <3>1, <3>2
  <2>2. where' \in {"init", "dispatch"} \/ (where' = "ended" /\ exitCode' = "error")
    BY <1>2, <2>1 DEF SessionOpenFails, InitCommand, InitCommandOk, InitCommandFailed, Exit
  <2> QED
    BY <1>1, <2>1, <2>2, <2>3, ElsewhereKeepsPdr
<1>3. CASE Dispatch
  <2>1. where = "dispatch" /\ UNCHANGED <<pdr, misread>>
    BY <1>3 DEF Dispatch, external
  <2>2. where' \in {"repository", "fru metadata"} \/ (where' = "ended" /\ exitCode' = "error")
    BY <1>3 DEF Dispatch, StartOperation, Exit
  <2> QED
    BY <1>1, <2>1, <2>2, ElsewhereKeepsPdr
<1>4. CASE StartReset
  <2>1. UNCHANGED pdr /\ operation'.op = "reset" /\ where' \in {"joining", "ended"}
    BY <1>4 DEF StartReset, Exit
  <2> QED
    BY <1>1, <2>1, ElsewhereKeepsPdr
<1>5. CASE \E c \in Cards : ResetWorker(c)
  <2>1. where = "joining" /\ UNCHANGED <<operation, where, pdr>>
    BY <1>5 DEF ResetWorker, SessionInv, WorkerInv
  <2> QED
    BY <1>1, <2>1, ElsewhereKeepsPdr
<1>6. CASE JoinWorkers
  <2>1. where = "joining" /\ where' = "ended" /\ UNCHANGED <<operation, pdr>>
    BY <1>6 DEF JoinWorkers, Exit, client
  <2>2. operation'.op # "sensor"
    BY <1>1, <2>1 DEF WhereInv
  <2> QED
    BY <1>1, <2>1, <2>2, ElsewhereKeepsPdr
<1>7. CASE GetFruMetadata \/ GetFruTable
  <2>1. where \in {"fru metadata", "fru table"} /\ UNCHANGED <<operation, pdr>>
    BY <1>7 DEF GetFruMetadata, GetFruTable
  <2>2. where' \in {"fru table", "ended"}
    BY <1>7, <2>1 DEF GetFruMetadata, GetFruTable, Exit
  <2>3. operation'.op # "sensor"
    BY <1>1, <2>1 DEF WhereInv
  <2> QED
    BY <1>1, <2>1, <2>2, <2>3, ElsewhereKeepsPdr
<1>8. CASE SendFileCommand \/ ReadPacketFails \/ ReadPacket \/ SaveFile
  <2>1. where \in {"send", "read", "save"} /\ UNCHANGED <<operation, pdr>>
    BY <1>8 DEF SendFileCommand, ReadPacketFails, ReadPacket, SaveFile, transfer, client
  <2>2. where' \in {"send", "read", "save", "ended"}
    BY <1>8, WhereOfFailure, WhereOfComplete
    DEF SendFileCommand, ReadPacketFails, ReadPacket, SaveFile, Exit
  <2>3. operation'.op # "sensor"
    BY <1>1, <2>1 DEF WhereInv
  <2> QED
    BY <1>1, <2>1, <2>2, <2>3, ElsewhereKeepsPdr
<1> QED
  BY <1>2, <1>3, <1>4, <1>5, <1>6, <1>7, <1>8 DEF SessionNext

LEMMA SessionStepKeepsPdr ==
  ASSUME SessionInv, FileInv, PdrInv, [AmcNext]_amcVars
  PROVE  PdrInv'
<1>1. SessionInv'
  BY SessionStepKeepsInv
<1>2. CASE SessionNext
  BY <1>1, <1>2, GetRepositoryInfoKeepsPdr, GetPdrKeepsPdr, GetSensorReadingKeepsPdr,
     OtherKeepsPdr
<1>3. CASE StartUpdate
  <2>1. where' = "updating" /\ UNCHANGED pdr
    BY <1>3 DEF StartUpdate
  <2> QED
    BY <1>1, <2>1, ElsewhereKeepsPdr DEF SessionInv
<1>4. CASE UNCHANGED sessionVars
  BY <1>4, UnchangedKeepsPdr
<1> QED
  BY <1>2, <1>3, <1>4 DEF AmcNext, SessionStep, UpdateStep, Ended, amcVars

LEMMA AnswersInitInv == AmcInit => EidInv /\ PdrInv /\ FruInv
<1> SUFFICES ASSUME AmcInit PROVE EidInv /\ PdrInv /\ FruInv
  OBVIOUS
<1>1. /\ where = "init" /\ card = 0 /\ cmdNo = 1 /\ exitCode = "none"
      /\ destEid = [c \in Cards |-> 0] /\ operation.op = "none"
  BY DEF AmcInit, SessionInit
<1>2. /\ pdr = [handle |-> 0, xfer |-> <<0, 0>>, next |-> FALSE, left |-> 0,
                cur |-> <<>>, recs |-> <<>>]
      /\ fru = [len |-> 0, handle |-> 0]
  BY DEF AmcInit, SessionInit
<1>3. EidInv
  <2>1. \A c \in Cards : ~(c < 0)
    BY AmcSessionAssumption DEF Cards
  <2>2. \A c \in Cards : destEid[c] = 0
    BY <1>1
  <2> QED
    BY <1>1, <2>1, <2>2 DEF EidInv
<1>4. PdrInv
  <2>1. PdrShape
    BY <1>2 DEF PdrShape
  <2>2. pdr.recs = <<>> /\ pdr.cur = <<>> /\ ~pdr.next /\ pdr.handle = 0
    BY <1>2
  <2> QED
    BY <1>1, <2>1, <2>2 DEF PdrInv
<1>5. FruInv
  <2>1. FruShape
    BY <1>2 DEF FruShape
  <2> QED
    BY <1>1, <2>1 DEF FruInv
<1> QED
  BY <1>3, <1>4, <1>5

LEMMA AnswersAlways == AmcSpec => [](EidInv /\ PdrInv /\ FruInv)
<1>1. AmcInit => SessionInv /\ FileInv /\ EidInv /\ PdrInv /\ FruInv
  BY SessionInitInv, FileInitInv, AnswersInitInv
<1>2. ASSUME SessionInv, FileInv, EidInv, PdrInv, FruInv, [AmcNext]_amcVars
      PROVE  SessionInv' /\ FileInv' /\ EidInv' /\ PdrInv' /\ FruInv'
  BY <1>2, SessionStepKeepsInv, SessionStepKeepsFile, SessionStepKeepsEid,
     SessionStepKeepsPdr, SessionStepKeepsFru
<1> QED
  BY <1>1, <1>2, PTL DEF AmcSpec

(* A sensor reading is the named sensor's and is converted with its own    *)
(* PDR (or one of another type with its ID that comes before, which the    *)
(* code takes instead) out of a complete repository, the FRU table is whole and every card is      *)
(* addressed by the EID it has, unless the process read a response that    *)
(* an earlier request left behind.                                         *)
THEOREM AnswersAreOwn == AmcSpec => []AnswersWhatWasAsked
<1>1. EidInv /\ PdrInv /\ FruInv => AnswersWhatWasAsked
  <2> SUFFICES ASSUME EidInv, PdrInv, FruInv, exitCode = "success", ~misread
               PROVE  /\ operation.op = "sensor" =>
                           /\ reading.sensor = operation.item
                           /\ \/ reading.pdr \in SensorPdrs(operation.item)
                              \/ Misleading(reading.pdr, operation.item)
                           /\ pdr.recs = [r \in 1..Len(Repository) |->
                                            [p \in 1..Repository[r].parts |-> <<r, p>>]]
                      /\ operation.op = "card info" => bytes = [i \in 1..FruParts |-> i]
                      /\ \A c \in Cards : destEid[c] = ctl[c].eid
    BY DEF AnswersWhatWasAsked
  <2>1. \A c \in Cards : destEid[c] = ctl[c].eid
    BY DEF EidInv, SameEids
  <2>2. ASSUME operation.op = "card info" PROVE bytes = [i \in 1..FruParts |-> i]
    <3>1. /\ IsSequence(bytes) /\ Len(bytes) = FruParts
          /\ \A i \in 1..Len(bytes) : bytes[i] = i
      BY <2>2 DEF FruInv
    <3> QED
      BY <3>1 DEF IsSequence
  <2>3. ASSUME operation.op = "sensor"
        PROVE  pdr.recs = [r \in 1..Len(Repository) |->
                             [p \in 1..Repository[r].parts |-> <<r, p>>]]
    <3>1. /\ IsSequence(pdr.recs) /\ Len(pdr.recs) = Len(Repository)
          /\ \A r \in 1..Len(pdr.recs) : pdr.recs[r] = RecordParts(r, Repository[r].parts)
      BY <2>3 DEF PdrInv
    <3>2. pdr.recs = [r \in 1..Len(Repository) |-> pdr.recs[r]]
      BY <3>1 DEF IsSequence
    <3>3. \A r \in 1..Len(Repository) :
            pdr.recs[r] = [p \in 1..Repository[r].parts |-> <<r, p>>]
      BY <3>1 DEF RecordParts
    <3> QED
      BY <3>2, <3>3
  <2> QED
    BY <2>1, <2>2, <2>3 DEF PdrInv
<1> QED
  BY <1>1, AnswersAlways, PTL
=============================================================================
