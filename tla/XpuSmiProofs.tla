---------------------------- MODULE XpuSmiProofs ----------------------------
(***************************************************************************)
(* Proofs about XpuSmi. The processes of one command share nothing with    *)
(* those of another, so each part has an invariant of its own, kept by     *)
(* every step of SmiNext:                                                  *)
(*   ColdInv   where a cold reset is says what it has already done;        *)
(*   FwInv     the phase of an update's worker says what came of it;       *)
(*   DmInv     the rows, the input thread and the cache of a dump;         *)
(*   CfgInv    the books of run() and the loop of the setter under way;    *)
(*   VgInv     the VFs' files, and what the vgpu process at work wrote.    *)
(***************************************************************************)
EXTENDS XpuSmi, FiniteSetTheorems, WellFoundedInduction, TLAPS

-----------------------------------------------------------------------------
(* The cold reset *)

(* The slot is the GPU's own from the moment it is used; power that went   *)
(* off went through the reset, a GPU that is there has power, and each     *)
(* phase is reached only when the ones before it did what they were for.   *)
ColdInv ==
  /\ crResult = "none" <=> crPc # "done"
  /\ crPc \in {"unbind", "off", "confirm", "on", "reenum", "bind"} => crSlot = "own"
  /\ power \in [Slots -> BOOLEAN] /\ power["other"]
  /\ ~power["own"] => cycled
  /\ present => power["own"]
  /\ crPc \in {"on", "reenum", "bind"} => cycled
  /\ crPc = "bind" => present
  /\ ColdResetIsReal

(* Who changes the state of the reset, and when.                           *)
LEMMA ColdMoves ==
  [SmiNext]_allVars =>
    \/ ColdStep \/ ColdKernel \/ UNCHANGED coldVars
    \/ /\ crPc = "idle" /\ crPc' = "probe"
       /\ UNCHANGED <<crResult, crSlot, power, present, bound, fresh, hadDriver, polls,
                      refused, cycled>>
<1> SUFFICES ASSUME [SmiNext]_allVars
             PROVE  \/ ColdStep \/ ColdKernel \/ UNCHANGED coldVars
                    \/ /\ crPc = "idle" /\ crPc' = "probe"
                       /\ UNCHANGED <<crResult, crSlot, power, present, bound, fresh,
                                      hadDriver, polls, refused, cycled>>
  OBVIOUS
<1>1. CASE CfgStep
  <2>1. CASE StartColdReset
    BY <2>1 DEF StartColdReset
  <2>2. CASE EndColdReset
    BY <2>2 DEF EndColdReset
  <2>3. CASE Running("coldreset") /\ ColdStep /\ UNCHANGED cfgVars
    BY <2>3
  <2>4. CASE ParseArguments \/ RunCommand \/ RunReturns \/ ResolveFrequencyTarget
             \/ SetFrequencyRange \/ SetStandby \/ ClearErrors \/ SetSchedulerAll
    BY <2>4 DEF ParseArguments, RunCommand, RunReturns, ResolveFrequencyTarget,
                SetFrequencyRange, SetStandby, ClearErrors, SetSchedulerAll, SetEach
  <2>5. CASE SetSchedulerTile \/ SetPowerLimit \/ SetMemoryEcc \/ SetPCIeGenUpdate
             \/ SetFanSpeed \/ SetFanCurve \/ SetFanCurveRpm \/ ResetDevice
    BY <2>5 DEF SetSchedulerTile, SetPowerLimit, SetMemoryEcc, SetPCIeGenUpdate,
                SetFanSpeed, SetFanCurve, SetFanCurveRpm, SetFans, ResetDevice
  <2> QED BY <1>1, <2>1, <2>2, <2>3, <2>4, <2>5 DEF CfgStep
<1>2. CASE UNCHANGED coldVars
  BY <1>2
<1>3. CASE ColdKernel
  BY <1>3
<1> QED BY <1>1, <1>2, <1>3 DEF SmiNext, ConfigStep, Main, MainReturns, allVars

LEMMA ColdStepKeepsInv == ColdInv /\ [SmiNext]_allVars => ColdInv'
<1> SUFFICES ASSUME ColdInv, [SmiNext]_allVars PROVE ColdInv'
  OBVIOUS
<1> USE DEF ColdInv, ColdResetIsReal, ColdReturn
<1>1. CASE ProbeSlot
  BY <1>1 DEF ProbeSlot
<1>2. CASE UnbindDriver
  BY <1>2 DEF UnbindDriver
<1>3. CASE PowerOff
  <2>1. /\ crSlot = "own" /\ crResult = "none"
        /\ crPc' \in {"confirm", "done"} /\ (crResult' = "none" <=> crPc' # "done")
        /\ (crResult' = "1" \/ crPc' # "done") /\ crSlot' = crSlot
    BY <1>3 DEF PowerOff
  <2>2. CASE UNCHANGED <<power, present, bound, cycled>>
    BY <2>1, <2>2
  <2>3. CASE power' = [power EXCEPT !["own"] = FALSE] /\ ~present' /\ cycled'
    BY <2>1, <2>3 DEF Slots
  <2> QED BY <1>3, <2>1, <2>2, <2>3 DEF PowerOff
<1>4. CASE ConfirmOff
  BY <1>4 DEF ConfirmOff
<1>5. CASE PowerOn
  BY <1>5 DEF PowerOn, Slots
<1>6. CASE PollReenumeration
  BY <1>6 DEF PollReenumeration
<1>7. CASE AwaitDriver
  BY <1>7 DEF AwaitDriver
<1>8. CASE BindDriver
  BY <1>8 DEF BindDriver
<1>9. CASE Enumerate
  BY <1>9 DEF Enumerate
<1>10. CASE AutoBind
  <2>1. bound => bound'
    BY <1>10, Zenon DEF AutoBind
  <2>2. UNCHANGED <<crPc, crResult, crSlot, power, present, hadDriver, refused, cycled>>
    BY <1>10 DEF AutoBind
  <2> QED BY <2>1, <2>2
<1>11. CASE \/ UNCHANGED coldVars
            \/ /\ crPc = "idle" /\ crPc' = "probe"
               /\ UNCHANGED <<crResult, crSlot, power, present, bound, fresh,
                              hadDriver, polls, refused, cycled>>
  BY <1>11 DEF coldVars
<1> QED BY <1>1, <1>2, <1>3, <1>4, <1>5, <1>6, <1>7, <1>8, <1>9, <1>10, <1>11, ColdMoves
        DEF ColdStep, ColdKernel

-----------------------------------------------------------------------------
(* The firmware update *)

JobType ==
  [phase : {"none", "start", "pre", "update", "flash", "stop", "join", "post", "done"},
   res : {"ok", "error"}, thr : {"none", "loop", "last", "ended"},
   complete : BOOLEAN, flashed : BOOLEAN, posts : 0 .. 2]

(* What worker j has behind it at each phase, in a process with kind k of  *)
(* firmware; a worker that failed has left its error in firstError (err),  *)
(* and workers run only under the lock (at "work").                        *)
JobGood(j, k, err, atWork) ==
  /\ j.phase \in {"none", "start", "pre", "update"} => j.thr = "none"
  /\ j.phase \in {"start", "pre", "update", "flash"} => j.res = "ok"
  /\ j.phase \in {"stop", "join"} /\ j.res = "ok" => j.flashed
  /\ j.phase \in {"post", "done"} =>
       /\ j.thr \in {"none", "ended"}
       /\ j.res = "ok" /\ k # "empty" => j.flashed
  /\ j.phase # "done" => j.posts = 0
  /\ j.phase = "done" => IF j.res = "ok" THEN j.posts = 1 ELSE err
  /\ j.phase \in {"none", "done"} \/ atWork

FwShape ==
  /\ fwJob \in [FwProcs -> [FwDevices -> JobType]]
  /\ fwPc \in [FwProcs -> {"off", "open", "flock", "check", "work", "unlock", "unlink",
                           "done"}]
  /\ fwKind \in [FwProcs -> FwKinds] /\ fwError \in [FwProcs -> BOOLEAN]
  /\ fwResult \in [FwProcs -> {"none", "ok", "error"}]

FwInv ==
  /\ FwShape
  /\ \A p \in FwProcs, d \in FwDevices :
       JobGood(fwJob[p][d], fwKind[p], fwError[p], fwPc[p] = "work")
  /\ \A p \in FwProcs :
       /\ fwPc[p] \in {"off", "open", "flock", "check", "done"} =>
            \A d \in FwDevices : fwJob[p][d].phase = "none"
       /\ fwResult[p] = "ok" =>
            /\ fwPc[p] \in {"unlock", "unlink", "done"}
            /\ \A d \in FwDevices : fwJob[p][d].phase = "done" => fwJob[p][d].res = "ok"

LEMMA FwMoves == [SmiNext]_allVars => FwNext \/ UNCHANGED fwVars
  BY DEF SmiNext, allVars

(* A step of a worker or of its progress thread changes this one worker.   *)
JobMove(p, d) ==
  /\ fwPc[p] = "work"
  /\ UNCHANGED <<fwPc, fwKind, fwResult>>
  /\ fwError' \in [FwProcs -> BOOLEAN] /\ \A q \in FwProcs : fwError[q] => fwError'[q]
  /\ \E j \in JobType : Job(p, d, j) /\ JobGood(j, fwKind[p], fwError'[p], TRUE)

LEMMA JobSteps ==
  ASSUME FwInv, NEW p \in FwProcs, NEW d \in FwDevices, FwJobStep(p, d)
  PROVE  JobMove(p, d)
<1> DEFINE j == fwJob[p][d]
<1>0. /\ j \in JobType /\ JobGood(j, fwKind[p], fwError[p], fwPc[p] = "work")
      /\ fwKind[p] \in FwKinds
  BY DEF FwInv, FwShape
<1>1. fwPc[p] = "work"
  BY <1>0 DEF FwJobStep, FindFirmware, PreUpdate, UpdateOther, ReadImage, FlashReturns,
              StopProgress, JoinProgress, PostUpdate, TrackProgress, JobGood, JobType
<1>2. ASSUME NEW j2 \in JobType, Job(p, d, j2), UpdateOnly,
             JobGood(j2, fwKind[p], fwError[p], TRUE)
      PROVE  JobMove(p, d)
  <2>1. UNCHANGED <<fwPc, fwKind, fwResult, fwError>>
    BY <1>2 DEF UpdateOnly
  <2> QED BY <1>1, <1>2, <2>1 DEF JobMove, FwInv, FwShape
<1>3. ASSUME NEW j1 \in JobType, EndJob(p, d, j1),
             JobGood([j1 EXCEPT !.phase = "done"], fwKind[p], j1.res = "error", TRUE)
      PROVE  JobMove(p, d)
  <2> DEFINE j2 == [j1 EXCEPT !.phase = "done"]
  <2>1. UNCHANGED <<fwPc, fwKind, fwResult>>
    BY <1>3 DEF EndJob
  <2>2. /\ fwError' \in [FwProcs -> BOOLEAN] /\ \A q \in FwProcs : fwError[q] => fwError'[q]
        /\ j1.res = "error" => fwError'[p]
    BY <1>3 DEF EndJob, FwInv, FwShape
  <2>3. j2 \in JobType /\ j2.res = j1.res
    BY <1>3 DEF JobType
  <2>4. JobGood(j2, fwKind[p], fwError'[p], TRUE)
    BY <1>3, <2>2, <2>3 DEF JobGood
  <2>5. Job(p, d, j2)
    BY <1>3 DEF EndJob
  <2> QED BY <1>1, <2>1, <2>2, <2>3, <2>4, <2>5 DEF JobMove
<1> HIDE DEF j
<1> USE DEF JobGood, JobType
<1>4. CASE FindFirmware(p, d)
  <2>1. CASE EndJob(p, d, [j EXCEPT !.res = "error"])
    BY <1>0, <1>3, <1>4, <2>1 DEF FindFirmware, j
  <2>2. CASE Job(p, d, [j EXCEPT !.phase = "pre"]) /\ UpdateOnly
    BY <1>0, <1>2, <1>4, <2>2 DEF FindFirmware, j
  <2> QED BY <1>4, <2>1, <2>2 DEF FindFirmware, j
<1>5. CASE PreUpdate(p, d)
  <2>1. CASE Job(p, d, [j EXCEPT !.phase = "post", !.res = "error"])
    BY <1>0, <1>2, <1>5, <2>1 DEF PreUpdate, j
  <2>2. CASE Job(p, d, [j EXCEPT !.phase = "update"])
    BY <1>0, <1>2, <1>5, <2>2 DEF PreUpdate, j
  <2> QED BY <1>5, <2>1, <2>2 DEF PreUpdate, j
<1>6. CASE UpdateOther(p, d)
  <2>1. CASE fwKind[p] = "empty" /\ Job(p, d, [j EXCEPT !.phase = "post"])
    BY <1>0, <1>2, <1>6, <2>1 DEF UpdateOther, j
  <2>2. CASE Job(p, d, [j EXCEPT !.phase = "post", !.flashed = TRUE])
    BY <1>0, <1>2, <1>6, <2>2 DEF UpdateOther, j
  <2>3. CASE Job(p, d, [j EXCEPT !.phase = "post", !.res = "error"])
    BY <1>0, <1>2, <1>6, <2>3 DEF UpdateOther, j
  <2> QED BY <1>6, <2>1, <2>2, <2>3 DEF UpdateOther, j
<1>7. CASE ReadImage(p, d)
  <2>1. CASE Job(p, d, [j EXCEPT !.phase = "post", !.res = "error"])
    BY <1>0, <1>2, <1>7, <2>1 DEF ReadImage, j
  <2>2. CASE Job(p, d, [j EXCEPT !.phase = "flash", !.thr = "loop"])
    BY <1>0, <1>2, <1>7, <2>2 DEF ReadImage, j
  <2> QED BY <1>7, <2>1, <2>2 DEF ReadImage, j
<1>8. CASE FlashReturns(p, d)
  <2>1. CASE Job(p, d, [j EXCEPT !.phase = "stop", !.flashed = TRUE])
    BY <1>0, <1>2, <1>8, <2>1 DEF FlashReturns, j
  <2>2. CASE Job(p, d, [j EXCEPT !.phase = "stop", !.res = "error"])
    BY <1>0, <1>2, <1>8, <2>2 DEF FlashReturns, j
  <2> QED BY <1>8, <2>1, <2>2 DEF FlashReturns, j
<1>9. CASE StopProgress(p, d)
  BY <1>0, <1>2, <1>9 DEF StopProgress, j
<1>10. CASE JoinProgress(p, d)
  BY <1>0, <1>2, <1>10 DEF JoinProgress, j
<1>11. CASE PostUpdate(p, d)
  BY <1>0, <1>3, <1>11 DEF PostUpdate, j
<1>12. CASE TrackProgress(p, d)
  <2>1. CASE j.thr = "loop" /\ Job(p, d, [j EXCEPT !.thr = "last"])
    BY <1>0, <1>2, <1>12, <2>1 DEF TrackProgress, j
  <2>2. CASE j.thr = "last" /\ Job(p, d, [j EXCEPT !.thr = "ended"])
    BY <1>0, <1>2, <1>12, <2>2 DEF TrackProgress, j
  <2> QED BY <1>12, <2>1, <2>2 DEF TrackProgress, j
<1> QED BY <1>4, <1>5, <1>6, <1>7, <1>8, <1>9, <1>10, <1>11, <1>12
        DEF FwJobStep

LEMMA FwStepKeepsInv == FwInv /\ [SmiNext]_allVars => FwInv'
<1> SUFFICES ASSUME FwInv, [SmiNext]_allVars PROVE FwInv'
  OBVIOUS
<1>0. FwShape
  BY DEF FwInv
<1>1. ASSUME NEW p \in FwProcs, NEW d \in FwDevices, FwJobStep(p, d) PROVE FwInv'
  <2>1. JobMove(p, d)
    BY <1>1, JobSteps
  <2>2. PICK j \in JobType : Job(p, d, j) /\ JobGood(j, fwKind[p], fwError'[p], TRUE)
    BY <2>1 DEF JobMove
  <2>3. FwShape'
    BY <1>0, <2>1, <2>2 DEF JobMove, Job, FwShape
  <2>4. ASSUME NEW q \in FwProcs, NEW e \in FwDevices
        PROVE  JobGood(fwJob'[q][e], fwKind'[q], fwError'[q], fwPc'[q] = "work")
    <3>1. JobGood(fwJob[q][e], fwKind[q], fwError[q], fwPc[q] = "work")
      BY DEF FwInv
    <3>2. CASE q = p /\ e = d
      BY <1>0, <2>1, <2>2, <3>2 DEF JobMove, Job, FwShape
    <3>3. CASE ~(q = p /\ e = d)
      <4>1. fwJob'[q][e] = fwJob[q][e]
        BY <1>0, <2>2, <3>3 DEF Job, FwShape
      <4>2. fwKind' = fwKind /\ fwPc' = fwPc /\ (fwError[q] => fwError'[q])
        BY <2>1 DEF JobMove
      <4> QED BY <3>1, <4>1, <4>2 DEF JobGood
    <3> QED BY <3>2, <3>3
  <2>5. ASSUME NEW q \in FwProcs, q # p PROVE fwJob'[q] = fwJob[q]
    BY <1>0, <2>2, <2>5 DEF Job, FwShape
  <2>6. fwPc[p] = "work" /\ UNCHANGED <<fwPc, fwResult>>
    BY <2>1 DEF JobMove
  <2>7. ASSUME NEW q \in FwProcs
        PROVE  /\ fwPc'[q] \in {"off", "open", "flock", "check", "done"} =>
                    \A e \in FwDevices : fwJob'[q][e].phase = "none"
               /\ fwResult'[q] = "ok" =>
                    /\ fwPc'[q] \in {"unlock", "unlink", "done"}
                    /\ \A e \in FwDevices : fwJob'[q][e].phase = "done" =>
                                             fwJob'[q][e].res = "ok"
    BY <2>5, <2>6 DEF FwInv
  <2> QED BY <2>3, <2>4, <2>7 DEF FwInv
(* The other steps are of one process's main thread.                       *)
<1>2. ASSUME NEW p \in FwProcs,
             FwShape', UNCHANGED fwKind,
             UNCHANGED <<fwJob, fwError>>,
             \A q \in FwProcs : q # p => fwPc'[q] = fwPc[q] /\ fwResult'[q] = fwResult[q],
             \A d \in FwDevices : fwJob[p][d].phase \in {"none", "done"},
             fwPc'[p] \in {"off", "open", "flock", "check", "done"} =>
               \A d \in FwDevices : fwJob[p][d].phase = "none",
             fwResult'[p] = "ok" =>
               /\ fwPc'[p] \in {"unlock", "unlink", "done"}
               /\ \A d \in FwDevices : fwJob[p][d].phase = "done" => fwJob[p][d].res = "ok"
      PROVE  FwInv'
  <2>1. ASSUME NEW q \in FwProcs, NEW d \in FwDevices
        PROVE  JobGood(fwJob'[q][d], fwKind'[q], fwError'[q], fwPc'[q] = "work")
    <3>1. JobGood(fwJob[q][d], fwKind[q], fwError[q], fwPc[q] = "work")
      BY DEF FwInv
    <3> QED BY <1>2, <3>1 DEF JobGood
  <2> QED BY <1>2, <2>1 DEF FwInv
<1>3. ASSUME NEW p \in FwProcs,
             FwShape',
             \A q \in FwProcs : q # p => /\ fwPc'[q] = fwPc[q] /\ fwResult'[q] = fwResult[q]
                                         /\ fwJob'[q] = fwJob[q] /\ fwKind'[q] = fwKind[q]
                                         /\ fwError'[q] = fwError[q],
             \A d \in FwDevices :
               \/ fwJob'[p][d] = NoJob
               \/ fwPc'[p] = "work" /\ fwJob'[p][d] = [NoJob EXCEPT !.phase = "start"],
             fwPc'[p] \in {"work", "done"},
             fwResult'[p] = "ok" => fwPc'[p] = "done"
      PROVE  FwInv'
  <2>1. ASSUME NEW q \in FwProcs, NEW d \in FwDevices
        PROVE  JobGood(fwJob'[q][d], fwKind'[q], fwError'[q], fwPc'[q] = "work")
    <3>1. CASE q # p
      BY <1>3, <3>1 DEF FwInv
    <3>2. CASE q = p
      BY <1>3, <3>2 DEF JobGood, NoJob
    <3> QED BY <3>1, <3>2
  <2>2. ASSUME NEW q \in FwProcs
        PROVE  /\ fwPc'[q] \in {"off", "open", "flock", "check", "done"} =>
                    \A e \in FwDevices : fwJob'[q][e].phase = "none"
               /\ fwResult'[q] = "ok" =>
                    /\ fwPc'[q] \in {"unlock", "unlink", "done"}
                    /\ \A e \in FwDevices : fwJob'[q][e].phase = "done" =>
                                             fwJob'[q][e].res = "ok"
    <3>1. CASE q # p
      BY <1>3, <3>1 DEF FwInv
    <3>2. CASE q = p
      BY <1>3, <3>2 DEF NoJob
    <3> QED BY <3>1, <3>2
  <2> QED BY <1>3, <2>1, <2>2 DEF FwInv
<1> USE <1>0 DEF FwShape, FwGoto, FwReturn
<1>4. ASSUME NEW p \in FwProcs, StartUpdateFw(p) PROVE FwInv'
  <2>1. \A d \in FwDevices : fwJob[p][d].phase = "none"
    BY <1>4 DEF StartUpdateFw, FwInv
  <2> QED BY <1>2, <1>4, <2>1 DEF StartUpdateFw
<1>5. ASSUME NEW p \in FwProcs, OpenLock(p) PROVE FwInv'
  <2>1. \A d \in FwDevices : fwJob[p][d].phase = "none"
    BY <1>5 DEF OpenLock, FwInv
  <2>2. fwResult[p] # "ok"
    BY <1>5 DEF OpenLock, FwInv
  <2>3. \/ fwPc' = [fwPc EXCEPT ![p] = "done"] /\ fwResult' = [fwResult EXCEPT ![p] = "error"]
        \/ UNCHANGED <<fwPc, fwResult>>
        \/ fwPc' = [fwPc EXCEPT ![p] = "flock"] /\ UNCHANGED fwResult
    BY <1>5 DEF OpenLock
  <2>4. fwPc[p] = "open" /\ UNCHANGED <<fwKind, fwJob, fwError>>
    BY <1>5 DEF OpenLock
  <2> QED BY <1>2, <2>1, <2>2, <2>3, <2>4
<1>6. ASSUME NEW p \in FwProcs, TryFlock(p) PROVE FwInv'
  <2>1. (\A d \in FwDevices : fwJob[p][d].phase = "none") /\ fwResult[p] # "ok"
    BY <1>6 DEF TryFlock, FwInv
  <2> QED BY <1>2, <1>6, <2>1 DEF TryFlock
<1>7. ASSUME NEW p \in FwProcs, CheckAndStart(p) PROVE FwInv'
  <2>1. (\A d \in FwDevices : fwJob[p][d].phase = "none") /\ fwResult[p] # "ok"
    BY <1>7 DEF CheckAndStart, FwInv
  <2>2. ASSUME NEW r \in {"ok", "error"}, FwGoto(p, "unlock"), FwReturn(p, r),
               UNCHANGED <<fwKind, fwJob>>
        PROVE  FwInv'
    BY <1>2, <1>7, <2>1, <2>2 DEF CheckAndStart
  <2>3. ASSUME NEW meant \in SUBSET FwDevices,
               fwJob' = [fwJob EXCEPT ![p] =
                 [d \in FwDevices |-> [NoJob EXCEPT !.phase = IF d \in meant THEN "start"
                                                              ELSE "none"]]],
               NEW k \in FwKinds, fwKind' = [fwKind EXCEPT ![p] = k],
               FwGoto(p, "work") /\ UNCHANGED fwResult
        PROVE  FwInv'
    <3>1. fwError' = fwError
      BY <1>7 DEF CheckAndStart
    <3>2. \A d \in FwDevices :
            \/ fwJob'[p][d] = NoJob
            \/ fwJob'[p][d] = [NoJob EXCEPT !.phase = "start"]
      BY <2>3 DEF NoJob
    <3>3. fwJob' \in [FwProcs -> [FwDevices -> JobType]]
      <4>1. \A d \in FwDevices :
              [NoJob EXCEPT !.phase = IF d \in meant THEN "start" ELSE "none"] \in JobType
        <5>1. NoJob \in JobType
          BY DEF NoJob, JobType
        <5> QED BY <5>1 DEF JobType
      <4> HIDE DEF FwShape
      <4>2. [d \in FwDevices |-> [NoJob EXCEPT !.phase = IF d \in meant THEN "start"
                                                        ELSE "none"]]
              \in [FwDevices -> JobType]
        BY <4>1
      <4> QED BY <2>3, <4>2, <1>0 DEF FwShape
    <3>4. FwShape'
      BY <2>3, <3>1, <3>3
    <3> QED BY <1>3, <2>1, <2>3, <3>1, <3>2, <3>4
  <2> QED BY <1>7, <2>2, <2>3 DEF CheckAndStart
<1>8. ASSUME NEW p \in FwProcs, JoinWorkers(p) PROVE FwInv'
  <2>1. \A d \in FwDevices : fwJob[p][d].phase \in {"none", "done"}
    BY <1>8 DEF JoinWorkers
  <2>2. ASSUME ~fwError[p], NEW d \in FwDevices, fwJob[p][d].phase = "done"
        PROVE  fwJob[p][d].res = "ok"
    <3>1. JobGood(fwJob[p][d], fwKind[p], fwError[p], fwPc[p] = "work")
      BY DEF FwInv
    <3> QED BY <2>2, <3>1 DEF JobGood
  <2> QED BY <1>2, <1>8, <2>1, <2>2 DEF JoinWorkers
<1>9. ASSUME NEW p \in FwProcs, ReleaseLock(p) PROVE FwInv'
  <2>1. \A d \in FwDevices : fwJob[p][d].phase \in {"none", "done"}
    BY <1>9 DEF ReleaseLock, FwInv, JobGood
  <2> QED BY <1>2, <1>9, <2>1 DEF ReleaseLock, FwInv
<1>10. ASSUME NEW p \in FwProcs, UnlinkLock(p) PROVE FwInv'
  <2>1. NoJob \in JobType /\ "flash" \in FwKinds
    BY DEF NoJob, JobType, FwKinds
  <2>2. FwShape'
    BY <1>10, <2>1 DEF UnlinkLock
  <2> QED BY <1>3, <1>10, <2>2 DEF UnlinkLock
<1>11. CASE UNCHANGED fwVars
  BY <1>11 DEF fwVars, FwInv
<1> QED BY <1>1, <1>4, <1>5, <1>6, <1>7, <1>8, <1>9, <1>10, <1>11, FwMoves
        DEF FwNext, FwStep, FwRunStep

-----------------------------------------------------------------------------
(* The sampling loops *)

(* What is left of the command line's rows at each point, and the most     *)
(* rows there can be.                                                      *)
RowsInv ==
  LET count == dmLine.count
  IN /\ dmLine \in DumpLines
     /\ dmRows \in Nat /\ dmIter \in Int /\ dmElapsed \in Nat
     /\ dmPc \in {"start", "begin", "first", "loop", "leave", "return"} \cup DumpOver
     /\ dmQuit \in {"no", "key", "end"}
     /\ dmPc \in {"start", "begin", "first"} => dmQuit # "end"
     /\ dmPc # "start" /\ dmPc \notin DumpOver => parseSamplingTiming(dmLine)
     /\ dmPc \in {"start", "begin", "first", "refused", "killed"} => dmRows = 0
     /\ dmPc \in {"begin", "first"} => dmIter = count
     /\ dmPc = "loop" =>
          /\ dmLine.kind = "query" => dmLine.loop
          /\ dmRows > 0
          /\ count > 0 => dmRows + dmIter = count /\ dmIter >= 0 /\ (dmIter = 0 => dmQuit # "no")
          /\ dmLine.time > 0 =>
               dmRows < dmElapsed /\ (dmRows = 1 \/ dmElapsed < dmLine.time)
     /\ dmPc \in {"loop", "leave", "return"} =>
          /\ dmLine.kind = "query" => dmLine.loop
          /\ count > 0 /\ dmQuit = "end" => dmRows = count
     /\ dmPc \in {"leave", "return"} /\ count > 0 /\ dmQuit # "key" => dmRows = count
     /\ dmPc = "ended" /\ count > 0 /\ dmQuit # "key" =>
          dmRows = IF dmLine.kind = "dump" \/ dmLine.loop THEN count ELSE 1
     /\ dmRows <= MaxDumpRows + MaxEndlessRows + 2

(* The terminal is raw only under a read of the input thread; the thread   *)
(* of a query is there in its loop only, and has ended with it; a key      *)
(* ended its thread; and the file is open no longer than the loop runs.    *)
InputInv ==
  /\ dmInput \in {"none", "test", "enter", "read", "end"}
  /\ dmPc # "killed" => /\ dmRaw => dmInput = "read"
                        /\ dmQuit = "key" => dmInput = "end"
  /\ dmPc \in {"start", "refused"} => dmInput = "none"
  /\ dmLine.kind = "query" =>
       /\ dmPc \in {"begin", "first"} => dmInput = "none"
       /\ dmPc = "ended" => dmInput \in {"none", "end"}
  /\ dmLine.kind = "dump" /\ dmPc \in {"leave", "return", "ended"} => dmQuit # "no"
  /\ dmFile => dmLine.kind = "dump" /\ dmPc \notin {"start", "return", "ended"}

Snap == [ts : Nat, val : Int]
CacheType ==
  [before : [Kinds -> Snap], after : [Kinds -> Snap], pcieAvail : BOOLEAN,
   pcieBandwidthAvail : BOOLEAN, memAvail : BOOLEAN]

(* A snapshot of counter k taken by a reading that was whole, or not.      *)
TakenBy(k, whole, snapshot) ==
  /\ snapshot \in Snap /\ 0 <= snapshot.val
  /\ IF whole = None THEN snapshot.ts = 0 \/ k = "memory"
                     ELSE whole = snapshot /\ snapshot.ts > 0
  /\ snapshot.val <= 2 * (MaxDumpRows + MaxEndlessRows + 3)

(* The cache holds the snapshots of the last two samples, and a row is     *)
(* made of it.                                                             *)
CacheInv ==
  LET b == dmCache.before
      a == dmCache.after
  IN /\ dmCache \in CacheType
     /\ dmClock \in [now : Nat, since : Nat]
     /\ dmClock.now > 0 /\ dmClock.since <= dmClock.now
     /\ dmPc # "killed" => dmClock.now <= dmRows + 1
     /\ dmPc = "first" =>
          /\ \A k \in Kinds : TakenBy(k, dmSeen.cur[k], b[k])
          /\ dmCache.pcieAvail <=> b["pci"].ts # 0
     /\ dmRows > 0 =>
          /\ \A k \in Kinds : TakenBy(k, dmSeen.prev[k], b[k]) /\ TakenBy(k, dmSeen.cur[k], a[k])
          /\ dmCache.pcieAvail <=> Advanced(b["pci"], a["pci"])
          /\ dmCache.memAvail <=> dmSeen.cur["memory"] # None /\ Advanced(b["memory"], a["memory"])
          /\ dmRow = emitMetrics(dmCache)

DmInv == RowsInv /\ InputInv /\ CacheInv

LEMMA DmMoves == [SmiNext]_allVars => DmNext \/ UNCHANGED dmVars
  BY DEF SmiNext, allVars

(* Sample() adds a row.                                                    *)
LEMMA RowsStep == RowsInv /\ [SmiNext]_allVars => RowsInv'
<1> SUFFICES ASSUME RowsInv, [SmiNext]_allVars PROVE RowsInv'
  OBVIOUS
<1>0. /\ dmLine.kind \in {"dump", "query"} /\ dmLine.count \in -1 .. MaxDumpRows
      /\ dmLine.time \in 0 .. MaxDumpRows + 1 /\ MaxDumpRows \in Nat /\ MaxEndlessRows \in Nat
      /\ dmLine.kind = "query" => dmLine.time = 0
  BY DumpAssumption DEF RowsInv, DumpLine
<1> USE DEF RowsInv, DumpOver, dmMetrics
<1>1. CASE DumpRefused
  BY <1>1 DEF DumpRefused
<1>2. CASE DumpStart
  BY <1>0, <1>2 DEF DumpStart
<1>3. CASE DumpBegin
  BY <1>3 DEF DumpBegin, parseSamplingTiming
<1>4. CASE DumpFirst
  BY <1>0, <1>4 DEF DumpFirst, Sample, parseSamplingTiming
<1>5. CASE QueryFirst
  BY <1>0, <1>5 DEF QueryFirst, Sample, parseSamplingTiming
<1>6. CASE DumpTurn
  <2>1. dmRows' = dmRows + 1 /\ dmLine' = dmLine
    BY <1>6 DEF DumpTurn, Sample
  <2>2. PICK d \in {1, 2} :
       LET elapsed == dmElapsed + d
           last == dmIter = 1 \/ (dmLine.time > 0 /\ elapsed >= dmLine.time)
       IN /\ dmElapsed' = IF dmLine.time > 0 THEN elapsed ELSE dmElapsed
          /\ dmIter' = IF dmIter > 0 THEN dmIter - 1 ELSE dmIter
          /\ dmQuit' = IF last /\ dmLine.kind = "dump" THEN "end" ELSE dmQuit
          /\ dmPc' = IF last THEN "leave" ELSE "loop"
    BY <1>6 DEF DumpTurn
  <2>3. dmPc = "loop" /\ dmQuit = "no" /\ (Limited(dmLine) \/ dmRows < MaxEndlessRows)
    BY <1>6 DEF DumpTurn
  <2>4. dmRows' <= MaxDumpRows + MaxEndlessRows + 2
    BY <1>0, <2>1, <2>3 DEF Limited
  <2>5. /\ parseSamplingTiming(dmLine) /\ dmRows > 0
        /\ dmLine.kind = "query" => dmLine.loop
        /\ dmLine.count > 0 => dmRows + dmIter = dmLine.count /\ dmIter > 0
        /\ dmLine.time > 0 => dmRows < dmElapsed
    BY <2>3
  <2>6. dmElapsed' \in Nat /\ dmIter' \in Int /\ dmQuit' \in {"no", "end"}
        /\ dmPc' \in {"loop", "leave"} /\ dmRows' \in Nat
    BY <2>1, <2>2, <2>3
  <2>7. CASE dmLine.count > 0
    <3>1. dmLine.time = 0
      BY <1>0, <2>5, <2>7 DEF parseSamplingTiming
    <3>2. dmPc' = (IF dmIter = 1 THEN "leave" ELSE "loop") /\ dmIter' = dmIter - 1
          /\ (dmQuit' = "end" => dmIter = 1)
      BY <1>0, <2>2, <2>3, <2>5, <2>7, <3>1
    <3> QED BY <1>0, <2>1, <2>4, <2>5, <2>6, <2>7, <3>1, <3>2
  <2>8. CASE ~(dmLine.count > 0)
    <3>1. dmLine.time > 0 /\ dmPc' = "loop" => dmElapsed' < dmLine.time
      BY <1>0, <2>2
    <3>2. dmLine.time > 0 => dmElapsed' > dmRows'
      BY <2>1, <2>2, <2>5
    <3> QED BY <1>0, <2>1, <2>4, <2>5, <2>6, <2>8, <3>1, <3>2
  <2> QED BY <2>7, <2>8
<1>7. CASE DumpLeave
  BY <1>7 DEF DumpLeave
<1>8. CASE DumpReturn
  BY <1>0, <1>8 DEF DumpReturn
<1>9. CASE InputTest \/ getchEnter
  BY <1>9 DEF InputTest, getchEnter, InputUnchanged
<1>10. CASE getchKey
  BY <1>10 DEF getchKey, InputUnchanged
<1>11. CASE CountersRestart
  BY <1>11 DEF CountersRestart
<1>12. CASE DumpKilled
  BY <1>0, <1>12 DEF DumpKilled
<1>13. CASE UNCHANGED dmVars
  BY <1>13 DEF dmVars
<1> QED BY <1>1, <1>2, <1>3, <1>4, <1>5, <1>6, <1>7, <1>8, <1>9, <1>10, <1>11, <1>12, <1>13,
           DmMoves DEF DmNext, DumpStep

LEMMA InputStep == RowsInv /\ InputInv /\ [SmiNext]_allVars => InputInv'
<1> SUFFICES ASSUME RowsInv, InputInv, [SmiNext]_allVars PROVE InputInv'
  OBVIOUS
<1>0. /\ dmLine.kind \in {"dump", "query"} /\ (dmLine.kind = "query" => ~dmLine.file)
      /\ dmPc \in {"start", "begin", "first", "loop", "leave", "return"} \cup DumpOver
  BY DumpAssumption DEF RowsInv, DumpLine
<1> USE DEF InputInv, DumpOver, dmMetrics
<1>1. CASE DumpRefused
  BY <1>0, <1>1 DEF DumpRefused
<1>2. CASE DumpStart
  BY <1>0, <1>2 DEF DumpStart
<1>3. CASE DumpBegin
  BY <1>3 DEF DumpBegin
<1>4. CASE DumpFirst
  BY <1>0, <1>4 DEF DumpFirst, Sample
<1>5. CASE QueryFirst
  BY <1>0, <1>5 DEF QueryFirst, Sample
<1>6. CASE DumpTurn
  BY <1>0, <1>6 DEF DumpTurn
<1>7. CASE DumpLeave
  BY <1>0, <1>7 DEF DumpLeave
<1>8. CASE DumpReturn
  BY <1>0, <1>8 DEF DumpReturn
<1>9. CASE InputTest \/ getchEnter
  BY <1>0, <1>9 DEF InputTest, getchEnter, InputUnchanged
<1>10. CASE getchKey
  BY <1>0, <1>10 DEF getchKey, InputUnchanged
<1>11. CASE CountersRestart
  BY <1>11 DEF CountersRestart
<1>12. CASE DumpKilled
  BY <1>0, <1>12 DEF DumpKilled
<1>13. CASE UNCHANGED dmVars
  BY <1>13 DEF dmVars
<1> QED BY <1>1, <1>2, <1>3, <1>4, <1>5, <1>6, <1>7, <1>8, <1>9, <1>10, <1>11, <1>12, <1>13,
           DmMoves DEF DmNext, DumpStep

(* No difference of two snapshots wraps.                                   *)
LEMMA ModSmall ==
  ASSUME NEW x \in Nat, NEW m \in Int, x < m
  PROVE  x % m = x
  OBVIOUS

LEMMA SmallDifference ==
  ASSUME NEW x \in Int, NEW y \in Int, 0 <= x, x <= y,
         y <= 2 * (MaxDumpRows + MaxEndlessRows + 3)
  PROVE  (y - x) % 2 ^ CounterBits = y - x
<1>1. 2 ^ CounterBits \in Int
  BY DumpAssumption
<1>2. y - x \in Nat /\ y - x < 2 ^ CounterBits
  BY DumpAssumption, <1>1
<1> QED BY <1>1, <1>2, ModSmall

(* What one reading takes.                                                 *)
LEMMA SnapshotsTaken ==
  ASSUME NEW failed, NEW clk \in [now : Nat, since : Nat], clk.now > 0, clk.since <= clk.now,
         clk.now <= MaxDumpRows + MaxEndlessRows + 3, NEW k \in Kinds
  PROVE  /\ TakenBy(k, WholeReadings(failed, clk)[k], Snapshots(failed, clk)[k])
         /\ k = "pci" => (k \notin failed <=> Snapshots(failed, clk)[k].ts # 0)
         /\ k = "memory" => (failed \cap {"memory", "module2"} = {}
                               <=> WholeReadings(failed, clk)[k] # None)
<1> DEFINE s == Snapshots(failed, clk)[k]
           w == WholeReadings(failed, clk)[k]
           v == clk.now - clk.since
<1> SUFFICES /\ TakenBy(k, w, s)
             /\ k = "pci" => (k \notin failed <=> s.ts # 0)
             /\ k = "memory" => (failed \cap {"memory", "module2"} = {} <=> w # None)
  OBVIOUS
<1>0. v \in Nat /\ v <= MaxDumpRows + MaxEndlessRows + 3
  BY DumpAssumption
<1>1. CASE k = "memory"
  <2>1. s = getMemoryRW(failed, clk)
    BY <1>1 DEF Snapshots, getMemoryRW
  <2>2. w = IF "memory" \in failed \/ "module2" \in failed THEN None ELSE s
    BY <1>1 DEF WholeReadings
  <2>3. CASE "memory" \in failed
    BY <1>1, <2>1, <2>2, <2>3, DumpAssumption DEF getMemoryRW, TakenBy, Snap, Zero
  <2>4. CASE "memory" \notin failed
    <3>1. s \in Snap /\ s.ts = clk.now /\ (s.val = v \/ s.val = v * 2)
      BY <1>0, <2>1, <2>4 DEF getMemoryRW, Snap
    <3>2. s # None
      BY <3>1 DEF None
    <3> HIDE DEF s, w, v
    <3> QED BY <1>0, <1>1, <2>2, <2>4, <3>1, <3>2, DumpAssumption DEF TakenBy
  <2> QED BY <2>3, <2>4
<1>2. CASE k # "memory"
  <2>1. s = IF k \in failed THEN Zero ELSE [ts |-> clk.now, val |-> v]
    BY <1>2 DEF Snapshots
  <2>2. w = IF k \in failed THEN None ELSE s
    BY <1>2 DEF WholeReadings
  <2>3. CASE k \in failed
    BY <1>2, <2>1, <2>2, <2>3, DumpAssumption DEF TakenBy, Snap, Zero
  <2>4. CASE k \notin failed
    <3>1. s \in Snap /\ s.ts = clk.now /\ s.val = v
      BY <1>0, <2>1, <2>4 DEF Snap
    <3>2. s # None
      BY <3>1 DEF None
    <3> HIDE DEF s, w, v
    <3> QED BY <1>0, <1>2, <2>2, <2>4, <3>1, <3>2, DumpAssumption DEF TakenBy
  <2> QED BY <2>3, <2>4
<1> QED BY <1>1, <1>2

(* The getters of a row, given what the cache holds.                       *)
LEMMA RateHolds == CacheInv => RateOfTheTick
<1> SUFFICES ASSUME CacheInv, dmRows > 0, NEW k \in Kinds
             PROVE  LET p == dmSeen.prev[k]
                        c == dmSeen.cur[k]
                        comparable == /\ p # None /\ c # None /\ c.ts > p.ts
                                      /\ k = "pci" => dmCache.pcieBandwidthAvail
                    IN CASE comparable /\ c.val >= p.val -> dmRow[k] = c.val - p.val
                         [] comparable /\ c.val < p.val ->
                              /\ k = "engine" => dmRow[k] = 0
                              /\ k = "energy" => dmRow[k] = NA
                         [] OTHER -> dmRow[k] = NA \/ PartialBefore(k)
  BY DEF RateOfTheTick
<1> DEFINE p == dmSeen.prev[k]
           c == dmSeen.cur[k]
           b == dmCache.before[k]
           a == dmCache.after[k]
           comparable == /\ p # None /\ c # None /\ c.ts > p.ts
                         /\ k = "pci" => dmCache.pcieBandwidthAvail
<1> SUFFICES CASE comparable /\ c.val >= p.val -> dmRow[k] = c.val - p.val
               [] comparable /\ c.val < p.val ->
                    /\ k = "engine" => dmRow[k] = 0
                    /\ k = "energy" => dmRow[k] = NA
               [] OTHER -> dmRow[k] = NA \/ PartialBefore(k)
  OBVIOUS
<1>1. TakenBy(k, p, b) /\ TakenBy(k, c, a)
  BY DEF CacheInv
<1>2. b \in Snap /\ a \in Snap /\ 0 <= b.val /\ 0 <= a.val
  BY <1>1 DEF TakenBy
<1>3. b.val <= a.val => (a.val - b.val) % 2 ^ CounterBits = a.val - b.val
  BY <1>1, <1>2, SmallDifference DEF TakenBy, Snap
<1>4. /\ k = "engine" => dmRow[k] = utilFromCache(b, a)
      /\ k = "energy" => dmRow[k] = powerDraw(b, a)
      /\ k = "pci" => dmRow[k] = Throughput(dmCache, b, a)
      /\ k = "memory" => dmRow[k] = Bandwidth(dmCache, b, a)
  BY DEF CacheInv, emitMetrics
<1>5. /\ k = "pci" => (dmCache.pcieAvail <=> Advanced(b, a))
      /\ k = "memory" => (dmCache.memAvail <=> c # None /\ Advanced(b, a))
  BY DEF CacheInv
<1>6. /\ p # None => p = b /\ b.ts > 0
      /\ c # None => c = a /\ a.ts > 0
      /\ p = None => b.ts = 0 \/ k = "memory"
      /\ c = None => a.ts = 0 \/ k = "memory"
  BY <1>1 DEF TakenBy
<1>7. p = None /\ b.ts # 0 => PartialBefore(k)
  BY <1>6 DEF PartialBefore
<1> HIDE DEF p, c, b, a
<1>8. b.ts \in Nat /\ a.ts \in Nat /\ b.val \in Int /\ a.val \in Int
  BY <1>2 DEF Snap
<1> USE DEF utilFromCache, powerDraw, Throughput, Bandwidth, Advanced, NA
<1>9. CASE comparable
  <2>1. p = b /\ c = a /\ Advanced(b, a)
    BY <1>6, <1>8, <1>9
  <2>2. CASE a.val >= b.val
    <3>1. dmRow[k] = a.val - b.val
      BY <1>3, <1>4, <1>5, <1>8, <1>9, <2>1, <2>2 DEF Kinds
    <3> QED BY <1>8, <1>9, <2>1, <2>2, <3>1
  <2>3. CASE ~(a.val >= b.val)
    BY <1>4, <1>8, <1>9, <2>1, <2>3 DEF Kinds, p, c
  <2> QED BY <2>2, <2>3
<1>10. CASE ~comparable
  <2>1. dmRow[k] = NA \/ PartialBefore(k)
    BY <1>4, <1>5, <1>6, <1>7, <1>8, <1>10 DEF Kinds
  <2> QED BY <1>10, <2>1 DEF p, c
<1> QED BY <1>9, <1>10

LEMMA EmptyCacheType == EmptyCache \in CacheType
<1>1. Zero \in Snap
  BY DEF Zero, Snap
<1> HIDE DEF Zero
<1>2. [k \in Kinds |-> Zero] \in [Kinds -> Snap]
  BY <1>1
<1> QED BY <1>2 DEF EmptyCache, CacheType

(* The second half of a sample, on top of the cache with its first half.   *)
LEMMA CacheEnd ==
  ASSUME NEW cache \in CacheType, NEW failed, NEW clk \in [now : Nat, since : Nat],
         clk.now > 0, clk.since <= clk.now, clk.now <= MaxDumpRows + MaxEndlessRows + 3,
         cache.pcieAvail <=> cache.before["pci"].ts # 0
  PROVE  LET c == populateMetricCacheEnd(cache, failed, clk)
             w == WholeReadings(failed, clk)
         IN /\ c \in CacheType /\ c.before = cache.before
            /\ \A k \in Kinds : TakenBy(k, w[k], c.after[k])
            /\ c.pcieAvail <=> Advanced(c.before["pci"], c.after["pci"])
            /\ c.memAvail <=> w["memory"] # None /\ Advanced(c.before["memory"], c.after["memory"])
<1> DEFINE s == Snapshots(failed, clk)
           w == WholeReadings(failed, clk)
           c == populateMetricCacheEnd(cache, failed, clk)
<1>1. \A k \in Kinds : TakenBy(k, w[k], s[k])
  BY SnapshotsTaken
<1>2. "pci" \notin failed <=> s["pci"].ts # 0
  BY SnapshotsTaken DEF Kinds
<1>3. failed \cap {"memory", "module2"} = {} <=> w["memory"] # None
  BY SnapshotsTaken DEF Kinds
<1>4. s \in [Kinds -> Snap]
  <2>1. \A k \in Kinds : s[k] \in Snap
    BY <1>1 DEF TakenBy
  <2>2. s = [k \in Kinds |-> s[k]]
    BY DEF Snapshots
  <2> QED BY <2>1, <2>2
<1> HIDE DEF s, w
<1>5. /\ c.before = cache.before /\ c.after = s
      /\ c.pcieBandwidthAvail = cache.pcieBandwidthAvail
      /\ c.pcieAvail = (cache.pcieAvail /\ "pci" \notin failed
                          /\ s["pci"].ts > cache.before["pci"].ts)
      /\ c.memAvail = (/\ failed \cap {"memory", "module2"} = {}
                       /\ cache.before["memory"].ts # 0
                       /\ s["memory"].ts > cache.before["memory"].ts)
  BY DEF populateMetricCacheEnd, CacheType, s
<1>6. c \in CacheType
  BY <1>4 DEF populateMetricCacheEnd, CacheType, s
<1>7. cache.before["pci"].ts \in Nat /\ cache.before["memory"].ts \in Nat
      /\ s["pci"].ts \in Nat /\ s["memory"].ts \in Nat
  BY <1>4 DEF CacheType, Snap, Kinds
<1> HIDE DEF c
<1>8. c.pcieAvail <=> Advanced(c.before["pci"], c.after["pci"])
  <2>1. c.pcieAvail <=> /\ cache.pcieAvail /\ "pci" \notin failed
                        /\ s["pci"].ts > cache.before["pci"].ts
    BY <1>5
  <2>2. s["pci"].ts > cache.before["pci"].ts => s["pci"].ts # 0
    BY <1>7
  <2> QED BY <1>2, <1>5, <2>1, <2>2 DEF Advanced
<1>9. c.memAvail <=> w["memory"] # None /\ Advanced(c.before["memory"], c.after["memory"])
  BY <1>3, <1>5, <1>7 DEF Advanced
<1> QED BY <1>1, <1>5, <1>6, <1>8, <1>9 DEF c, w, s

LEMMA SampleStep ==
  ASSUME RowsInv, RowsInv', CacheInv, NEW first \in BOOLEAN, Sample(first),
         dmPc # "killed", dmPc' # "killed", dmPc' # "first",
         IF first THEN dmPc = "first" ELSE dmRows > 0
  PROVE  CacheInv'
<1>1. PICK failed \in FailureSets, step \in {0, 1} :
        /\ dmClock' = [dmClock EXCEPT !.now = @ + step]
        /\ dmCache' = IF first THEN populateMetricCacheEnd(dmCache, failed, dmClock')
                      ELSE populateMetricCacheContinuous(dmCache, failed, dmClock')
        /\ dmSeen' = [prev |-> dmSeen.cur, cur |-> WholeReadings(failed, dmClock')]
        /\ dmRow' = emitMetrics(dmCache')
        /\ dmRows' = dmRows + 1
  BY DEF Sample
<1>2. /\ dmClock' \in [now : Nat, since : Nat] /\ dmClock'.now > 0
      /\ dmClock'.since <= dmClock'.now /\ dmClock'.now <= dmRows' + 1
      /\ dmClock'.now <= MaxDumpRows + MaxEndlessRows + 3
  <2>1. /\ dmClock \in [now : Nat, since : Nat] /\ dmClock.now > 0
        /\ dmClock.since <= dmClock.now /\ dmClock.now <= dmRows + 1
    BY DEF CacheInv
  <2>2. dmRows' <= MaxDumpRows + MaxEndlessRows + 2 /\ dmRows \in Nat
    BY DEF RowsInv
  <2> QED BY <1>1, <2>1, <2>2, DumpAssumption
<1> DEFINE base ==
      IF first THEN dmCache
      ELSE [EmptyCache EXCEPT !.before = dmCache.after,
                              !.pcieAvail = dmCache.after["pci"].ts # 0,
                              !.pcieBandwidthAvail = dmCache.pcieBandwidthAvail]
<1>3. dmCache' = populateMetricCacheEnd(base, failed, dmClock')
  BY <1>1 DEF populateMetricCacheContinuous
<1>4. /\ base \in CacheType /\ (base.pcieAvail <=> base.before["pci"].ts # 0)
      /\ \A k \in Kinds : TakenBy(k, dmSeen.cur[k], base.before[k])
  <2>1. CASE first
    BY <2>1 DEF CacheInv
  <2>2. CASE ~first
    <3>1. dmCache.after \in [Kinds -> Snap] /\ dmCache.pcieBandwidthAvail \in BOOLEAN
      BY DEF CacheInv, CacheType
    <3>2. /\ base \in CacheType /\ base.before = dmCache.after
          /\ base.pcieAvail = (dmCache.after["pci"].ts # 0)
      BY <2>2, <3>1, EmptyCacheType DEF CacheType
    <3> HIDE DEF base
    <3> QED BY <2>2, <3>2 DEF CacheInv
  <2> QED BY <2>1, <2>2
<1> HIDE DEF base
<1>5. LET w == WholeReadings(failed, dmClock')
      IN /\ dmCache' \in CacheType /\ dmCache'.before = base.before
         /\ \A k \in Kinds : TakenBy(k, w[k], dmCache'.after[k])
         /\ dmCache'.pcieAvail <=> Advanced(dmCache'.before["pci"], dmCache'.after["pci"])
         /\ dmCache'.memAvail <=>
              w["memory"] # None /\ Advanced(dmCache'.before["memory"], dmCache'.after["memory"])
  BY <1>2, <1>3, <1>4, CacheEnd
<1>6. dmSeen'.prev = dmSeen.cur /\ dmSeen'.cur = WholeReadings(failed, dmClock')
  BY <1>1
<1> QED BY <1>1, <1>2, <1>4, <1>5, <1>6 DEF CacheInv

LEMMA CacheStep == DmInv /\ [SmiNext]_allVars => CacheInv'
<1> SUFFICES ASSUME RowsInv, InputInv, CacheInv, [SmiNext]_allVars PROVE CacheInv'
  BY DEF DmInv
<1>0. RowsInv'
  BY RowsStep
<1> USE DEF DumpOver
<1>1. CASE DumpBegin
  <2>1. PICK failed \in FailureSets, props \in BOOLEAN :
          /\ dmCache' = populateMetricCacheBegin(failed, props, dmClock)
          /\ dmSeen' = [dmSeen EXCEPT !.cur = WholeReadings(failed, dmClock)]
    BY <1>1 DEF DumpBegin
  <2>2. dmRows = 0 /\ dmRows' = 0 /\ dmPc = "begin" /\ dmPc' = "first" /\ dmClock' = dmClock
    BY <1>1 DEF DumpBegin, RowsInv
  <2>3. /\ dmClock \in [now : Nat, since : Nat] /\ dmClock.now > 0
        /\ dmClock.since <= dmClock.now /\ dmClock.now <= dmRows + 1
        /\ dmClock.now <= MaxDumpRows + MaxEndlessRows + 3
    BY <2>2, DumpAssumption DEF CacheInv
  <2> DEFINE s == Snapshots(failed, dmClock)
             w == WholeReadings(failed, dmClock)
  <2>4. /\ \A k \in Kinds : TakenBy(k, w[k], s[k])
        /\ "pci" \notin failed <=> s["pci"].ts # 0
    BY <2>3, SnapshotsTaken DEF Kinds
  <2>5. s \in [Kinds -> Snap]
    <3>1. \A k \in Kinds : s[k] \in Snap
      BY <2>4 DEF TakenBy
    <3>2. s = [k \in Kinds |-> s[k]]
      BY DEF Snapshots
    <3> QED BY <3>1, <3>2
  <2>6. dmCache' = [EmptyCache EXCEPT !.before = s, !.pcieAvail = "pci" \notin failed,
                                      !.pcieBandwidthAvail = props]
    BY <2>1 DEF populateMetricCacheBegin
  <2> HIDE DEF s, w
  <2>7. /\ dmCache' \in CacheType /\ dmCache'.before = s
        /\ dmCache'.pcieAvail = ("pci" \notin failed)
    BY <2>5, <2>6, EmptyCacheType DEF CacheType
  <2>8. dmSeen'.cur = w
    BY <2>1 DEF w, CacheInv
  <2>9. dmCache'.pcieAvail <=> dmCache'.before["pci"].ts # 0
    BY <2>4, <2>7
  <2>10. \A k \in Kinds : TakenBy(k, dmSeen'.cur[k], dmCache'.before[k])
    BY <2>4, <2>7, <2>8
  <2> HIDE DEF TakenBy
  <2> QED BY <2>2, <2>3, <2>7, <2>9, <2>10 DEF CacheInv
<1>2. CASE DumpFirst
  BY <1>0, <1>2, SampleStep DEF DumpFirst
<1>3. CASE QueryFirst
  <2>1. dmPc = "first" /\ dmPc' \in {"loop", "ended"} /\ Sample(TRUE)
    BY <1>3 DEF QueryFirst
  <2> QED BY <1>0, <2>1, SampleStep
<1>4. CASE DumpTurn
  <2>1. dmPc = "loop" /\ dmPc' \in {"loop", "leave"} /\ Sample(FALSE)
    BY <1>4 DEF DumpTurn
  <2>2. dmRows > 0
    BY <2>1 DEF RowsInv
  <2> QED BY <1>0, <2>1, <2>2, SampleStep
<1>5. CASE CountersRestart
  <2>1. /\ UNCHANGED <<dmCache, dmSeen, dmRow, dmRows, dmPc>>
        /\ dmClock' = [dmClock EXCEPT !.since = dmClock.now]
    BY <1>5 DEF CountersRestart
  <2>2. /\ dmClock' \in [now : Nat, since : Nat] /\ dmClock'.now = dmClock.now
        /\ dmClock'.since = dmClock.now
    BY <2>1 DEF CacheInv
  <2> QED BY <2>1, <2>2 DEF CacheInv
<1>6. CASE DumpKilled
  <2>1. /\ dmCache' = EmptyCache /\ dmRows' = 0 /\ dmPc' = "killed" /\ dmClock' = dmClock
    BY <1>6 DEF DumpKilled
  <2> QED BY <2>1, EmptyCacheType DEF CacheInv
<1>7. CASE /\ UNCHANGED <<dmCache, dmClock, dmSeen, dmRow, dmRows>>
           /\ dmPc' \in {"refused", "begin", "return", "ended"} \/ dmPc' = dmPc
           /\ dmPc # "killed" \/ dmPc' = dmPc
  BY <1>7 DEF CacheInv
<1>8. CASE DumpRefused \/ DumpStart \/ DumpLeave \/ DumpReturn
  BY <1>7, <1>8 DEF DumpRefused, DumpStart, DumpLeave, DumpReturn, dmMetrics
<1>9. CASE InputTest \/ getchEnter \/ getchKey \/ UNCHANGED dmVars
  BY <1>7, <1>9 DEF InputTest, getchEnter, getchKey, InputUnchanged, dmMetrics, dmVars
<1> QED BY <1>1, <1>2, <1>3, <1>4, <1>5, <1>6, <1>8, <1>9, DmMoves DEF DmNext, DumpStep

LEMMA DmInitially == DmInit => DmInv
<1> SUFFICES ASSUME DmInit PROVE DmInv
  OBVIOUS
<1>1. RowsInv
  BY DumpAssumption DEF DmInit, RowsInv, DumpOver
<1>2. InputInv
  BY DEF DmInit, InputInv, DumpOver
<1>3. CacheInv
  BY EmptyCacheType DEF DmInit, CacheInv
<1> QED BY <1>1, <1>2, <1>3 DEF DmInv

-----------------------------------------------------------------------------
(* What holds of every process of xpu-smi, whatever its command            *)

LEMMA AtFirst == SmiInit => ColdInv /\ FwInv /\ DmInv
<1> SUFFICES ASSUME SmiInit PROVE ColdInv /\ FwInv /\ DmInv
  OBVIOUS
<1>1. ColdInv
  BY DEF SmiInit, ColdInit, ColdInv, Slots, ColdResetIsReal
<1>2. FwInv
  <2>1. FwInit
    BY DEF SmiInit
  <2>2. NoJob \in JobType /\ NoJob.phase = "none"
    BY DEF NoJob, JobType
  <2>3. FwShape
    BY <2>1, <2>2 DEF FwInit, FwShape, FwKinds
  <2>4. \A p \in FwProcs, d \in FwDevices :
          JobGood(fwJob[p][d], fwKind[p], fwError[p], fwPc[p] = "work")
    BY <2>1, <2>2 DEF FwInit, JobGood, NoJob
  <2> QED BY <2>1, <2>2, <2>3, <2>4 DEF FwInit, FwInv
<1>3. DmInv
  BY DmInitially DEF SmiInit
<1> QED BY <1>1, <1>2, <1>3

SmiInv == ColdInv /\ FwInv /\ DmInv

LEMMA SmiStepKeepsInv == SmiInv /\ [SmiNext]_allVars => SmiInv'
  BY ColdStepKeepsInv, FwStepKeepsInv, RowsStep, InputStep, CacheStep DEF SmiInv, DmInv

LEMMA SmiInvariance == SmiSpec => []SmiInv
<1>1. SmiInit => SmiInv
  BY AtFirst DEF SmiInv
<1> QED BY <1>1, SmiStepKeepsInv, PTL DEF SmiSpec

(* coldResetViaSysfs() switches off no slot but the one of the GPU's own   *)
(* root port, and one it reports as done has cycled that slot's power and  *)
(* found the GPU again, bound where it was bound before and no write was   *)
(* refused; however many polls the waits make and whatever the kernel does *)
(* meanwhile.                                                              *)
THEOREM ColdResetsAreReal == SmiSpec => []ColdResetIsReal
<1>1. SmiInv => ColdResetIsReal
  BY DEF SmiInv, ColdInv
<1> QED BY <1>1, SmiInvariance, PTL

(* No updatefw process, of any number, of any number of devices, ends with *)
(* success while one of its workers failed or flashed nothing, and no      *)
(* progress thread runs outside the flash and the join of its worker.      *)
THEOREM FailuresOfUpdatesAreReported == SmiSpec => []UpdateReported
<1>1. SmiInv => UpdateReported
  <2> SUFFICES ASSUME FwInv PROVE UpdateReported
    BY DEF SmiInv
  <2>1. ProgressWithinUpdate
    <3> SUFFICES ASSUME NEW p \in FwProcs, NEW d \in FwDevices,
                        fwJob[p][d].thr \in {"loop", "last"}
                 PROVE  fwJob[p][d].phase \in {"flash", "stop", "join"}
      BY DEF ProgressWithinUpdate
    <3> DEFINE j == fwJob[p][d]
    <3>1. j \in JobType /\ JobGood(j, fwKind[p], fwError[p], fwPc[p] = "work")
      BY DEF FwInv, FwShape
    <3> HIDE DEF j
    <3>2. j.thr \in {"loop", "last"} => j.phase \in {"flash", "stop", "join"}
      BY <3>1 DEF JobType, JobGood
    <3> QED BY <3>2 DEF j
  <2>2. EveryFailureReported
    <3> SUFFICES ASSUME NEW p \in FwProcs, NEW d \in FwDevices, fwResult[p] = "ok",
                        fwJob[p][d].phase = "done"
                 PROVE  /\ fwJob[p][d].res = "ok" /\ fwJob[p][d].posts = 1
                        /\ fwKind[p] # "empty" => fwJob[p][d].flashed
      BY DEF EveryFailureReported
    <3>1. JobGood(fwJob[p][d], fwKind[p], fwError[p], fwPc[p] = "work")
      BY DEF FwInv
    <3>2. fwJob[p][d].res = "ok"
      BY DEF FwInv
    <3> QED BY <3>1, <3>2 DEF JobGood
  <2> QED BY <2>1, <2>2 DEF UpdateReported
<1> QED BY <1>1, SmiInvariance, PTL

(* A row of a dump or of a query holds the rates between the last two      *)
(* samples, and a counter that did not advance or was not read in both is  *)
(* not made a rate of; for any limits of rows and any order of failures.   *)
THEOREM RatesAreOfTheTick == SmiSpec => []RateOfTheTick
<1>1. SmiInv => RateOfTheTick
  BY RateHolds DEF SmiInv, DmInv
<1> QED BY <1>1, SmiInvariance, PTL

(* A dump or query that ended has closed its file, written as many rows as *)
(* were asked for unless a key ended it, and left the terminal raw only    *)
(* where the input thread was still in its read.                           *)
THEOREM DumpsEndClean == SmiSpec => []DumpEndsClean
<1>1. SmiInv => DumpEndsClean
  <2> SUFFICES ASSUME RowsInv, InputInv, dmPc = "ended"
               PROVE  /\ ~dmFile
                      /\ dmLine.count > 0 /\ dmQuit # "key" =>
                           dmRows = IF dmLine.kind = "dump" \/ dmLine.loop
                                    THEN dmLine.count ELSE 1
                      /\ dmRaw => dmLine.kind = "dump" /\ dmQuit = "end"
    BY DEF SmiInv, DmInv, DumpEndsClean
  <2>1. ~dmFile
    BY DEF InputInv
  <2>2. dmLine.count > 0 /\ dmQuit # "key" =>
          dmRows = IF dmLine.kind = "dump" \/ dmLine.loop THEN dmLine.count ELSE 1
    BY DEF RowsInv
  <2>3. dmLine.kind \in {"dump", "query"} /\ dmQuit \in {"no", "key", "end"}
    BY DumpAssumption DEF RowsInv, DumpLine
  <2>4. dmRaw => dmLine.kind = "dump" /\ dmQuit = "end"
    BY <2>3 DEF InputInv
  <2> QED BY <2>1, <2>2, <2>4
<1> QED BY <1>1, SmiInvariance, PTL

-----------------------------------------------------------------------------
(* The commands of config                                                  *)

Logged == {log[k][1] : k \in DOMAIN log}

CfgShape ==
  /\ cli \in CommandLines /\ gpu \in Gpus
  /\ cfgPc \in {"parse", "loop", "set"} \cup Ended
  /\ call \in [cmd : SetCommands \cup {"none"}, i : Nat, last : Results, any : BOOLEAN,
               found : BOOLEAN, target : Int]
  /\ wrote \in [SetCommands -> SUBSET Nat] /\ ignored \subseteq SetCommands
  /\ log \in Seq(SetCommands \X Results)
  /\ firstError \in Results

(* The books of run(): what is logged, what is yet to be run, and which    *)
(* command is under way are the commands of the line; and firstError is    *)
(* "ok" while every result was.                                            *)
RunInv ==
  /\ todo \subseteq cli.cmds
  /\ cfgPc \in {"parse", "refused"} =>
       log = <<>> /\ firstError = "ok" /\ \A c \in SetCommands : wrote[c] = {}
  /\ \A c \in todo : wrote[c] = {}
  /\ cfgPc = "set" =>
       /\ call.cmd \in cli.cmds \ todo /\ ~Rejected(call.cmd)
       /\ Logged = (cli.cmds \ todo) \ {call.cmd}
  /\ cfgPc \in {"loop", "returned"} => Logged = cli.cmds \ todo
  /\ cfgPc = "returned" => todo = {} /\ exitCode = firstError
  /\ (firstError = "ok") <=> (\A k \in DOMAIN log : log[k][2] = "ok")

(* The loop of the setter under way: which handles have the setting so far,*)
(* and what the answer it keeps says of them.                              *)
FrequencyInv ==
  /\ call.i \in 0 .. Len(gpu.freq)
  /\ call.target = Unresolved =>
       wrote[call.cmd] = {} /\ call.i = 0 /\ ~call.any /\ ~call.found /\ call.last = "ok"
  /\ call.target # Unresolved =>
       /\ IF call.target = AllDomains
            THEN cli.tile = NoTile \/ AsInt32(cli.tile) = AllDomains
            ELSE cli.tile # NoTile /\ call.target \in FrequencyOwners
       /\ wrote[call.cmd] \subseteq {h \in 1 .. call.i : FrequencyMatches(gpu.freq[h])}
       /\ call.any => wrote[call.cmd] # {}
       /\ call.target = AllDomains /\ ~call.any /\ call.last = "ok" =>
            \A h \in 1 .. call.i : ~gpu.freq[h].gpu
       /\ call.target # AllDomains /\ call.found => call.last # "ok"

FanInv ==
  LET meant == {h \in 1 .. call.i : FanMeant(h)}
  IN /\ call.i \in 0 .. Len(gpu.fan)
     /\ wrote[call.cmd] \subseteq meant
     /\ call.last = "ok" => wrote[call.cmd] = meant

CallInv ==
  cfgPc = "set" =>
    /\ call.cmd = "frequencyrange" => FrequencyInv
    /\ call.cmd \in {"standby", "clearras", "scheduler"} => wrote[call.cmd] = 1 .. call.i
    /\ call.cmd = "scheduler" /\ cli.tile # NoTile => call.i = 0
    /\ call.cmd \in Fans => FanInv
    /\ call.cmd \in {"powerlimit", "memoryecc", "pciedowngrade", "reset", "coldreset"} =>
         wrote[call.cmd] = {}

CfgInv == CfgShape /\ RunInv /\ CallInv /\ SuccessMeansApplied /\ WritesWithinSelection

(* How the process ends after run().                                       *)
ExitInv ==
  /\ smiPc = "main" => cfgPc = "parse"
  /\ smiPc = "ended" /\ cfgPc = "returned" => smiRc = IF exitCode = "ok" THEN 0 ELSE 1

LEMMA ConfigTypes ==
  ASSUME CfgShape
  PROVE  /\ cli \in CommandLine /\ gpu \in Gpu
         /\ TileBits \in Nat \ {0} /\ 2 ^ TileBits \in Int /\ 2 ^ (TileBits - 1) \in Int
<1>1. TileBits \in Nat /\ TileBits - 1 \in Nat
  BY ConfigAssumption
<1> QED BY <1>1, ConfigAssumption DEF CfgShape

(* What is said of a command's handles is about nothing else.              *)
LEMMA AppliedSame ==
  ASSUME NEW c, UNCHANGED <<cli, gpu>>, wrote'[c] = wrote[c], c \in ignored' <=> c \in ignored,
         Applied(c)
  PROVE  Applied(c)'
<1>1. CASE c = "memoryecc"
  BY <1>1 DEF Applied, Fans
<1>2. CASE c # "memoryecc"
  BY <1>2 DEF Applied, FanMeant, AsInt32
<1> QED BY <1>1, <1>2

LEMMA SelectedSame ==
  ASSUME NEW c, UNCHANGED <<cli, gpu>>, c \in ignored' <=> c \in ignored,
         cfgPc \in {"parse", "refused"} <=> cfgPc' \in {"parse", "refused"}
  PROVE  Selected(c)' = Selected(c)
<1>1. Rejected(c)' <=> Rejected(c)
  BY DEF Rejected
<1>2. c = "frequencyrange" => FrequencyOwners' = FrequencyOwners
  BY DEF FrequencyOwners, AsInt32, TileExists, SubdeviceOf
<1>3. c = "scheduler" => SchedulerOwners' = SchedulerOwners
  BY DEF SchedulerOwners, TileExists, SubdeviceOf
<1>4. \A h : FanMeant(h)' <=> FanMeant(h)
  BY DEF FanMeant
<1>5. CASE c \in Fans
  BY <1>1, <1>4, <1>5 DEF Selected, Fans
<1>6. CASE c \notin Fans
  BY <1>1, <1>2, <1>3, <1>6 DEF Selected
<1> QED BY <1>5, <1>6

Within(c) == wrote[c] \subseteq Selected(c)

LEMMA WithinSame ==
  ASSUME NEW c, UNCHANGED <<cli, gpu>>, wrote'[c] = wrote[c], c \in ignored' <=> c \in ignored,
         wrote[c] # {} => (cfgPc \in {"parse", "refused"} <=> cfgPc' \in {"parse", "refused"}),
         Within(c)
  PROVE  Within(c)'
<1>1. CASE wrote[c] = {}
  BY <1>1 DEF Within
<1>2. CASE wrote[c] # {}
  <2>1. Selected(c)' = Selected(c)
    BY <1>2, SelectedSame
  <2> QED BY <2>1 DEF Within
<1> QED BY <1>1, <1>2

(* A command function returns: r is logged, its handles are w, and g says  *)
(* whether it went on after a failed query.                                *)
Only(w) ==
  w \in [SetCommands -> SUBSET Nat] /\ \A c \in SetCommands : c # call.cmd => w[c] = wrote[c]

OnlyOwn(g) ==
  g \subseteq SetCommands
  /\ \A c \in SetCommands : c # call.cmd => (c \in g <=> c \in ignored)

LEMMA LoggedAppend ==
  ASSUME NEW c \in SetCommands, NEW r \in Results, log \in Seq(SetCommands \X Results),
         log' = Append(log, <<c, r>>)
  PROVE  /\ log' \in Seq(SetCommands \X Results)
         /\ Logged' = Logged \cup {c}
         /\ \A k \in DOMAIN log' :
              \/ k \in DOMAIN log /\ log'[k] = log[k]
              \/ log'[k] = <<c, r>>
         /\ (\A k \in DOMAIN log' : log'[k][2] = "ok") <=>
              r = "ok" /\ \A k \in DOMAIN log : log[k][2] = "ok"
<1>1. /\ log' \in Seq(SetCommands \X Results)
      /\ Len(log') = Len(log) + 1 /\ Len(log) \in Nat
      /\ DOMAIN log' = 1 .. Len(log') /\ DOMAIN log = 1 .. Len(log)
      /\ log'[Len(log) + 1] = <<c, r>>
      /\ \A k \in 1 .. Len(log) : log'[k] = log[k]
  OBVIOUS
<1>2. \A k \in DOMAIN log' :
        \/ k \in DOMAIN log /\ log'[k] = log[k]
        \/ log'[k] = <<c, r>>
  BY <1>1
<1>3. \A k \in DOMAIN log : k \in DOMAIN log' /\ log'[k] = log[k]
  BY <1>1
<1>4. Len(log) + 1 \in DOMAIN log'
  BY <1>1
<1>5. Logged' = Logged \cup {c}
  BY <1>1, <1>2, <1>3, <1>4 DEF Logged
<1>6. (\A k \in DOMAIN log' : log'[k][2] = "ok") <=>
        r = "ok" /\ \A k \in DOMAIN log : log[k][2] = "ok"
  BY <1>1, <1>2, <1>3, <1>4
<1> QED BY <1>1, <1>2, <1>5, <1>6

LEMMA FinishKeeps ==
  ASSUME CfgInv, cfgPc = "set", NEW r \in Results, NEW w, NEW g, FinishWith(r, w, g),
         Only(w), OnlyOwn(g), r = "ok" => Applied(call.cmd)', Within(call.cmd)'
  PROVE  CfgInv'
<1>1. /\ call.cmd \in SetCommands /\ call.cmd \in cli.cmds \ todo
      /\ cli.cmds \subseteq SetCommands
  BY ConfigTypes DEF CfgInv, CfgShape, RunInv, CommandLine
<1>2. /\ UNCHANGED <<cli, gpu, todo, call, exitCode>> /\ cfgPc' = "loop" /\ wrote' = w
      /\ ignored' = g /\ log' = Append(log, <<call.cmd, r>>)
      /\ firstError' = IF firstError = "ok" THEN r ELSE firstError
  BY DEF FinishWith
<1>3. /\ log' \in Seq(SetCommands \X Results)
      /\ Logged' = Logged \cup {call.cmd}
      /\ \A k \in DOMAIN log' :
           \/ k \in DOMAIN log /\ log'[k] = log[k]
           \/ log'[k] = <<call.cmd, r>>
      /\ (\A k \in DOMAIN log' : log'[k][2] = "ok") <=>
           r = "ok" /\ \A k \in DOMAIN log : log[k][2] = "ok"
  BY <1>1, <1>2, LoggedAppend DEF CfgInv, CfgShape
<1>4. CfgShape'
  BY <1>2, <1>3 DEF CfgInv, CfgShape, Only, OnlyOwn
<1>5. RunInv'
  <2>1. Logged' = cli.cmds \ todo
    BY <1>1, <1>3 DEF CfgInv, RunInv
  <2>2. (firstError' = "ok") <=> (\A k \in DOMAIN log' : log'[k][2] = "ok")
    BY <1>2, <1>3 DEF CfgInv, RunInv
  <2>3. \A c \in todo : wrote'[c] = {}
    BY <1>1, <1>2 DEF CfgInv, RunInv, Only
  <2> QED BY <1>2, <2>1, <2>2, <2>3 DEF CfgInv, RunInv
<1>6. SuccessMeansApplied'
  <2>1. \A c \in SetCommands : c = call.cmd /\ r = "ok" => Applied(c)'
    BY <1>2 DEF Applied, FanMeant, AsInt32
  <2>2. ASSUME NEW k \in DOMAIN log, log[k][2] = "ok", NEW c, c = log[k][1]
        PROVE  c \in SetCommands /\ Applied(c)'
    <3>1. c \in Logged /\ Applied(c)
      BY <2>2 DEF Logged, CfgInv, SuccessMeansApplied
    <3>2. c # call.cmd /\ c \in SetCommands
      BY <3>1, <1>1 DEF CfgInv, RunInv
    <3>3. wrote'[c] = wrote[c] /\ (c \in ignored' <=> c \in ignored)
      BY <3>2, <1>2 DEF Only, OnlyOwn
    <3> QED BY <3>1, <3>2, <3>3, <1>2, AppliedSame
  <2>3. \A k \in DOMAIN log', c \in SetCommands :
          log'[k][2] = "ok" /\ c = log'[k][1] => Applied(c)'
    BY <1>3, <2>1, <2>2
  <2> SUFFICES ASSUME NEW k \in DOMAIN log', log'[k][2] = "ok" PROVE Applied(log[k][1])'
    BY DEF SuccessMeansApplied
  <2>4. log'[k][1] \in SetCommands
    BY <1>3
  <2>5. PICK c \in SetCommands : c = log'[k][1]
    BY <2>4
  <2>6. Applied(c)'
    BY <2>3, <2>5
  <2> QED BY <2>5, <2>6 DEF Applied, FanMeant, AsInt32
<1>7. WritesWithinSelection'
  <2> SUFFICES ASSUME NEW c \in cli.cmds PROVE Within(c)'
    BY <1>2 DEF WritesWithinSelection, Within
  <2>1. CASE c = call.cmd
    BY <2>1, <1>2
  <2>2. CASE c # call.cmd
    <3>1. Within(c) /\ wrote'[c] = wrote[c] /\ (c \in ignored' <=> c \in ignored)
      BY <2>2, <1>1, <1>2 DEF CfgInv, WritesWithinSelection, Within, Only, OnlyOwn
    <3> QED BY <3>1, <1>2, WithinSame
  <2> QED BY <2>1, <2>2
<1>8. CallInv'
  BY <1>2 DEF CallInv
<1> QED BY <1>4, <1>5, <1>6, <1>7, <1>8 DEF CfgInv

(* A setter goes on with its next handle.                                  *)
LEMMA AdvanceKeeps ==
  ASSUME CfgInv, cfgPc = "set", NEW c, NEW w, NEW g, AdvanceWith(c, w, g), Only(w), OnlyOwn(g),
         c \in [cmd : SetCommands \cup {"none"}, i : Nat, last : Results, any : BOOLEAN,
                found : BOOLEAN, target : Int], c.cmd = call.cmd,
         CallInv', Within(call.cmd)'
  PROVE  CfgInv'
<1>1. /\ call.cmd \in SetCommands /\ call.cmd \in cli.cmds \ todo
      /\ cli.cmds \subseteq SetCommands
  BY ConfigTypes DEF CfgInv, CfgShape, RunInv, CommandLine
<1>2. /\ UNCHANGED <<cli, gpu, cfgPc, todo, log, firstError, exitCode>>
      /\ call' = c /\ wrote' = w /\ ignored' = g
  BY DEF AdvanceWith
<1>3. CfgShape'
  BY <1>2 DEF CfgInv, CfgShape, Only, OnlyOwn
<1>4. RunInv'
  <2>1. \A k \in todo : wrote'[k] = {}
    BY <1>1, <1>2 DEF CfgInv, RunInv, Only
  <2>2. Logged' = Logged /\ (Rejected(call.cmd)' <=> Rejected(call.cmd))
    BY <1>2 DEF Logged, Rejected
  <2> QED BY <1>2, <2>1, <2>2 DEF CfgInv, RunInv
<1>5. SuccessMeansApplied'
  <2> SUFFICES ASSUME NEW k \in DOMAIN log, log[k][2] = "ok" PROVE Applied(log[k][1])'
    BY <1>2 DEF SuccessMeansApplied
  <2>1. log[k][1] \in Logged
    BY DEF Logged
  <2>2. log[k][1] # call.cmd /\ log[k][1] \in SetCommands
    BY <2>1, <1>1 DEF CfgInv, RunInv
  <2>3. /\ Applied(log[k][1]) /\ wrote'[log[k][1]] = wrote[log[k][1]]
        /\ (log[k][1] \in ignored' <=> log[k][1] \in ignored)
    BY <2>2, <1>2 DEF CfgInv, SuccessMeansApplied, Only, OnlyOwn
  <2> QED BY <2>3, <1>2, AppliedSame
<1>6. WritesWithinSelection'
  <2> SUFFICES ASSUME NEW k \in cli.cmds PROVE Within(k)'
    BY <1>2 DEF WritesWithinSelection, Within
  <2>1. CASE k = call.cmd
    BY <2>1, <1>2
  <2>2. CASE k # call.cmd
    <3>1. Within(k) /\ wrote'[k] = wrote[k] /\ (k \in ignored' <=> k \in ignored)
      BY <2>2, <1>1, <1>2 DEF CfgInv, WritesWithinSelection, Within, Only, OnlyOwn
    <3> QED BY <3>1, <1>2, WithinSame
  <2> QED BY <2>1, <2>2
<1> QED BY <1>3, <1>4, <1>5, <1>6 DEF CfgInv

CallType ==
  [cmd : SetCommands \cup {"none"}, i : Nat, last : Results, any : BOOLEAN,
   found : BOOLEAN, target : Int]

(* What the four ways out of a setter's step ask of it: it returns or goes *)
(* on, with one more handle set or none.                                   *)
LEMMA InCall ==
  ASSUME CfgInv, cfgPc = "set"
  PROVE  /\ call.cmd \in SetCommands /\ call \in CallType /\ Within(call.cmd)
         /\ Only(wrote) /\ OnlyOwn(ignored) /\ OnlyOwn(Overlooked)
         /\ \A h \in Nat : Only(Took(h)) /\ Took(h)[call.cmd] = wrote[call.cmd] \cup {h}
<1>1. call.cmd \in SetCommands /\ call.cmd \in cli.cmds
  BY ConfigTypes DEF CfgInv, CfgShape, RunInv, CommandLine
<1>2. Within(call.cmd)
  BY <1>1 DEF CfgInv, WritesWithinSelection, Within
<1>3. ASSUME NEW h \in Nat
      PROVE  Only(Took(h)) /\ Took(h)[call.cmd] = wrote[call.cmd] \cup {h}
  BY <1>1 DEF Took, Only, CfgInv, CfgShape
<1>4. Only(wrote)
  BY DEF Only, CfgInv, CfgShape
<1>5. OnlyOwn(ignored) /\ OnlyOwn(Overlooked)
  BY <1>1 DEF OnlyOwn, Overlooked, CfgInv, CfgShape
<1> QED BY <1>1, <1>2, <1>3, <1>4, <1>5 DEF CfgInv, CfgShape, CallType

LEMMA FinishSame ==
  ASSUME CfgInv, cfgPc = "set", NEW r \in Results, Finish(r, wrote),
         r = "ok" => Applied(call.cmd)
  PROVE  CfgInv'
<1>1. /\ UNCHANGED <<cli, gpu, call, wrote, ignored>> /\ cfgPc' = "loop"
      /\ FinishWith(r, wrote, ignored)
  BY DEF Finish, FinishWith
<1>2. Within(call.cmd)'
  <2>1. \A c : c = call.cmd => Within(c)'
    BY <1>1, InCall, WithinSame
  <2> QED BY <2>1, <1>1
<1>3. r = "ok" => Applied(call.cmd)'
  <2>1. \A c : c = call.cmd /\ Applied(c) => Applied(c)'
    BY <1>1, AppliedSame
  <2> QED BY <2>1, <1>1
<1> QED BY <1>1, <1>2, <1>3, InCall, FinishKeeps

LEMMA FinishTook ==
  ASSUME CfgInv, cfgPc = "set", NEW r \in Results, NEW h \in Nat, Finish(r, Took(h)),
         r = "ok" => Applied(call.cmd)', h \in Selected(call.cmd)
  PROVE  CfgInv'
<1>1. /\ UNCHANGED <<cli, gpu, call, ignored>> /\ cfgPc' = "loop" /\ wrote' = Took(h)
      /\ FinishWith(r, Took(h), ignored)
  BY DEF Finish, FinishWith
<1>2. Within(call.cmd)'
  <2>1. wrote'[call.cmd] = wrote[call.cmd] \cup {h} /\ wrote[call.cmd] \subseteq Selected(call.cmd)
    BY <1>1, InCall DEF Within
  <2>2. \A c : c = call.cmd => Selected(c)' = Selected(c)
    BY <1>1, SelectedSame
  <2>3. Selected(call.cmd)' = Selected(call.cmd)
    BY <1>1, <2>2
  <2> QED BY <1>1, <2>1, <2>3 DEF Within
<1> QED BY <1>1, <1>2, InCall, FinishKeeps

LEMMA AdvanceSame ==
  ASSUME CfgInv, cfgPc = "set", NEW c \in CallType, c.cmd = call.cmd, Advance(c, wrote),
         CallInv'
  PROVE  CfgInv'
<1>1. UNCHANGED <<cli, gpu, wrote, ignored, cfgPc>> /\ call' = c /\ AdvanceWith(c, wrote, ignored)
  BY DEF Advance, AdvanceWith
<1>2. Within(call.cmd)'
  <2>1. \A k : k = call.cmd => Within(k)'
    BY <1>1, InCall, WithinSame
  <2> QED BY <2>1, <1>1
<1> QED BY <1>1, <1>2, InCall, AdvanceKeeps DEF CallType

LEMMA AdvanceTook ==
  ASSUME CfgInv, cfgPc = "set", NEW c \in CallType, c.cmd = call.cmd, NEW h \in Nat,
         Advance(c, Took(h)), CallInv', h \in Selected(call.cmd)
  PROVE  CfgInv'
<1>1. /\ UNCHANGED <<cli, gpu, cfgPc, ignored>> /\ call' = c /\ wrote' = Took(h)
      /\ AdvanceWith(c, Took(h), ignored)
  BY DEF Advance, AdvanceWith
<1>2. Within(call.cmd)'
  <2>1. wrote'[call.cmd] = wrote[call.cmd] \cup {h} /\ wrote[call.cmd] \subseteq Selected(call.cmd)
    BY <1>1, InCall DEF Within
  <2>2. \A k : k = call.cmd => Selected(k)' = Selected(k)
    BY <1>1, SelectedSame
  <2>3. Selected(call.cmd)' = Selected(call.cmd)
    BY <1>1, <2>2
  <2> QED BY <1>1, <2>1, <2>3 DEF Within
<1> QED BY <1>1, <1>2, InCall, AdvanceKeeps DEF CallType

LEMMA AnyHandle ==
  ASSUME CfgInv, cfgPc = "set", call.cmd \notin Fans \cup {"frequencyrange", "scheduler"}
  PROVE  Selected(call.cmd) = Nat
  BY DEF Selected, CfgInv, RunInv, Fans

-----------------------------------------------------------------------------
(* The setters, one by one                                                 *)

LEMMA SetEachKeeps ==
  ASSUME CfgInv, NEW c \in {"standby", "clearras", "scheduler"},
         NEW n \in Nat, c = "scheduler" => cli.tile = NoTile /\ n = Len(gpu.sched), NEW none \in Results, SetEach(c, n, none),
         wrote[c] = 1 .. n /\ (n = 0 => none = "ok") => Applied(c)
  PROVE  CfgInv'
<1>1. cfgPc = "set" /\ call.cmd = c /\ call.i \in Nat /\ call \in CallType
  BY InCall DEF SetEach, Running, CfgInv, CfgShape
<1>2. wrote[c] = 1 .. call.i
  BY <1>1 DEF CfgInv, CallInv
<1>3. \A h \in 1 .. n : h \in Selected(call.cmd)
  <2>1. CASE c # "scheduler"
    BY <1>1, <2>1, AnyHandle DEF Fans
  <2>2. CASE c = "scheduler"
    <3>1. Selected(call.cmd) = {h \in DOMAIN gpu.sched : gpu.sched[h] \in Owner}
      BY <1>1, <2>2 DEF Selected, SchedulerOwners, Fans, CfgInv, RunInv
    <3>2. gpu.sched \in Seq(Owner) /\ n = Len(gpu.sched)
      BY <2>2, ConfigTypes DEF CfgInv, Gpu
    <3> QED BY <3>1, <3>2
  <2> QED BY <2>1, <2>2
<1>4. CASE call.i = n /\ Finish(IF n = 0 THEN none ELSE "ok", wrote)
  <2>1. (IF n = 0 THEN none ELSE "ok") \in Results
    BY DEF Results
  <2> QED BY <1>1, <1>2, <1>4, <2>1, FinishSame
<1>5. CASE Finish("driver", wrote)
  BY <1>1, <1>5, FinishSame DEF Results
<1>6. CASE call.i < n /\ Advance([call EXCEPT !.i = @ + 1], Took(call.i + 1))
  <2> DEFINE c2 == [call EXCEPT !.i = @ + 1]
  <2>1. c2 \in CallType /\ c2.cmd = c /\ c2.i = call.i + 1
    BY <1>1 DEF CallType
  <2>2. call' = c2 /\ cfgPc' = cfgPc /\ cli' = cli /\ wrote' = Took(call.i + 1)
    BY <1>6 DEF Advance, AdvanceWith
  <2> HIDE DEF c2
  <2>3. wrote'[c] = 1 .. call.i + 1
    <3>1. Took(call.i + 1)[call.cmd] = wrote[call.cmd] \cup {call.i + 1}
      BY <1>1, InCall
    <3>2. 1 .. call.i + 1 = (1 .. call.i) \cup {call.i + 1}
      BY <1>1
    <3> QED BY <1>1, <1>2, <2>2, <3>1, <3>2
  <2>4. CallInv'
    BY <1>1, <2>1, <2>2, <2>3 DEF CallInv, Fans
  <2>5. Advance(c2, Took(call.i + 1)) /\ call.i + 1 \in 1 .. n
    BY <1>1, <1>6 DEF c2
  <2> QED BY <1>1, <1>3, <2>1, <2>4, <2>5, AdvanceTook
<1> QED BY <1>4, <1>5, <1>6 DEF SetEach

LEMMA StandbyKeeps == CfgInv /\ SetStandby => CfgInv'
<1> SUFFICES ASSUME CfgInv, SetStandby PROVE CfgInv'
  OBVIOUS
<1>1. gpu.standby \in Nat /\ "ok" \in Results
  BY ConfigTypes DEF CfgInv, Gpu, Results
<1>2. wrote["standby"] = 1 .. gpu.standby => Applied("standby")
  BY DEF Applied, Fans
<1> QED BY <1>1, <1>2, SetEachKeeps DEF SetStandby

LEMMA ClearErrorsKeeps == CfgInv /\ ClearErrors => CfgInv'
<1> SUFFICES ASSUME CfgInv, ClearErrors PROVE CfgInv'
  OBVIOUS
<1>1. gpu.ras \in Nat /\ "unsupported" \in Results
  BY ConfigTypes DEF CfgInv, Gpu, Results
<1>2. wrote["clearras"] = 1 .. gpu.ras /\ gpu.ras # 0 => Applied("clearras")
  BY <1>1 DEF Applied, Fans
<1> QED BY <1>1, <1>2, SetEachKeeps DEF ClearErrors

LEMMA SchedulerAllKeeps == CfgInv /\ SetSchedulerAll => CfgInv'
<1> SUFFICES ASSUME CfgInv, SetSchedulerAll PROVE CfgInv'
  OBVIOUS
<1>1. /\ Len(gpu.sched) \in Nat /\ "ok" \in Results
      /\ DOMAIN gpu.sched = 1 .. Len(gpu.sched) /\ cli.tile = NoTile
  BY ConfigTypes DEF CfgInv, Gpu, Results, SetSchedulerAll
<1>2. wrote["scheduler"] = 1 .. Len(gpu.sched) => Applied("scheduler")
  BY <1>1 DEF Applied, Fans
<1> QED BY <1>1, <1>2, SetEachKeeps DEF SetSchedulerAll

(* A nonempty set of numbers has a smallest one.                           *)
LEMMA SmallestIsIn ==
  ASSUME NEW S, S \subseteq Nat, S # {}
  PROVE  \E m \in S : \A k \in S : m <= k
<1> DEFINE R == OpToRel(<, Nat)
<1>1. \A x, y \in Nat : x < y => <<x, y>> \in R
  BY DEF OpToRel
<1>2. IsWellFoundedOn(R, Nat)
  BY NatLessThanWellFounded
<1> HIDE DEF R
<1>3. PICK m \in S : \A k \in S : <<k, m>> \notin R
  BY ONLY <1>2, WFMin, S # {}, S \subseteq Nat
<1>4. \A k \in S : m <= k
  <2> SUFFICES ASSUME NEW k \in S PROVE m <= k
    OBVIOUS
  <2>1. k \in Nat /\ m \in Nat /\ <<k, m>> \notin R
    BY <1>3
  <2>2. ~ (k < m)
    BY <2>1, <1>1, Zenon
  <2> QED BY <2>1, <2>2
<1> QED BY <1>3, <1>4

(* Min of handles that were enumerated is one of them.                     *)
LEMMA MinIsIn ==
  ASSUME NEW n \in Nat, NEW S \in SUBSET (1 .. n), S # {}
  PROVE  Min(S) \in S
<1>1. S \subseteq Nat
  OBVIOUS
<1>2. PICK m \in S : \A k \in S : m <= k
  BY <1>1, SmallestIsIn
<1> QED BY <1>2, Zenon DEF Min

(* A setter that writes one handle of its own and then returns.            *)
LEMMA OneHandle ==
  ASSUME CfgInv, cfgPc = "set", NEW h \in Nat, NEW g, FinishWith("ok", Took(h), g),
         wrote[call.cmd] = {}
  PROVE  /\ wrote'[call.cmd] = {h} /\ Cardinality(wrote'[call.cmd]) = 1
         /\ UNCHANGED <<cli, gpu, call>>
<1>1. wrote'[call.cmd] = {} \cup {h} /\ UNCHANGED <<cli, gpu, call>>
  BY InCall DEF FinishWith
<1>2. wrote'[call.cmd] = {h}
  BY <1>1
<1> QED BY <1>1, <1>2, FS_Singleton

LEMMA SchedulerTileKeeps == CfgInv /\ SetSchedulerTile => CfgInv'
<1> SUFFICES ASSUME CfgInv, SetSchedulerTile PROVE CfgInv'
  OBVIOUS
<1>1. /\ cfgPc = "set" /\ call.cmd = "scheduler" /\ cli.tile # NoTile /\ call.i = 0
      /\ wrote["scheduler"] = {} /\ ~Rejected("scheduler")
  BY DEF SetSchedulerTile, Running, CfgInv, CallInv, RunInv
<1>2. \A r \in Results : r # "ok" /\ Finish(r, wrote) => CfgInv'
  BY <1>1, FinishSame
<1>3. {"driver", "invalid", "unsupported", "notavail"} \subseteq Results
  BY DEF Results
<1>4. ASSUME NEW readable \in SUBSET DOMAIN gpu.sched, NEW pick, NEW g,
             g = IF readable = DOMAIN gpu.sched THEN ignored ELSE Overlooked,
             pick = LET of(x) == {h \in readable : gpu.sched[h] = x}
                    IN IF of(SubdeviceOf(cli.tile)) # {} THEN of(SubdeviceOf(cli.tile))
                       ELSE of(OnDevice),
             pick # {}, TileExists(cli.tile), FinishWith("ok", Took(Min(pick)), g)
      PROVE  CfgInv'
  <2>1. DOMAIN gpu.sched = 1 .. Len(gpu.sched) /\ Len(gpu.sched) \in Nat
    BY ConfigTypes DEF CfgInv, Gpu
  <2>2. pick \subseteq readable
    BY <1>4
  <2>3. Min(pick) \in pick
    <3>1. pick \in SUBSET (1 .. Len(gpu.sched))
      BY <2>1, <2>2
    <3> QED BY <3>1, <2>1, <1>4, MinIsIn
  <2> DEFINE h == Min(pick)
  <2>4. h \in Nat /\ h \in DOMAIN gpu.sched
    BY <2>1, <2>2, <2>3
  <2>5. \/ gpu.sched[h] = SubdeviceOf(cli.tile)
        \/ /\ gpu.sched[h] = OnDevice
           /\ \A k \in readable : gpu.sched[k] # SubdeviceOf(cli.tile)
    BY <2>3, <1>4
  <2> HIDE DEF h
  <2>6. FinishWith("ok", Took(h), g) /\ wrote' = Took(h) /\ ignored' = g
        /\ UNCHANGED <<cli, gpu, call>> /\ cfgPc' = "loop"
    BY <1>4 DEF h, FinishWith
  <2>7. gpu.sched[h] \in SchedulerOwners'
    <3>1. CASE gpu.sched[h] = SubdeviceOf(cli.tile)
      BY <1>1, <1>4, <2>6, <3>1 DEF SchedulerOwners, TileExists, SubdeviceOf
    <3>2. CASE gpu.sched[h] # SubdeviceOf(cli.tile)
      <4>1. \/ "scheduler" \in ignored'
            \/ \A k \in DOMAIN gpu.sched : gpu.sched[k] # SubdeviceOf(cli.tile)
        BY <1>1, <1>4, <2>5, <2>6, <3>2 DEF Overlooked
      <4>2. TileExists(cli.tile)' /\ SubdeviceOf(cli.tile)' = SubdeviceOf(cli.tile)
        BY <1>4, <2>6 DEF TileExists, SubdeviceOf
      <4> QED BY <1>1, <2>5, <2>6, <3>2, <4>1, <4>2 DEF SchedulerOwners
    <3> QED BY <3>1, <3>2
  <2>8. Within(call.cmd)'
    <3>1. wrote'["scheduler"] = {h}
      BY <1>1, <2>4, <2>6, OneHandle
    <3>2. ~Rejected("scheduler")'
      BY <1>1, <2>6 DEF Rejected
    <3>3. Selected("scheduler")' = {k \in DOMAIN gpu.sched : gpu.sched[k] \in SchedulerOwners'}
      BY <2>6, <3>2 DEF Selected, Fans
    <3> QED BY <1>1, <2>4, <2>6, <2>7, <3>1, <3>3 DEF Within
  <2>9. Applied(call.cmd)'
    BY <1>1, <2>4, <2>6, OneHandle DEF Applied, Fans
  <2>10. Only(Took(h)) /\ OnlyOwn(g)
    BY <1>1, <1>4, <2>4, InCall
  <2>11. "ok" \in Results
    BY DEF Results
  <2> QED BY <1>1, <2>6, <2>8, <2>9, <2>10, <2>11, FinishKeeps
<1> QED BY <1>2, <1>3, <1>4 DEF SetSchedulerTile

LEMMA PowerLimitKeeps == CfgInv /\ SetPowerLimit => CfgInv'
<1> SUFFICES ASSUME CfgInv, SetPowerLimit PROVE CfgInv'
  OBVIOUS
<1>1. /\ cfgPc = "set" /\ call.cmd = "powerlimit" /\ wrote["powerlimit"] = {}
  BY DEF SetPowerLimit, Running, CfgInv, CallInv
<1>2. \A r \in Results : r # "ok" /\ Finish(r, wrote) => CfgInv'
  BY <1>1, FinishSame
<1>3. {"driver", "unknown", "unsupported", "notavail"} \subseteq Results
  BY DEF Results
<1> PICK readable \in SUBSET DOMAIN gpu.power : SetLimitsExt(readable)
  BY DEF SetPowerLimit
<1> DEFINE root == {h \in readable : gpu.power[h].on = OnDevice}
<1>4. ASSUME root # {}, Finish("ok", Took(Min(root)))
      PROVE  CfgInv'
  <2>1. DOMAIN gpu.power = 1 .. Len(gpu.power) /\ Len(gpu.power) \in Nat
    BY ConfigTypes DEF CfgInv, Gpu
  <2>2. Min(root) \in Nat
    <3>1. root \in SUBSET (1 .. Len(gpu.power))
      BY <2>1
    <3>2. Min(root) \in root
      BY <3>1, <2>1, <1>4, MinIsIn
    <3> QED BY <3>1, <3>2, <2>1
  <2>3. Selected(call.cmd) = Nat
    BY <1>1, AnyHandle DEF Fans
  <2>4. Applied(call.cmd)'
    BY <1>1, <1>4, <2>2, OneHandle DEF Applied, Fans, Finish
  <2> QED BY <1>1, <1>4, <2>2, <2>3, <2>4, FinishTook DEF Results
<1>5. \/ \E r \in {"driver", "unknown", "unsupported", "notavail"} : Finish(r, wrote)
      \/ root # {} /\ Finish("ok", Took(Min(root)))
  BY DEF SetLimitsExt
<1> QED BY <1>2, <1>3, <1>4, <1>5

LEMMA MemoryEccKeeps == CfgInv /\ SetMemoryEcc => CfgInv'
<1> SUFFICES ASSUME CfgInv, SetMemoryEcc PROVE CfgInv'
  OBVIOUS
<1>1. /\ cfgPc = "set" /\ call.cmd = "memoryecc" /\ wrote["memoryecc"] = {}
  BY DEF SetMemoryEcc, Running, CfgInv, CallInv
<1>2. \A r \in Results : r # "ok" /\ Finish(r, wrote) => CfgInv'
  BY <1>1, FinishSame
<1>3. CASE Finish("ok", Took(0))
  <2>1. Selected(call.cmd) = Nat
    BY <1>1, AnyHandle DEF Fans
  <2>2. Applied(call.cmd)'
    BY <1>1, <1>3, OneHandle DEF Applied, Fans, Finish
  <2> QED BY <1>1, <1>3, <2>1, <2>2, FinishTook DEF Results
<1>4. CASE ~gpu.ecc /\ Finish("ok", wrote) /\ ~cli.on
  <2>1. Applied(call.cmd)
    BY <1>1, <1>4 DEF Applied, Fans
  <2> QED BY <1>1, <1>4, <2>1, FinishSame DEF Results
<1>5. CASE \E r \in {"driver", "unknown", "unsupported"} : Finish(r, wrote)
  BY <1>2, <1>5 DEF Results
<1>6. CASE FinishWith(IF cli.on THEN "unsupported" ELSE "ok", wrote, Overlooked)
  <2> DEFINE r == IF cli.on THEN "unsupported" ELSE "ok"
  <2>1. r \in Results
    BY DEF Results
  <2>2. /\ UNCHANGED <<cli, gpu, call, wrote>> /\ ignored' = Overlooked
    BY <1>6 DEF FinishWith
  <2>3. r = "ok" => Applied(call.cmd)'
    BY <1>1, <2>2 DEF Applied, Fans, Overlooked
  <2>4. Within(call.cmd)'
    BY <1>1, <2>2 DEF Within
  <2>5. FinishWith(r, wrote, Overlooked) /\ Only(wrote) /\ OnlyOwn(Overlooked)
    BY <1>1, <1>6, InCall
  <2> HIDE DEF r
  <2> QED BY <1>1, <2>1, <2>3, <2>4, <2>5, FinishKeeps
<1> QED BY <1>3, <1>4, <1>5, <1>6 DEF SetMemoryEcc, EccSetState

LEMMA PcieKeeps == CfgInv /\ SetPCIeGenUpdate => CfgInv'
<1> SUFFICES ASSUME CfgInv, SetPCIeGenUpdate PROVE CfgInv'
  OBVIOUS
<1>1. /\ cfgPc = "set" /\ call.cmd = "pciedowngrade" /\ wrote["pciedowngrade"] = {}
      /\ gpu.pcie \in {"on", "off", "none"} /\ cli.on \in BOOLEAN
  BY ConfigTypes DEF SetPCIeGenUpdate, Running, CfgInv, CallInv, Gpu, CommandLine
<1>2. CASE \E r \in {"driver", "unsupported"} : Finish(r, wrote)
  BY <1>1, <1>2, FinishSame DEF Results
<1>3. CASE gpu.pcie # "none" /\ (gpu.pcie = "on") = cli.on /\ Finish("ok", wrote)
  <2>1. Applied(call.cmd)
    BY <1>1, <1>3 DEF Applied, Fans
  <2> QED BY <1>1, <1>3, <2>1, FinishSame DEF Results
<1>4. CASE gpu.pcie # "none" /\ (gpu.pcie = "on") # cli.on /\ Finish("ok", Took(0))
  <2>1. Selected(call.cmd) = Nat
    BY <1>1, AnyHandle DEF Fans
  <2>2. Applied(call.cmd)'
    BY <1>1, <1>4, OneHandle DEF Applied, Fans, Finish
  <2> QED BY <1>1, <1>4, <2>1, <2>2, FinishTook DEF Results
<1> QED BY <1>2, <1>3, <1>4 DEF SetPCIeGenUpdate, PcieDowngrade

LEMMA FrequencyTargetKeeps == CfgInv /\ ResolveFrequencyTarget => CfgInv'
<1> SUFFICES ASSUME CfgInv, ResolveFrequencyTarget PROVE CfgInv'
  OBVIOUS
<1> DEFINE t == IF cli.tile = NoTile THEN AllDomains ELSE AsInt32(cli.tile)
<1>1. /\ cfgPc = "set" /\ call.cmd = "frequencyrange" /\ call.target = Unresolved
      /\ call \in CallType /\ FrequencyInv /\ cli.tile # BadTile
      /\ "frequencyrange" \in SetCommands
  BY InCall DEF ResolveFrequencyTarget, Running, CfgInv, CallInv, RunInv, Rejected
<1>2. t \in Int /\ gpu.sub \in Seq(Nat)
  <2>1. cli.tile \in Int
    BY ConfigTypes DEF CfgInv, CommandLine, NoTile, BadTile
  <2> QED BY <2>1, ConfigTypes DEF CfgInv, AsInt32, AllDomains, Gpu
<1>3. \A r \in Results : r # "ok" /\ Finish(r, wrote) => CfgInv'
  BY <1>1, FinishSame
<1>2a. t >= 0 => cli.tile # NoTile /\ cli.tile = t /\ AsInt32(cli.tile) = t
  <2>1. cli.tile # NoTile => cli.tile \in 0 .. 2 ^ TileBits - 1 /\ t = AsInt32(cli.tile)
    BY <1>1, ConfigTypes DEF CfgInv, CommandLine
  <2>2. 2 ^ TileBits \in Int /\ 2 ^ (TileBits - 1) \in Int
    BY ConfigTypes DEF CfgInv
  <2> QED BY <2>1, <2>2 DEF AsInt32, AllDomains
<1>4. ASSUME NEW x \in Int, x # Unresolved, NEW g, g = ignored \/ g = Overlooked,
             AdvanceWith([call EXCEPT !.target = x], wrote, g),
             \/ x = AllDomains /\ t = AllDomains
             \/ x = OnDevice /\ t = 0 /\ (gpu.sub = <<>> \/ g = Overlooked)
             \/ x = SubdeviceOf(t) /\ t >= 0 /\ gpu.sub # <<>> /\ TileExists(t) /\ x # AllDomains
      PROVE  CfgInv'
  <2> DEFINE c2 == [call EXCEPT !.target = x]
  <2>1. /\ c2 \in CallType /\ c2.cmd = call.cmd /\ c2.i = 0 /\ ~c2.any /\ ~c2.found
        /\ c2.last = "ok" /\ c2.target = x
    BY <1>1 DEF CallType, FrequencyInv
  <2>2. call' = c2 /\ ignored' = g /\ UNCHANGED <<cfgPc, cli, gpu, wrote>>
        /\ AdvanceWith(c2, wrote, g)
    BY <1>4 DEF AdvanceWith
  <2> HIDE DEF c2
  <2>3. FrequencyInv'
    <3>1. call'.i = 0 /\ call'.i \in 0 .. Len(gpu'.freq)
      BY <1>1, <2>1, <2>2 DEF FrequencyInv
    <3>2. CASE x = AllDomains /\ t = AllDomains
      <4>1. cli'.tile = NoTile \/ AsInt32(cli.tile)' = AllDomains
        BY <2>2, <3>2 DEF AsInt32
      <4>2. wrote'[call'.cmd] = {} /\ call'.target = AllDomains
        BY <1>1, <2>1, <2>2, <3>2 DEF FrequencyInv
      <4> QED BY <1>4, <2>1, <2>2, <3>1, <4>1, <4>2 DEF FrequencyInv
    <3>3. CASE t >= 0 /\ x # AllDomains
      <4>1. cli.tile # NoTile /\ cli.tile = t /\ AsInt32(cli.tile) = t /\ t # AllDomains
        BY <1>2a, <3>3 DEF AllDomains
      <4>2. AsInt32(cli.tile)' = t /\ cli'.tile = t /\ TileExists(cli.tile)' = TileExists(t)
            /\ SubdeviceOf(cli.tile)' = SubdeviceOf(t) /\ gpu' = gpu
        BY <2>2, <4>1 DEF AsInt32, TileExists, SubdeviceOf
      <4>3. TileExists(t)
        <5>1. CASE x = OnDevice /\ t = 0
          BY <1>2, <5>1 DEF TileExists
        <5>2. CASE TileExists(t)
          BY <5>2
        <5> QED BY <1>4, <3>3, <5>1, <5>2
      <4>4. x \in FrequencyOwners'
        <5>1. FrequencyOwners' =
                IF gpu.sub = <<>> THEN {OnDevice}
                ELSE {SubdeviceOf(t)}
                       \cup {o \in {OnDevice} : t = 0 /\ "frequencyrange" \in ignored'}
          BY <4>1, <4>2, <4>3 DEF FrequencyOwners
        <5>2. g = Overlooked => "frequencyrange" \in ignored'
          BY <1>1, <2>2 DEF Overlooked
        <5> QED BY <1>4, <3>3, <5>1, <5>2
      <4>5. wrote'[call'.cmd] = {} /\ call'.target = x /\ cli'.tile # NoTile
        BY <1>1, <2>1, <2>2, <4>1 DEF FrequencyInv
      <4> QED BY <1>4, <2>1, <3>1, <2>2, <3>3, <4>4, <4>5 DEF FrequencyInv
    <3> QED BY <1>4, <3>2, <3>3 DEF AllDomains, OnDevice
  <2>4. CallInv'
    BY <1>1, <2>1, <2>2, <2>3 DEF CallInv, Fans
  <2>5. Within(call.cmd)'
    <3>1. wrote'[call'.cmd] = {} /\ call'.cmd = call.cmd
      BY <1>1, <2>1, <2>2 DEF FrequencyInv
    <3> QED BY <3>1 DEF Within
  <2>6. Only(wrote) /\ OnlyOwn(g)
    BY <1>1, <1>4, InCall
  <2> QED BY <1>1, <2>1, <2>2, <2>4, <2>5, <2>6, AdvanceKeeps DEF CallType
<1>5. CASE t = AllDomains /\ Advance([call EXCEPT !.target = AllDomains], wrote)
  <2>1. AllDomains \in Int /\ AllDomains # Unresolved
    BY DEF AllDomains, Unresolved
  <2>2. AdvanceWith([call EXCEPT !.target = AllDomains], wrote, ignored)
    BY <1>5 DEF Advance
  <2> QED BY <1>4, <1>5, <2>1, <2>2
<1>6. CASE /\ t = 0
           /\ \/ gpu.sub = <<>> /\ Advance([call EXCEPT !.target = OnDevice], wrote)
              \/ AdvanceWith([call EXCEPT !.target = OnDevice], wrote, Overlooked)
  <2>1. OnDevice \in Int /\ OnDevice # Unresolved
    BY DEF Unresolved, OnDevice
  <2> QED BY <1>4, <1>6, <2>1 DEF Advance
<1>7. CASE /\ t >= 0 /\ gpu.sub # <<>> /\ TileExists(t)
           /\ Advance([call EXCEPT !.target = SubdeviceOf(t)], wrote)
  <2>1. t + 1 \in 1 .. Len(gpu.sub)
    BY <1>2, <1>7 DEF TileExists
  <2>2. SubdeviceOf(t) \in Nat
    BY <1>2, <2>1, <1>7 DEF SubdeviceOf
  <2>3. SubdeviceOf(t) \in Int /\ SubdeviceOf(t) # Unresolved /\ SubdeviceOf(t) # AllDomains
    BY <2>2 DEF AllDomains, Unresolved
  <2> QED BY <1>4, <1>7, <2>3 DEF Advance
<1>8. CASE \E r \in {"invalid", "driver"} : Finish(r, wrote)
  BY <1>3, <1>8 DEF Results
<1> QED BY <1>5, <1>6, <1>7, <1>8 DEF ResolveFrequencyTarget

LEMMA FrequencyRangeKeeps == CfgInv /\ SetFrequencyRange => CfgInv'
<1> SUFFICES ASSUME CfgInv, SetFrequencyRange PROVE CfgInv'
  OBVIOUS
<1> DEFINE h == call.i + 1
           n == Len(gpu.freq)
           w == wrote["frequencyrange"]
<1>1. /\ cfgPc = "set" /\ call.cmd = "frequencyrange" /\ call.target # Unresolved
      /\ call \in CallType /\ FrequencyInv /\ ~Rejected("frequencyrange")
  BY InCall DEF SetFrequencyRange, Running, CfgInv, CallInv, RunInv
<1>2. /\ n \in Nat /\ DOMAIN gpu.freq = 1 .. n /\ call.i \in 0 .. n /\ h \in Nat
  <2>1. gpu.freq \in Seq([on : Owner, gpu : BOOLEAN])
    BY ConfigTypes DEF CfgInv, Gpu
  <2> QED BY <1>1, <2>1 DEF FrequencyInv
<1>2a. h \in 1 .. n /\ FrequencyMatches(gpu.freq[h]) => h \in Selected("frequencyrange")
  <2> SUFFICES ASSUME h \in 1 .. n, FrequencyMatches(gpu.freq[h])
               PROVE  h \in Selected("frequencyrange")
    OBVIOUS
  <2>1. Selected("frequencyrange") =
          {k \in DOMAIN gpu.freq : gpu.freq[k].gpu /\ gpu.freq[k].on \in FrequencyOwners}
    BY <1>1 DEF Selected, Fans
  <2>2. gpu.freq[h].on \in Owner
    <3>1. PICK S : S = [on : Owner, gpu : BOOLEAN]
      OBVIOUS
    <3>2. gpu.freq \in Seq(S)
      BY <3>1, ConfigTypes DEF CfgInv, Gpu
    <3>3. gpu.freq[h] \in S
      BY <1>2, <3>2
    <3> QED BY <3>1, <3>3
  <2>3. gpu.freq[h].on \in FrequencyOwners
    <3>1. CASE call.target = AllDomains
      <4>1. FrequencyOwners = Owner
        BY <1>1, <3>1 DEF FrequencyInv, FrequencyOwners
      <4> QED BY <2>2, <4>1
    <3>2. CASE call.target # AllDomains
      BY <1>1, <3>2 DEF FrequencyInv, FrequencyMatches
    <3> QED BY <3>1, <3>2
  <2> QED BY <1>2, <2>1, <2>3 DEF FrequencyMatches
<1>3. ASSUME NEW c \in CallType, c.cmd = call.cmd, c.i = h, c.target = call.target, h \in 1 .. n,
             NEW v \in {wrote, Took(h)}, Advance(c, v),
             v = wrote \/ FrequencyMatches(gpu.freq[h]),
             c.any => call.any \/ v = Took(h),
             c.target = AllDomains /\ ~c.any /\ c.last = "ok" =>
               ~call.any /\ call.last = "ok" /\ ~FrequencyMatches(gpu.freq[h]),
             c.target # AllDomains /\ c.found => c.last # "ok"
      PROVE  CfgInv'
  <2>1. UNCHANGED <<cli, gpu, cfgPc, ignored>> /\ call' = c /\ wrote' = v
    BY <1>3 DEF Advance, AdvanceWith
  <2>1a. FrequencyOwners' = FrequencyOwners
    BY <2>1 DEF FrequencyOwners, AsInt32, TileExists, SubdeviceOf
  <2>2. \A k \in 1 .. h : FrequencyMatches(gpu.freq[k])' <=> FrequencyMatches(gpu.freq[k])
    BY <1>3, <2>1 DEF FrequencyMatches
  <2>3. v["frequencyrange"] = w \/ v["frequencyrange"] = w \cup {h}
    BY <1>1, <1>2, <1>3, InCall
  <2>4. w \subseteq {k \in 1 .. call.i : FrequencyMatches(gpu.freq[k])}
    BY <1>1 DEF FrequencyInv
  <2>5. v["frequencyrange"] \subseteq {k \in 1 .. h : FrequencyMatches(gpu.freq[k])}
    <3>1. 1 .. call.i \subseteq 1 .. h /\ h \in 1 .. h
      BY <1>2
    <3>2. CASE v = wrote
      BY <2>4, <3>1, <3>2
    <3>3. CASE v # wrote
      <4>1. v["frequencyrange"] = w \cup {h} /\ FrequencyMatches(gpu.freq[h])
        BY <1>1, <1>2, <1>3, <3>3, InCall
      <4> QED BY <2>4, <3>1, <3>3, <4>1
    <3> QED BY <1>3, <3>2, <3>3
  <2>6. c.any => v["frequencyrange"] # {}
    <3>1. CASE v = Took(h)
      BY <1>1, <1>2, <3>1, InCall
    <3>2. CASE v = wrote /\ call.any
      BY <1>1, <3>2 DEF FrequencyInv
    <3>3. CASE ~c.any
      BY <3>3
    <3> QED BY <1>3, <3>1, <3>2, <3>3
  <2>7. c.target = AllDomains /\ ~c.any /\ c.last = "ok" => \A k \in 1 .. h : ~gpu.freq[k].gpu
    <3> SUFFICES ASSUME c.target = AllDomains, ~c.any, c.last = "ok", NEW k \in 1 .. h
                 PROVE  ~gpu.freq[k].gpu
      OBVIOUS
    <3>1. k \in 1 .. call.i \/ k = h
      BY <1>2
    <3>2. CASE k \in 1 .. call.i
      BY <1>1, <1>3, <3>2 DEF FrequencyInv
    <3>3. CASE k = h
      BY <1>3, <3>3 DEF FrequencyMatches
    <3> QED BY <3>1, <3>2, <3>3
  <2>8. IF c.target = AllDomains
          THEN cli.tile = NoTile \/ AsInt32(cli.tile)' = AllDomains
          ELSE cli.tile # NoTile /\ c.target \in FrequencyOwners'
    BY <1>1, <1>3, <2>1, <2>1a DEF FrequencyInv, AsInt32
  <2>9. FrequencyInv'
    <3>1. wrote'[call'.cmd] = v["frequencyrange"] /\ call'.i = h /\ call'.target = c.target
      BY <1>1, <1>3, <2>1
    <3>2. wrote'[call'.cmd] \subseteq {k \in 1 .. call'.i : FrequencyMatches(gpu.freq[k])'}
      BY <2>2, <2>5, <3>1
    <3>3. call'.i \in 0 .. Len(gpu'.freq)
      BY <1>2, <1>3, <2>1
    <3> QED BY <1>1, <1>3, <2>1, <2>6, <2>7, <2>8, <3>1, <3>2, <3>3 DEF FrequencyInv
  <2>10. CallInv'
    BY <1>1, <1>3, <2>1, <2>9 DEF CallInv, Fans
  <2>11. FrequencyMatches(gpu.freq[h]) => h \in Selected(call.cmd)
    BY <1>1, <1>2, <1>2a, <1>3
  <2>12. CASE v = wrote
    BY <1>1, <1>3, <2>10, <2>12, AdvanceSame
  <2>13. CASE v # wrote
    <3>1. v = Took(h) /\ FrequencyMatches(gpu.freq[h])
      BY <1>3, <2>13
    <3> QED BY <1>1, <1>2, <1>3, <2>10, <2>11, <3>1, AdvanceTook
  <2> QED BY <1>3, <2>12, <2>13
<1>3a. ASSUME NEW c \in CallType, c.cmd = call.cmd, c.i = h, c.target = call.target,
              h \in 1 .. n, Advance(c, wrote), c.any = call.any,
              c.target = AllDomains /\ ~c.any /\ c.last = "ok" =>
                call.last = "ok" /\ ~FrequencyMatches(gpu.freq[h]),
              c.target # AllDomains /\ c.found => c.last # "ok"
       PROVE  CfgInv'
  BY <1>3, <1>3a
<1>4. CASE /\ call.i = n
           /\ Finish(IF call.target = AllDomains THEN (IF call.any THEN "ok" ELSE call.last)
                     ELSE IF call.found THEN call.last ELSE "notavail", wrote)
  <2> DEFINE r == IF call.target = AllDomains THEN (IF call.any THEN "ok" ELSE call.last)
                  ELSE IF call.found THEN call.last ELSE "notavail"
  <2>1. r \in Results
    BY <1>1 DEF CallType, Results
  <2>2. ASSUME r = "ok" PROVE Applied(call.cmd)
    <3>1. call.target = AllDomains
      BY <1>1, <2>2 DEF FrequencyInv
    <3>2. CASE call.any
      BY <1>1, <3>2 DEF FrequencyInv, Applied, Fans
    <3>3. CASE ~call.any /\ call.last = "ok"
      <4>1. \A k \in DOMAIN gpu.freq : ~gpu.freq[k].gpu
        BY <1>1, <1>2, <1>4, <3>1, <3>3 DEF FrequencyInv
      <4>2. cli.tile = NoTile \/ AsInt32(cli.tile) = AllDomains
        BY <1>1, <3>1 DEF FrequencyInv
      <4> QED BY <1>1, <4>1, <4>2 DEF Applied, Fans
    <3> QED BY <2>2, <3>1, <3>2, <3>3
  <2> QED BY <1>1, <1>4, <2>1, <2>2, FinishSame
<1>5. CASE call.i < n /\ Advance([[call EXCEPT !.i = h] EXCEPT !.last = "driver"], wrote)
  <2> DEFINE c == [[call EXCEPT !.i = h] EXCEPT !.last = "driver"]
  <2>1. /\ c \in CallType /\ c.cmd = call.cmd /\ c.i = h /\ c.target = call.target
        /\ c.any = call.any /\ c.last = "driver"
    BY <1>1, <1>2 DEF CallType, Results
  <2>2. Advance(c, wrote) /\ h \in 1 .. n
    BY <1>2, <1>5
  <2> HIDE DEF c
  <2> QED BY <1>3a, <2>1, <2>2
<1>6. CASE call.i < n /\ ~FrequencyMatches(gpu.freq[h]) /\ Advance([call EXCEPT !.i = h], wrote)
  <2> DEFINE c == [call EXCEPT !.i = h]
  <2>1. /\ c \in CallType /\ c.cmd = call.cmd /\ c.i = h /\ c.target = call.target
        /\ c.any = call.any /\ c.last = call.last /\ c.found = call.found
    BY <1>1, <1>2 DEF CallType
  <2>2. Advance(c, wrote) /\ h \in 1 .. n
    BY <1>2, <1>6
  <2> HIDE DEF c
  <2>3. call.target # AllDomains /\ call.found => call.last # "ok"
    BY <1>1 DEF FrequencyInv
  <2> QED BY <1>3a, <1>6, <2>1, <2>2, <2>3
<1>7. CASE /\ call.i < n
           /\ Advance([[call EXCEPT !.i = h] EXCEPT !.found = TRUE, !.last = "driver"], wrote)
  <2> DEFINE c == [[call EXCEPT !.i = h] EXCEPT !.found = TRUE, !.last = "driver"]
  <2>1. /\ c \in CallType /\ c.cmd = call.cmd /\ c.i = h /\ c.target = call.target
        /\ c.any = call.any /\ c.last = "driver"
    BY <1>1, <1>2 DEF CallType, Results
  <2>2. Advance(c, wrote) /\ h \in 1 .. n
    BY <1>2, <1>7
  <2> HIDE DEF c
  <2> QED BY <1>3a, <2>1, <2>2
<1>8. CASE /\ call.i < n /\ FrequencyMatches(gpu.freq[h]) /\ call.target = AllDomains
           /\ Advance([[call EXCEPT !.i = h] EXCEPT !.found = TRUE, !.any = TRUE], Took(h))
  <2> DEFINE c == [[call EXCEPT !.i = h] EXCEPT !.found = TRUE, !.any = TRUE]
  <2>1. /\ c \in CallType /\ c.cmd = call.cmd /\ c.i = h /\ c.target = call.target
        /\ c.any /\ c.last = call.last
    BY <1>1, <1>2 DEF CallType
  <2>2. Advance(c, Took(h)) /\ h \in 1 .. n
    BY <1>2, <1>8
  <2> HIDE DEF c
  <2> QED BY <1>3, <1>8, <2>1, <2>2
<1>9. CASE /\ call.i < n /\ FrequencyMatches(gpu.freq[h]) /\ call.target # AllDomains
           /\ Finish("ok", Took(h))
  <2>3. h \in Selected(call.cmd)
    BY <1>1, <1>2, <1>2a, <1>9
  <2>4. Applied(call.cmd)'
    <3>1. wrote'["frequencyrange"] = w \cup {h} /\ call' = call
      BY <1>1, <1>2, <1>9, InCall DEF Finish, FinishWith
    <3>2. wrote'["frequencyrange"] # {}
      BY <3>1
    <3> QED BY <1>1, <3>1, <3>2 DEF Applied, Fans
  <2> QED BY <1>1, <1>2, <1>9, <2>3, <2>4, FinishTook DEF Results
<1> QED BY <1>2, <1>4, <1>5, <1>6, <1>7, <1>8, <1>9 DEF SetFrequencyRange

LEMMA FansKeep ==
  ASSUME CfgInv, NEW c \in Fans, SetFans(c)
  PROVE  CfgInv'
<1> DEFINE n == Len(gpu.fan)
           h == call.i + 1
           meant(j) == {k \in 1 .. j : FanMeant(k)}
<1>1. /\ cfgPc = "set" /\ call.cmd = c /\ call \in CallType /\ FanInv /\ ~Rejected(c)
      /\ call.cmd \in Fans /\ c \in SetCommands
  BY InCall DEF SetFans, Running, CfgInv, CallInv, RunInv
<1>2. /\ n \in Nat /\ DOMAIN gpu.fan = 1 .. n /\ call.i \in 0 .. n /\ h \in Nat
      /\ cli.fan \in Int /\ cli.fan >= -1 /\ cli.tile = cli.tile
  <2>1. gpu.fan \in Seq(BOOLEAN)
    BY ConfigTypes DEF CfgInv, Gpu
  <2>2. cli.fan \in {-1, -2} \cup Nat /\ cli.fan # -2
    BY <1>1, ConfigTypes DEF CfgInv, CommandLine, AllFans, BadFan, Rejected
  <2> QED BY <1>1, <2>1, <2>2 DEF FanInv
<1>3. /\ wrote[c] \subseteq meant(call.i)
      /\ call.last = "ok" => wrote[c] = meant(call.i)
  BY <1>1 DEF FanInv
<1>4. Selected(c) = meant(n)
  <2>1. ~Rejected(c) /\ cfgPc \notin {"parse", "refused"}
    BY <1>1
  <2> QED BY <1>1, <1>2, <2>1 DEF Selected, Fans
<1>5. ASSUME NEW c2 \in CallType, c2.cmd = c, c2.i = h, h \in 1 .. n,
             NEW v \in {wrote, Took(h)}, Advance(c2, v), v = wrote \/ FanMeant(h),
             c2.last = "ok" => call.last = "ok" /\ (v = Took(h) \/ ~FanMeant(h))
      PROVE  CfgInv'
  <2>1. UNCHANGED <<cli, gpu, cfgPc>> /\ call' = c2 /\ wrote' = v
    BY <1>5 DEF Advance, AdvanceWith
  <2>2. \A k : FanMeant(k)' <=> FanMeant(k)
    BY <2>1 DEF FanMeant
  <2>3. 1 .. h = (1 .. call.i) \cup {h}
    BY <1>2
  <2>4. v[c] = wrote[c] \/ (v[c] = wrote[c] \cup {h} /\ FanMeant(h))
    <3>1. Took(h)[c] = wrote[c] \cup {h}
      BY <1>1, <1>2, InCall
    <3> QED BY <1>5, <3>1
  <2>5. v[c] \subseteq meant(h)
    BY <1>3, <2>3, <2>4
  <2>6. c2.last = "ok" => v[c] = meant(h)
    <3> SUFFICES ASSUME c2.last = "ok" PROVE v[c] = meant(h)
      OBVIOUS
    <3>1. CASE v = Took(h) /\ FanMeant(h)
      <4>1. v[c] = wrote[c] \cup {h}
        BY <1>1, <1>2, <3>1, InCall
      <4>2. wrote[c] = meant(call.i)
        BY <1>3, <1>5
      <4>3. meant(h) = meant(call.i) \cup {h}
        BY <2>3, <3>1
      <4> QED BY <4>1, <4>2, <4>3
    <3>2. CASE ~FanMeant(h)
      <4>1. v[c] = wrote[c]
        BY <1>5, <3>2
      <4>2. wrote[c] = meant(call.i)
        BY <1>3, <1>5
      <4>3. meant(h) = meant(call.i)
        BY <2>3, <3>2
      <4> QED BY <4>1, <4>2, <4>3
    <3> QED BY <1>5, <3>1, <3>2
  <2>7. FanInv'
    <3>1. wrote'[call'.cmd] = v[c] /\ call'.i = h /\ call'.last = c2.last
      BY <1>5, <2>1
    <3>2. {k \in 1 .. call'.i : FanMeant(k)'} = meant(h)
      BY <2>2, <3>1
    <3>3. call'.i \in 0 .. Len(gpu'.fan)
      BY <1>2, <1>5, <2>1
    <3> HIDE DEF meant
    <3> QED BY <2>5, <2>6, <3>1, <3>2, <3>3 DEF FanInv
  <2>8. CallInv'
    <3>1. call'.cmd = c
      BY <1>5, <2>1
    <3> QED BY <1>1, <2>7, <3>1 DEF CallInv, Fans
  <2>9. FanMeant(h) => h \in Selected(call.cmd)
    BY <1>1, <1>4, <1>5
  <2>10. CASE v = wrote
    BY <1>1, <1>5, <2>8, <2>10, AdvanceSame
  <2>11. CASE v # wrote
    <3>1. v = Took(h) /\ FanMeant(h)
      BY <1>5, <2>11
    <3> QED BY <1>1, <1>2, <1>5, <2>8, <2>9, <3>1, AdvanceTook
  <2> QED BY <2>10, <2>11
<1>6. CASE \E r \in {"notavail", "invalid"} : Finish(r, wrote)
  BY <1>1, <1>6, FinishSame DEF Results
<1>7. CASE n > 0 /\ cli.fan < n /\ call.i = n /\ Finish(call.last, wrote)
  <2>1. call.last = "ok" => Applied(call.cmd)
    <3> SUFFICES ASSUME call.last = "ok" PROVE Applied(call.cmd)
      OBVIOUS
    <3>1. wrote[c] = {k \in DOMAIN gpu.fan : FanMeant(k)}
      BY <1>2, <1>3, <1>7
    <3>2. \E k \in 1 .. n : FanMeant(k)
      <4>1. CASE cli.fan = -1
        BY <1>2, <1>7, <4>1 DEF FanMeant, AllFans
      <4>2. CASE cli.fan >= 0
        <5>1. cli.fan + 1 \in 1 .. n /\ FanMeant(cli.fan + 1)
          BY <1>2, <1>7, <4>2 DEF FanMeant
        <5> QED BY <5>1
      <4> QED BY <1>2, <4>1, <4>2
    <3>3. wrote[c] # {}
      BY <1>2, <3>1, <3>2
    <3>4. Applied(c)
      BY <3>1, <3>3 DEF Applied, Fans
    <3> QED BY <1>1, <3>4
  <2>2. call.last \in Results
    BY <1>1 DEF CallType
  <2> QED BY <1>1, <1>7, <2>1, <2>2, FinishSame
<1>8. CASE call.i < n /\ SetFan([call EXCEPT !.i = @ + 1], call.i + 1)
  <2> DEFINE c2 == [call EXCEPT !.i = @ + 1]
             c3(l) == [c2 EXCEPT !.last = l]
  <2>1. c2 \in CallType /\ c2.cmd = c /\ c2.i = h /\ c2.last = call.last /\ h \in 1 .. n
    BY <1>1, <1>2, <1>8 DEF CallType
  <2>2. \A l \in Results : c3(l) \in CallType /\ c3(l).cmd = c /\ c3(l).i = h /\ c3(l).last = l
    BY <2>1 DEF CallType
  <2>3. \/ ~FanMeant(h) /\ Advance(c2, wrote)
        \/ \E l \in {"unsupported", "driver"} : Advance(c3(l), wrote)
        \/ FanMeant(h) /\ Advance(c2, Took(h))
    BY <1>8 DEF SetFan
  <2> HIDE DEF c2, c3
  <2>4. CASE ~FanMeant(h) /\ Advance(c2, wrote)
    BY <1>5, <2>1, <2>4
  <2>5. CASE \E l \in {"unsupported", "driver"} : Advance(c3(l), wrote)
    <3> PICK l \in {"unsupported", "driver"} : Advance(c3(l), wrote)
      BY <2>5
    <3>1. l \in Results /\ l # "ok"
      BY DEF Results
    <3> QED BY <1>5, <2>1, <2>2, <3>1
  <2>6. CASE FanMeant(h) /\ Advance(c2, Took(h))
    BY <1>5, <2>1, <2>6
  <2> QED BY <2>3, <2>4, <2>5, <2>6
<1> QED BY <1>6, <1>7, <1>8 DEF SetFans

(* A step that writes nothing and logs nothing, the command under way      *)
(* staying or ending with the process.                                     *)
LEMMA NothingWritten ==
  ASSUME CfgInv, UNCHANGED <<cli, gpu, todo, call, wrote, ignored, log, firstError>>,
         \/ UNCHANGED <<cfgPc, exitCode>>
         \/ cfgPc \in {"loop", "set"} /\ cfgPc' \in {"exited", "aborted"}
  PROVE  CfgInv'
<1>1. cfgPc' \in {"parse", "refused"} <=> cfgPc \in {"parse", "refused"}
  OBVIOUS
<1>2. CfgShape'
  BY DEF CfgInv, CfgShape, Ended
<1>3. RunInv'
  BY DEF CfgInv, RunInv, Logged, Rejected
<1>4. CallInv'
  <2>1. FrequencyOwners' = FrequencyOwners
    BY DEF FrequencyOwners, AsInt32, TileExists, SubdeviceOf
  <2> QED BY <2>1 DEF CfgInv, CallInv, FrequencyInv, FanInv, FrequencyMatches, FanMeant, AsInt32
<1>5. SuccessMeansApplied'
  BY AppliedSame DEF CfgInv, SuccessMeansApplied
<1>6. WritesWithinSelection'
  BY <1>1, WithinSame DEF CfgInv, WritesWithinSelection, Within
<1> QED BY <1>2, <1>3, <1>4, <1>5, <1>6 DEF CfgInv

LEMMA ParseKeeps == CfgInv /\ ParseArguments => CfgInv'
<1> SUFFICES ASSUME CfgInv, ParseArguments PROVE CfgInv'
  OBVIOUS
<1>1. /\ cfgPc = "parse" /\ log = <<>> /\ firstError = "ok"
      /\ \A c \in SetCommands : wrote[c] = {}
      /\ UNCHANGED <<cli, gpu, call, wrote, ignored, log, firstError>>
      /\ cli.cmds \subseteq SetCommands /\ todo \subseteq cli.cmds
  BY ConfigTypes DEF ParseArguments, CfgInv, RunInv, CommandLine
<1>2. Logged = {} /\ Logged' = {}
  BY <1>1 DEF Logged
<1>3. \/ cfgPc' = "refused" /\ todo' = todo
      \/ cfgPc' = "returned" /\ exitCode' = "ok" /\ cli.cmds = {} /\ todo' = todo
      \/ cfgPc' = "loop" /\ todo' = cli.cmds
  BY DEF ParseArguments
<1>4. CfgShape'
  BY <1>1, <1>3 DEF CfgInv, CfgShape, Ended
<1>5. RunInv'
  BY <1>1, <1>2, <1>3 DEF CfgInv, RunInv
<1>6. CallInv'
  BY <1>3 DEF CallInv
<1>7. SuccessMeansApplied' /\ WritesWithinSelection'
  BY <1>1 DEF SuccessMeansApplied, WritesWithinSelection
<1> QED BY <1>4, <1>5, <1>6, <1>7 DEF CfgInv

LEMMA RunReturnsKeeps == CfgInv /\ RunReturns => CfgInv'
<1> SUFFICES ASSUME CfgInv, RunReturns PROVE CfgInv'
  OBVIOUS
<1>1. /\ cfgPc = "loop" /\ todo = {} /\ cfgPc' = "returned" /\ exitCode' = firstError
      /\ UNCHANGED <<cli, gpu, todo, call, wrote, ignored, log, firstError>>
  BY DEF RunReturns
<1>2. CfgShape'
  BY <1>1 DEF CfgInv, CfgShape, Ended
<1>3. RunInv'
  BY <1>1 DEF CfgInv, RunInv, Logged
<1>4. CallInv'
  BY <1>1 DEF CallInv
<1>5. SuccessMeansApplied'
  BY <1>1, AppliedSame DEF CfgInv, SuccessMeansApplied
<1>6. WritesWithinSelection'
  BY <1>1, WithinSame DEF CfgInv, WritesWithinSelection, Within
<1> QED BY <1>2, <1>3, <1>4, <1>5, <1>6 DEF CfgInv

LEMMA RunCommandKeeps == CfgInv /\ RunCommand => CfgInv'
<1> SUFFICES ASSUME CfgInv, RunCommand PROVE CfgInv'
  OBVIOUS
<1> PICK c \in todo :
      /\ todo' = todo \ {c} /\ call' = [NoCall EXCEPT !.cmd = c]
      /\ IF Rejected(c)
           THEN /\ log' = Append(log, <<c, "invalid">>) /\ UNCHANGED <<cfgPc, exitCode>>
                /\ firstError' = IF firstError = "ok" THEN "invalid" ELSE firstError
           ELSE /\ UNCHANGED <<log, firstError>>
                /\ IF c = "scheduler" /\ cli.huge
                     THEN cfgPc' = "aborted" /\ exitCode' = "driver"
                     ELSE cfgPc' = "set" /\ UNCHANGED exitCode
  BY DEF RunCommand
<1>1. /\ cfgPc = "loop" /\ UNCHANGED <<cli, gpu, wrote, ignored>>
      /\ c \in SetCommands /\ c \in cli.cmds /\ wrote[c] = {}
  BY ConfigTypes DEF RunCommand, CfgInv, RunInv, CommandLine
<1>2. call' \in CallType /\ call'.cmd = c /\ call'.i = 0 /\ call'.target = Unresolved
      /\ ~call'.any /\ ~call'.found /\ call'.last = "ok"
  <2>1. call' = [cmd |-> c, i |-> 0, last |-> "ok", any |-> FALSE, found |-> FALSE,
                 target |-> Unresolved]
    BY DEF NoCall
  <2>2. "ok" \in Results /\ Unresolved \in Int
    BY DEF Results, Unresolved
  <2>3. /\ call'.cmd = c /\ call'.i = 0 /\ call'.target = Unresolved
        /\ ~call'.any /\ ~call'.found /\ call'.last = "ok"
    BY <2>1
  <2>4. call' \in CallType
    <3>1. 0 \in Nat /\ FALSE \in BOOLEAN /\ c \in SetCommands \cup {"none"}
      BY <1>1
    <3> QED BY ONLY <2>1, <2>2, <3>1, Zenon DEF CallType
  <2> QED BY <2>3, <2>4
<1>3. CASE Rejected(c)
  <2>1. /\ log' \in Seq(SetCommands \X Results)
        /\ Logged' = Logged \cup {c}
        /\ \A k \in DOMAIN log' :
             \/ k \in DOMAIN log /\ log'[k] = log[k]
             \/ log'[k] = <<c, "invalid">>
        /\ ~ (\A k \in DOMAIN log' : log'[k][2] = "ok")
    BY <1>1, <1>3, LoggedAppend DEF CfgInv, CfgShape, Results
  <2>2. /\ cfgPc' = "loop"
        /\ firstError' = IF firstError = "ok" THEN "invalid" ELSE firstError
    BY <1>1, <1>3
  <2>3. CfgShape'
    BY <1>1, <1>2, <2>1, <2>2 DEF CfgInv, CfgShape, CallType, Results
  <2>4. RunInv'
    <3>1. Logged' = cli.cmds \ todo'
      BY <1>1, <2>1 DEF CfgInv, RunInv
    <3>2. firstError' # "ok"
      BY <2>2
    <3> QED BY <1>1, <2>1, <2>2, <3>1, <3>2 DEF CfgInv, RunInv
  <2>5. SuccessMeansApplied'
    <3>1. ASSUME NEW k \in DOMAIN log, log[k][2] = "ok", NEW d, d = log[k][1]
          PROVE  Applied(d)'
      <4>1. Applied(d)
        BY <3>1 DEF CfgInv, SuccessMeansApplied
      <4> QED BY <4>1, <1>1, AppliedSame
    <3>2. \A k \in DOMAIN log', d \in SetCommands :
            log'[k][2] = "ok" /\ d = log'[k][1] => Applied(d)'
      <4> SUFFICES ASSUME NEW k \in DOMAIN log', NEW d \in SetCommands,
                          log'[k][2] = "ok", d = log'[k][1]
                   PROVE  Applied(d)'
        OBVIOUS
      <4>1. k \in DOMAIN log /\ log'[k] = log[k]
        BY <2>1
      <4> QED BY <4>1, <3>1
    <3> SUFFICES ASSUME NEW k \in DOMAIN log', log'[k][2] = "ok" PROVE Applied(log[k][1])'
      BY DEF SuccessMeansApplied
    <3>3. log'[k][1] \in SetCommands
      BY <2>1
    <3>4. PICK d \in SetCommands : d = log'[k][1]
      BY <3>3
    <3>5. Applied(d)'
      BY <3>2, <3>4
    <3> QED BY <3>4, <3>5 DEF Applied, FanMeant, AsInt32
  <2>6. CallInv'
    BY <2>2 DEF CallInv
  <2>7. WritesWithinSelection'
    BY <1>1, <2>2, WithinSame DEF CfgInv, WritesWithinSelection, Within
  <2> QED BY <2>3, <2>4, <2>5, <2>6, <2>7 DEF CfgInv
<1>4. CASE ~Rejected(c)
  <2>1. UNCHANGED <<log, firstError>> /\ cfgPc' \in {"aborted", "set"}
    BY <1>4
  <2>2. CfgShape'
    BY <1>1, <1>2, <2>1 DEF CfgInv, CfgShape, CallType, Ended
  <2>3. RunInv'
    <3>1. Logged' = (cli.cmds \ todo') \ {c}
      BY <1>1, <2>1 DEF CfgInv, RunInv, Logged
    <3>2. Rejected(c)' <=> Rejected(c)
      BY <1>1 DEF Rejected
    <3>3. ~Rejected(call.cmd)'
      BY <1>2, <1>4, <3>2 DEF Rejected
    <3> QED BY <1>1, <1>2, <2>1, <3>1, <3>3 DEF CfgInv, RunInv
  <2>4. CallInv'
    <3>1. wrote'[call'.cmd] = {} /\ 1 .. call'.i = {}
      BY <1>1, <1>2
    <3>2. FrequencyInv'
      <4>1. Len(gpu'.freq) \in Nat
        BY <1>1, ConfigTypes DEF CfgInv, Gpu
      <4> QED BY <1>2, <3>1, <4>1 DEF FrequencyInv
    <3>3. FanInv'
      <4>1. Len(gpu'.fan) \in Nat
        BY <1>1, ConfigTypes DEF CfgInv, Gpu
      <4> QED BY <1>2, <3>1, <4>1 DEF FanInv
    <3> QED BY <1>2, <3>1, <3>2, <3>3 DEF CallInv
  <2>5. SuccessMeansApplied'
    BY <1>1, <2>1, AppliedSame DEF CfgInv, SuccessMeansApplied
  <2>6. WritesWithinSelection'
    BY <1>1, <2>1, WithinSame DEF CfgInv, WritesWithinSelection, Within
  <2> QED BY <2>2, <2>3, <2>4, <2>5, <2>6 DEF CfgInv
<1> QED BY <1>3, <1>4

LEMMA ResetsKeep ==
  CfgInv /\ (ResetDevice \/ StartColdReset \/ EndColdReset) => CfgInv'
<1> SUFFICES ASSUME CfgInv, ResetDevice \/ StartColdReset \/ EndColdReset PROVE CfgInv'
  OBVIOUS
<1>1. cfgPc = "set"
  BY DEF ResetDevice, StartColdReset, EndColdReset, Running
<1>2. CASE ExitNow
  <2>1. cfgPc' = "exited" /\ UNCHANGED <<cli, gpu, todo, call, wrote, ignored, log, firstError>>
    BY <1>2 DEF ExitNow
  <2> QED BY <1>1, <2>1, NothingWritten
<1>3. CASE \E r \in {"driver", "perm", "inuse", "notavail", "unsupported", "unknown"} :
             Finish(r, wrote)
  BY <1>1, <1>3, FinishSame DEF Results
<1>4. CASE UNCHANGED cfgVars
  BY <1>4, NothingWritten DEF cfgVars
<1> QED BY <1>2, <1>3, <1>4 DEF ResetDevice, StartColdReset, EndColdReset

LEMMA CfgStepKeeps == CfgInv /\ [SmiNext]_allVars => CfgInv'
<1> SUFFICES ASSUME CfgInv, [SmiNext]_allVars PROVE CfgInv'
  OBVIOUS
<1>1. CfgStep \/ UNCHANGED cfgVars
  BY DEF SmiNext, ConfigStep, Main, MainReturns, allVars
<1>2. CASE UNCHANGED cfgVars
  BY <1>2, NothingWritten DEF cfgVars
<1>3. CASE SetFanSpeed \/ SetFanCurve \/ SetFanCurveRpm
  BY <1>3, FansKeep DEF SetFanSpeed, SetFanCurve, SetFanCurveRpm, Fans
<1> QED
  BY <1>1, <1>2, <1>3, ParseKeeps, RunCommandKeeps, RunReturnsKeeps, FrequencyTargetKeeps,
     FrequencyRangeKeeps, StandbyKeeps, ClearErrorsKeeps, SchedulerAllKeeps,
     SchedulerTileKeeps, PowerLimitKeeps, MemoryEccKeeps, PcieKeeps, ResetsKeep DEF CfgStep

LEMMA CfgAtFirst == SmiInit => CfgInv /\ ExitInv
<1> SUFFICES ASSUME SmiInit PROVE CfgInv /\ ExitInv
  OBVIOUS
<1>1. CfgInit /\ smiPc = "main"
  BY DEF SmiInit
<1>2. CfgShape
  BY <1>1 DEF CfgInit, CfgShape, NoCall, Results, Unresolved
<1>3. RunInv /\ CallInv /\ SuccessMeansApplied
  BY <1>1 DEF CfgInit, RunInv, CallInv, SuccessMeansApplied
<1>4. WritesWithinSelection
  <2>1. cli.cmds \subseteq SetCommands
    BY <1>2, ConfigTypes DEF CommandLine
  <2> QED BY <1>1, <2>1 DEF CfgInit, WritesWithinSelection
<1> QED BY <1>1, <1>2, <1>3, <1>4 DEF CfgInv, ExitInv, CfgInit

LEMMA ExitStep == ExitInv /\ [SmiNext]_allVars => ExitInv'
<1> SUFFICES ASSUME ExitInv, [SmiNext]_allVars PROVE ExitInv'
  OBVIOUS
<1>1. CASE smiMode = "config" /\ Main
  BY <1>1 DEF Main, EndProcess, ExitInv, cfgVars
<1>2. CASE smiMode = "config" /\ MainReturns
  BY <1>2 DEF MainReturns, EndProcess, ExitInv, cfgVars
<1>3. CASE smiPc = "run" /\ smiPc' = "run"
  BY <1>3 DEF ExitInv
<1>4. CASE UNCHANGED <<smiVars, cfgVars>>
  BY <1>4 DEF ExitInv, smiVars, cfgVars
<1> QED BY <1>1, <1>2, <1>3, <1>4 DEF SmiNext, ConfigStep, allVars, smiVars

LEMMA ConfigInvariance == SmiSpec => [](CfgInv /\ ExitInv)
<1>1. (CfgInv /\ ExitInv) /\ [SmiNext]_allVars => (CfgInv /\ ExitInv)'
  BY CfgStepKeeps, ExitStep
<1> QED BY <1>1, CfgAtFirst, PTL DEF SmiSpec

(* The exit code of "xpu-smi config" tells: 0 when each command of its     *)
(* line ran and succeeded, and otherwise 1; for every GPU, command line,   *)
(* order of the commands and choice of driver calls that fail. (A reset    *)
(* that succeeded ends the process with 0 itself, and is out of this.)     *)
THEOREM ExitCodesTell == SmiSpec => []ExitCodeTells
<1>1. CfgInv /\ ExitInv => ExitCodeTells
  <2> SUFFICES ASSUME CfgInv, ExitInv, smiPc = "ended", cfgPc = "returned"
               PROVE  /\ {log[k][1] : k \in DOMAIN log} = cli.cmds
                      /\ (smiRc = 0) = (\A k \in DOMAIN log : log[k][2] = "ok")
    BY DEF ExitCodeTells
  <2>1. Logged = cli.cmds
    BY DEF CfgInv, RunInv
  <2>2. (smiRc = 0) <=> (firstError = "ok")
    BY DEF CfgInv, RunInv, ExitInv
  <2>3. (firstError = "ok") <=> (\A k \in DOMAIN log : log[k][2] = "ok")
    BY DEF CfgInv, RunInv
  <2> QED BY <2>1, <2>2, <2>3 DEF Logged
<1> QED BY <1>1, ConfigInvariance, PTL

(* A setting that run() logs as made is on all the handles its setter      *)
(* meant, on one of them where one is enough, however many there are       *)
(* (cmd_config.cpp:2084-2103). The one exception is ECC, logged as         *)
(* disabled on a GPU whose query for it failed (ecc.cpp:81-121).           *)
THEOREM SuccessesAreApplied == SmiSpec => []SuccessMeansApplied
<1>1. CfgInv /\ ExitInv => SuccessMeansApplied
  BY DEF CfgInv
<1> QED BY <1>1, ConfigInvariance, PTL

(* No setter writes a handle outside the tile or fan that was selected,    *)
(* whatever the handles of the GPU belong to, but for the exceptions that  *)
(* FrequencyOwners and SchedulerOwners name: a tile ID that is -1 as an    *)
(* int32_t, and the fallbacks to the device after a failed query           *)
(* (frequency.cpp:496-546, 949-971).                                       *)
THEOREM WritesAreWithinSelection == SmiSpec => []WritesWithinSelection
<1>1. CfgInv /\ ExitInv => WritesWithinSelection
  BY DEF CfgInv
<1> QED BY <1>1, ConfigInvariance, PTL

(***************************************************************************)
(* vgpu: the local memory that the VFs hold                                *)
(***************************************************************************)
(* The local memory that the files of some VFs give away, summed up in any *)
(* order.                                                                  *)
Chosen(s) == CHOOSE x \in s : TRUE
LmemFrom(b, g, s) == IF s = {} THEN 0 ELSE b[Chosen(s)]["lmem"] + g[s \ {Chosen(s)}]
IsLmem(b, D, g) == g = [s \in SUBSET D |-> LmemFrom(b, g, s)]
Lmem(b, D) == CHOOSE g : IsLmem(b, D, g)

(* The sum of the community module is this one.                            *)
LEMMA SumIsLmem ==
  ASSUME NEW b, NEW D
  PROVE  MapThenSumSet(LAMBDA v : b[v]["lmem"], D) = Lmem(b, D)[D]
  BY DEF MapThenSumSet, MapThenFoldSet, Lmem, IsLmem, LmemFrom, Chosen

(* What is counted of the subsets of a finite set.                         *)
LEMMA Subsets ==
  ASSUME NEW D, IsFiniteSet(D), NEW s \in SUBSET D
  PROVE  /\ IsFiniteSet(s) /\ Cardinality(s) \in 0..Cardinality(D)
         /\ Cardinality(D) \in Nat
         /\ \A x \in s : Cardinality(s \ {x}) = Cardinality(s) - 1
         /\ s # {} => Chosen(s) \in s
         /\ Cardinality(s) = 0 <=> s = {}
<1>1. Cardinality(D) \in Nat
  BY FS_CardinalityType
<1>2. IsFiniteSet(s) /\ Cardinality(s) <= Cardinality(D)
  BY FS_Subset
<1>3. Cardinality(s) \in Nat
  BY <1>2, FS_CardinalityType
<1>4. \A x \in s : Cardinality(s \ {x}) = Cardinality(s) - 1
  BY <1>2, FS_RemoveElement
<1>5. s # {} => Chosen(s) \in s
  BY DEF Chosen
<1>6. Cardinality(s) = 0 <=> s = {}
  BY <1>2, FS_EmptySet
<1> QED BY <1>1, <1>2, <1>3, <1>4, <1>5, <1>6

(* Such a sum exists: built up by the number of members.                   *)
LEMMA LmemExists ==
  ASSUME NEW D, IsFiniteSet(D), NEW b
  PROVE  \E g : IsLmem(b, D, g)
<1> DEFINE Small(n) == {s \in SUBSET D : Cardinality(s) <= n}
           E(n) == \E g : g = [s \in Small(n) |-> LmemFrom(b, g, s)]
           Bad == {n \in Nat : ~E(n)}
<1>1. E(0)
  <2> DEFINE g == [s \in Small(0) |-> 0]
  <2>1. \A s \in Small(0) : s = {}
    BY Subsets
  <2>2. g = [s \in Small(0) |-> LmemFrom(b, g, s)]
    BY <2>1 DEF LmemFrom
  <2> QED BY <2>2
<1>2. ASSUME NEW n \in Nat, E(n) PROVE E(n + 1)
  <2>1. PICK g : g = [s \in Small(n) |-> LmemFrom(b, g, s)]
    BY <1>2
  <2> DEFINE h == [s \in Small(n + 1) |-> LmemFrom(b, g, s)]
  <2>2. \A s \in Small(n) : h[s] = g[s]
    <3> SUFFICES ASSUME NEW s \in Small(n) PROVE h[s] = g[s]
      OBVIOUS
    <3>1. s \in Small(n + 1)
      BY Subsets
    <3>2. h[s] = LmemFrom(b, g, s)
      BY <3>1
    <3>3. g[s] = LmemFrom(b, g, s)
      BY <2>1
    <3> QED BY <3>2, <3>3
  <2>3. \A s \in Small(n + 1) : LmemFrom(b, h, s) = LmemFrom(b, g, s)
    <3> SUFFICES ASSUME NEW s \in Small(n + 1) PROVE LmemFrom(b, h, s) = LmemFrom(b, g, s)
      OBVIOUS
    <3> HIDE DEF h
    <3>1. s # {} => s \ {Chosen(s)} \in SUBSET D /\ Cardinality(s \ {Chosen(s)}) <= n
      BY Subsets
    <3>2. s # {} => h[s \ {Chosen(s)}] = g[s \ {Chosen(s)}]
      BY <3>1, <2>2
    <3> QED BY <3>2 DEF LmemFrom
  <2>4. h = [s \in Small(n + 1) |-> LmemFrom(b, h, s)]
    BY <2>3
  <2> QED BY <2>4
<1>3. Bad = {}
  <2> SUFFICES ASSUME Bad # {} PROVE FALSE
    OBVIOUS
  <2> HIDE DEF E
  <2>1. PICK m \in Bad : \A k \in Bad : m <= k
    BY SmallestIsIn
  <2>2. m # 0
    BY <1>1
  <2>3. m - 1 \in Nat /\ m - 1 \notin Bad
    BY <2>1, <2>2
  <2>4. E(m - 1)
    BY <2>3
  <2>5. E(m - 1 + 1)
    BY <2>3, <2>4, <1>2
  <2>6. m - 1 + 1 = m
    BY <2>1
  <2> QED BY <2>5, <2>6
<1>4. Cardinality(D) \in Nat /\ Small(Cardinality(D)) = SUBSET D
  <2>1. Cardinality(D) \in Nat
    BY FS_CardinalityType
  <2>2. \A s \in SUBSET D : Cardinality(s) <= Cardinality(D)
    BY FS_Subset
  <2> QED BY <2>1, <2>2
<1>5. E(Cardinality(D))
  BY <1>3, <1>4
<1> QED BY <1>4, <1>5 DEF IsLmem

(* A claim about subsets that holds of each when it holds of the smaller.  *)
LEMMA LmemTakesAny ==
  ASSUME NEW D, IsFiniteSet(D), NEW b, \A x \in D : b[x]["lmem"] \in Nat
  PROVE  /\ Lmem(b, D)[{}] = 0
         /\ \A s \in SUBSET D :
              /\ Lmem(b, D)[s] \in Nat
              /\ \A x \in s : Lmem(b, D)[s] = b[x]["lmem"] + Lmem(b, D)[s \ {x}]
<1> DEFINE g == Lmem(b, D)
           Good(s) == /\ g[s] \in Nat
                      /\ \A x \in s : g[s] = b[x]["lmem"] + g[s \ {x}]
           Bad == {s \in SUBSET D : ~Good(s)}
           Sizes == {Cardinality(s) : s \in Bad}
<1>1. IsLmem(b, D, g)
  BY LmemExists DEF Lmem
<1> HIDE DEF g
<1>2. \A s \in SUBSET D : g[s] = LmemFrom(b, g, s)
  BY <1>1 DEF IsLmem
<1>3. g[{}] = 0
  BY <1>2 DEF LmemFrom
<1>4. ASSUME NEW s \in SUBSET D, \A t \in SUBSET D : Cardinality(t) < Cardinality(s) => Good(t)
      PROVE  Good(s)
  <2>1. CASE s = {}
    BY <2>1, <1>3
  <2>2. CASE s # {}
    <3> DEFINE c == Chosen(s)
    <3>1. c \in s /\ g[s] = b[c]["lmem"] + g[s \ {c}] /\ b[c]["lmem"] \in Nat
      BY <2>2, <1>2, Subsets DEF LmemFrom
    <3> HIDE DEF c
    <3>2. \A x \in s : Cardinality(s \ {x}) < Cardinality(s) /\ s \ {x} \in SUBSET D
      BY Subsets
    <3>3. \A x \in s : Good(s \ {x})
      BY <3>2, <1>4
    <3>4. g[s \ {c}] \in Nat /\ g[s] \in Nat
      BY <3>1, <3>3
    <3>5. ASSUME NEW x \in s, x # c PROVE g[s] = b[x]["lmem"] + g[s \ {x}]
      <4>1. x \in s \ {c} /\ c \in s \ {x}
        BY <3>1, <3>5
      <4>2. g[s \ {c}] = b[x]["lmem"] + g[(s \ {c}) \ {x}]
        BY <3>3, <3>1, <4>1
      <4>3. g[s \ {x}] = b[c]["lmem"] + g[(s \ {x}) \ {c}]
        BY <3>3, <4>1
      <4>4. (s \ {c}) \ {x} = (s \ {x}) \ {c}
        OBVIOUS
      <4>5. PICK d : d = (s \ {x}) \ {c}
        OBVIOUS
      <4>6. d \in SUBSET D /\ Cardinality(d) < Cardinality(s)
        <5>1. Cardinality(s \ {x}) < Cardinality(s) /\ s \ {x} \in SUBSET D
          BY <3>2
        <5>2. Cardinality(d) = Cardinality(s \ {x}) - 1
          BY <4>1, <4>5, <5>1, Subsets
        <5> QED BY <5>1, <5>2, <4>5, Subsets
      <4>7. g[d] \in Nat /\ b[x]["lmem"] \in Nat
        BY <4>6, <1>4
      <4>8. g[s] = b[c]["lmem"] + (b[x]["lmem"] + g[d]) /\ g[s \ {x}] = b[c]["lmem"] + g[d]
            /\ b[c]["lmem"] \in Nat
        BY <3>1, <4>2, <4>3, <4>4, <4>5
      <4> QED BY ONLY <4>7, <4>8
    <3> QED BY <3>1, <3>4, <3>5
  <2> QED BY <2>1, <2>2
<1> HIDE DEF Good
<1>5. Bad = {}
  <2> SUFFICES ASSUME Bad # {} PROVE FALSE
    OBVIOUS
  <2>1. Sizes \subseteq Nat /\ Sizes # {}
    BY Subsets
  <2>2. PICK m \in Sizes : \A k \in Sizes : m <= k
    BY <2>1, SmallestIsIn
  <2>3. PICK s \in Bad : Cardinality(s) = m
    OBVIOUS
  <2>4. \A t \in SUBSET D : Cardinality(t) < m => Good(t)
    <3> SUFFICES ASSUME NEW t \in SUBSET D, Cardinality(t) < m, ~Good(t) PROVE FALSE
      OBVIOUS
    <3>1. Cardinality(t) \in Sizes
      OBVIOUS
    <3> QED BY <3>1, <2>1, <2>2
  <2> QED BY <2>3, <2>4, <1>4
<1> QED BY <1>3, <1>5 DEF Good, g

(* The same, folded up for where many sets and tables are in sight.        *)
Counts(b, D) == \A x \in D : b[x]["lmem"] \in Nat
AddsUp(b, D) ==
  /\ Lmem(b, D)[{}] = 0
  /\ \A s \in SUBSET D :
       /\ Lmem(b, D)[s] \in Nat
       /\ \A x \in s : Lmem(b, D)[s] = b[x]["lmem"] + Lmem(b, D)[s \ {x}]

(* The memory of a set is that of any member and of the others.            *)
LEMMA LmemAddsUp ==
  ASSUME NEW D, IsFiniteSet(D), NEW b, Counts(b, D)
  PROVE  AddsUp(b, D)
<1>1. \A x \in D : b[x]["lmem"] \in Nat
  BY DEF Counts
<1> QED BY <1>1, LmemTakesAny DEF AddsUp

(* Only the members count.                                                 *)
LEMMA LmemAgrees ==
  ASSUME NEW D, IsFiniteSet(D), NEW b, \A x \in D : b[x]["lmem"] \in Nat,
         NEW E, IsFiniteSet(E), NEW c, \A x \in E : c[x]["lmem"] \in Nat,
         NEW s \in SUBSET D, s \subseteq E, \A x \in s : b[x]["lmem"] = c[x]["lmem"]
  PROVE  Lmem(b, D)[s] = Lmem(c, E)[s]
<1> DEFINE g == Lmem(b, D)
           h == Lmem(c, E)
           Bad == {t \in SUBSET s : g[t] # h[t]}
           Sizes == {Cardinality(t) : t \in Bad}
<1>1. g[{}] = 0 /\ \A t \in SUBSET D : \A x \in t : g[t] = b[x]["lmem"] + g[t \ {x}]
  BY LmemTakesAny
<1>2. h[{}] = 0 /\ \A t \in SUBSET E : \A x \in t : h[t] = c[x]["lmem"] + h[t \ {x}]
  BY LmemTakesAny
<1> HIDE DEF g, h
<1>3. Bad = {}
  <2> SUFFICES ASSUME Bad # {} PROVE FALSE
    OBVIOUS
  <2>0. \A t \in SUBSET s : t \in SUBSET D
    OBVIOUS
  <2>1. Sizes \subseteq Nat /\ Sizes # {}
    BY <2>0, Subsets
  <2>2. PICK m \in Sizes : \A k \in Sizes : m <= k
    BY <2>1, SmallestIsIn
  <2>3. PICK t \in Bad : Cardinality(t) = m
    OBVIOUS
  <2>4. t # {} /\ t \in SUBSET D /\ t \in SUBSET E /\ t \subseteq s
    BY <1>1, <1>2
  <2>5. PICK x : x \in t
    BY <2>4
  <2>6. t \ {x} \in SUBSET s /\ Cardinality(t \ {x}) < m
    BY <2>1, <2>3, <2>4, <2>5, Subsets
  <2>7. g[t \ {x}] = h[t \ {x}]
    <3>1. Cardinality(t \ {x}) \notin Sizes
      BY <2>1, <2>2, <2>6
    <3> QED BY <3>1, <2>6
  <2>8. g[t] = h[t]
    BY <1>1, <1>2, <2>4, <2>5, <2>7
  <2> QED BY <2>3, <2>8
<1> QED BY <1>3 DEF g, h

(* Fewer VFs have no more.                                                 *)
LEMMA LmemGrows ==
  ASSUME NEW D, IsFiniteSet(D), NEW b, \A x \in D : b[x]["lmem"] \in Nat, NEW s \in SUBSET D
  PROVE  Lmem(b, D)[s] <= Lmem(b, D)[D]
<1> DEFINE g == Lmem(b, D)
           Bad == {t \in SUBSET D : ~(g[t] <= g[D])}
           Sizes == {Cardinality(D \ t) : t \in Bad}
<1>1. \A t \in SUBSET D : g[t] \in Nat /\ \A x \in t : g[t] = b[x]["lmem"] + g[t \ {x}]
  BY LmemTakesAny
<1> HIDE DEF g
<1>2. Bad = {}
  <2> SUFFICES ASSUME Bad # {} PROVE FALSE
    OBVIOUS
  <2>1. Sizes \subseteq Nat /\ Sizes # {}
    <3>1. \A t \in Bad : D \ t \in SUBSET D
      OBVIOUS
    <3>2. \A t \in Bad : Cardinality(D \ t) \in Nat
      BY <3>1, Subsets
    <3> QED BY <3>2
  <2>2. PICK m \in Sizes : \A k \in Sizes : m <= k
    BY <2>1, SmallestIsIn
  <2>3. PICK t \in Bad : Cardinality(D \ t) = m
    OBVIOUS
  <2>4. t # D
    BY <1>1
  <2>5. PICK x \in D : x \notin t
    BY <2>4
  <2> DEFINE u == t \cup {x}
  <2>6. u \in SUBSET D /\ x \in u /\ u \ {x} = t
    BY <2>5
  <2>7. D \ u = (D \ t) \ {x} /\ x \in D \ t /\ D \ t \in SUBSET D
    BY <2>5
  <2> HIDE DEF u
  <2>8. Cardinality(D \ u) = m - 1 /\ m \in Nat
    BY <2>1, <2>3, <2>7, Subsets
  <2>9. u \notin Bad
    <3> SUFFICES ASSUME u \in Bad PROVE FALSE
      OBVIOUS
    <3>1. Cardinality(D \ u) \in Sizes
      OBVIOUS
    <3>2. m <= m - 1
      BY <2>2, <2>8, <3>1
    <3> QED BY <2>8, <3>2
  <2>10. g[u] = b[x]["lmem"] + g[t] /\ g[u] \in Nat /\ g[t] \in Nat /\ g[D] \in Nat
    BY <1>1, <2>6
  <2>11. g[u] <= g[D] /\ ~(g[t] <= g[D]) /\ b[x]["lmem"] \in Nat
    BY <2>6, <2>9
  <2> QED BY ONLY <2>10, <2>11
<1> QED BY <1>2 DEF g

Attrs == [VfFile -> Nat]
VfTable == [1 .. TotalVfs -> Attrs]
Used(b) == Lmem(b, 1 .. TotalVfs)[1 .. TotalVfs]

(* The six files of a VF, the local memory being the third.                *)
LEMMA FileNames ==
  /\ {"exec", "preempt", "lmem", "doorbells", "contexts"} \subseteq VfFile
  /\ \A i \in 1 .. 6 : VfFiles[i] \in VfFile /\ (VfFiles[i] = "lmem" <=> i = 3)
  /\ Len(VfFiles) = 6
  /\ \A f \in VfFile : \E i \in 1 .. 6 : f = VfFiles[i]
<1>1. DOMAIN VfFiles = 1 .. 6 /\ Len(VfFiles) = 6
  BY DEF VfFiles
<1>2. VfFile = {VfFiles[i] : i \in 1 .. 6}
  BY <1>1 DEF VfFile, Range
<1>3. /\ VfFiles[1] = "exec" /\ VfFiles[2] = "preempt" /\ VfFiles[3] = "lmem"
      /\ VfFiles[4] = "ggtt" /\ VfFiles[5] = "doorbells" /\ VfFiles[6] = "contexts"
  BY DEF VfFiles
<1>4. \A i \in 1 .. 6 : i = 1 \/ i = 2 \/ i = 3 \/ i = 4 \/ i = 5 \/ i = 6
  OBVIOUS
<1>5. {"exec", "preempt", "lmem", "doorbells", "contexts"} \subseteq VfFile
  BY <1>2, <1>3
<1>6. \A i \in 1 .. 6 : VfFiles[i] = "lmem" <=> i = 3
  BY <1>3, <1>4
<1> QED BY <1>1, <1>2, <1>5, <1>6

(* A GPU has finitely many VFs.                                            *)
LEMMA SomeVfs == /\ IsFiniteSet(1 .. TotalVfs) /\ TotalVfs \in Nat
                 /\ \A n \in 0 .. TotalVfs : IsFiniteSet(1 .. n)
<1>1. TotalVfs \in Nat
  BY VgAssumption
<1>2. \A n \in Nat : IsFiniteSet(1 .. n)
  BY FS_Interval
<1> QED BY <1>1, <1>2

(* What one file that is written adds to the memory given away.            *)
FileSet(c, b, v, f, x) == c = [b EXCEPT ![v][f] = x]

(* The table after a file of one VF was set.                               *)
LEMMA FileWritten ==
  ASSUME NEW b \in VfTable, NEW v \in 1 .. TotalVfs, NEW f \in VfFile, NEW x \in Nat,
         NEW c, FileSet(c, b, v, f, x)
  PROVE  /\ c \in VfTable /\ c[v][f] = x
         /\ \A w \in 1 .. TotalVfs : w # v => c[w] = b[w]
         /\ \A e \in VfFile : e # f => c[v][e] = b[v][e]
         /\ Used(b) \in Nat /\ Used(c) \in Nat
         /\ Used(c) <= Used(b) + (IF f = "lmem" THEN x ELSE 0)
<1>1. /\ c \in VfTable /\ c[v][f] = x
      /\ \A w \in 1 .. TotalVfs : w # v => c[w] = b[w]
      /\ \A e \in VfFile : e # f => c[v][e] = b[v][e]
  BY DEF VfTable, Attrs, FileSet
<1>14. "lmem" \in VfFile
  BY FileNames
<1>2. \A w \in 1 .. TotalVfs : b[w]["lmem"] \in Nat /\ c[w]["lmem"] \in Nat
  BY <1>1, <1>14 DEF VfTable, Attrs
<1> DEFINE D == 1 .. TotalVfs
           rest == D \ {v}
<1>3. IsFiniteSet(D)
  BY SomeVfs
<1>4. (\A w \in D : b[w]["lmem"] \in Nat) /\ (\A w \in D : c[w]["lmem"] \in Nat)
  BY <1>2
<1>5. rest \in SUBSET D /\ rest \subseteq D /\ v \in D /\ \A w \in rest : b[w]["lmem"] = c[w]["lmem"]
  BY <1>1
<1> HIDE DEF D, rest
<1>6. Lmem(b, D)[rest] = Lmem(c, D)[rest]
  <2>1. \A w \in D : b[w]["lmem"] \in Nat
    BY <1>4
  <2>2. \A w \in D : c[w]["lmem"] \in Nat
    BY <1>4
  <2>3. rest \in SUBSET D /\ rest \subseteq D
    BY <1>5
  <2>4. \A w \in rest : b[w]["lmem"] = c[w]["lmem"]
    BY <1>5
  <2> QED BY ONLY <1>3, <2>1, <2>2, <2>3, <2>4, LmemAgrees
<1>7. Lmem(b, D)[D] \in Nat /\ Lmem(b, D)[rest] \in Nat
      /\ Lmem(b, D)[D] = b[v]["lmem"] + Lmem(b, D)[rest]
  <2>1. D \in SUBSET D
    OBVIOUS
  <2>2. \A w \in D : b[w]["lmem"] \in Nat
    BY <1>4
  <2>3. Counts(b, D)
    BY <2>2 DEF Counts
  <2>4. AddsUp(b, D)
    BY ONLY <1>3, <2>3, LmemAddsUp
  <2> QED BY <1>5, <2>1, <2>4 DEF rest, AddsUp
<1>8. Lmem(c, D)[D] \in Nat /\ Lmem(c, D)[rest] \in Nat
      /\ Lmem(c, D)[D] = c[v]["lmem"] + Lmem(c, D)[rest]
  <2>1. D \in SUBSET D
    OBVIOUS
  <2>2. \A w \in D : c[w]["lmem"] \in Nat
    BY <1>4
  <2>3. Counts(c, D)
    BY <2>2 DEF Counts
  <2>4. AddsUp(c, D)
    BY ONLY <1>3, <2>3, LmemAddsUp
  <2> QED BY <1>5, <2>1, <2>4 DEF rest, AddsUp
<1>9. c[v]["lmem"] = IF f = "lmem" THEN x ELSE b[v]["lmem"]
  BY <1>1, FileNames
<1>10. PICK ub, uc, ur, lb, lc :
         /\ ub = Lmem(b, D)[D] /\ uc = Lmem(c, D)[D] /\ ur = Lmem(b, D)[rest]
         /\ lb = b[v]["lmem"] /\ lc = c[v]["lmem"]
  OBVIOUS
<1>11. /\ ub \in Nat /\ uc \in Nat /\ ur \in Nat /\ lb \in Nat /\ lc \in Nat
       /\ ub = lb + ur /\ uc = lc + ur /\ lc = IF f = "lmem" THEN x ELSE lb
  BY <1>4, <1>5, <1>6, <1>7, <1>8, <1>9, <1>10
<1>12. uc <= ub + (IF f = "lmem" THEN x ELSE 0)
  BY ONLY <1>11, x \in Nat
<1>13. Used(b) = ub /\ Used(c) = uc
  BY <1>10 DEF Used, D
<1> QED BY <1>1, <1>11, <1>12, <1>13

(* The memory of the first n VFs is no more than that of all.              *)
LEMMA PartUsed ==
  ASSUME NEW b \in VfTable, NEW n \in 0 .. TotalVfs
  PROVE  /\ MapThenSumSet(LAMBDA v : b[v]["lmem"], 1 .. n) <= Used(b)
         /\ MapThenSumSet(LAMBDA v : b[v]["lmem"], DOMAIN b) = Used(b)
         /\ Used(b) \in Nat /\ MapThenSumSet(LAMBDA v : b[v]["lmem"], 1 .. n) \in Nat
<1> DEFINE D == 1 .. TotalVfs
           E == 1 .. n
<1>1. DOMAIN b = D /\ IsFiniteSet(D) /\ IsFiniteSet(E) /\ E \in SUBSET D
  BY SomeVfs DEF VfTable
<1>2. \A w \in D : b[w]["lmem"] \in Nat
  BY FileNames DEF VfTable, Attrs
<1>3. MapThenSumSet(LAMBDA v : b[v]["lmem"], E) = Lmem(b, E)[E]
  BY SumIsLmem
<1>4. MapThenSumSet(LAMBDA v : b[v]["lmem"], DOMAIN b) = Lmem(b, D)[D]
  BY <1>1, SumIsLmem
<1> HIDE DEF D, E
<1>5. Lmem(b, E)[E] = Lmem(b, D)[E]
  BY <1>1, <1>2, LmemAgrees
<1>6. Lmem(b, D)[E] <= Lmem(b, D)[D]
  BY <1>1, <1>2, LmemGrows
<1>7. Lmem(b, D)[D] \in Nat /\ Lmem(b, D)[E] \in Nat
  BY <1>1, <1>2, LmemTakesAny
<1> QED BY <1>3, <1>4, <1>5, <1>6, <1>7 DEF Used, D, E

(* The largest and the smallest of some indices are among them.            *)
LEMMA LargestIsIn ==
  ASSUME NEW n \in Nat, NEW S \in SUBSET (1 .. n), S # {}
  PROVE  /\ Max(S) \in S /\ \A k \in S : k <= Max(S)
         /\ Min(S) \in S /\ \A k \in S : Min(S) <= k
<1>1. S \subseteq Nat
  OBVIOUS
<1>2. PICK m \in S : \A k \in S : m <= k
  BY <1>1, SmallestIsIn
<1>3. Min(S) \in S /\ \A k \in S : Min(S) <= k
  BY <1>2, Zenon DEF Min
<1> DEFINE T == {n - k : k \in S}
<1>4. T \subseteq Nat /\ T # {}
  BY SMT
<1>5. PICK t \in T : \A k \in T : t <= k
  BY <1>4, SmallestIsIn
<1>6. PICK x \in S : t = n - x
  BY <1>5
<1>7. \A k \in S : x >= k
  <2> SUFFICES ASSUME NEW k \in S PROVE x >= k
    OBVIOUS
  <2>1. n - k \in T
    OBVIOUS
  <2>2. n - x <= n - k /\ x \in Nat /\ k \in Nat
    BY <1>1, <1>5, <1>6, <2>1
  <2> QED BY ONLY <2>2, n \in Nat
<1>8. Max(S) \in S /\ \A k \in S : Max(S) >= k
  BY <1>7, Zenon DEF Max
<1>9. \A k \in S : k \in Int /\ Max(S) \in Int
  BY <1>8, <1>1
<1> QED BY <1>3, <1>8, <1>9

(* The larger and the smaller of two numbers.                              *)
LEMMA LargerOfTwo ==
  ASSUME NEW x \in Int, NEW y \in Int
  PROVE  /\ Max({x, y}) = (IF x >= y THEN x ELSE y)
         /\ Min({x, y}) = (IF x <= y THEN x ELSE y)
<1>1. \E k \in {x, y} : \A j \in {x, y} : k >= j
  OBVIOUS
<1>2. Max({x, y}) \in {x, y} /\ \A j \in {x, y} : Max({x, y}) >= j
  BY <1>1, Zenon DEF Max
<1>3. \E k \in {x, y} : \A j \in {x, y} : k <= j
  OBVIOUS
<1>4. Min({x, y}) \in {x, y} /\ \A j \in {x, y} : Min({x, y}) <= j
  BY <1>3, Zenon DEF Min
<1> QED BY <1>2, <1>4

(* The scheduling parameters are durations, and the other files are kept.  *)
LEMMA Scheduled ==
  ASSUME NEW a \in Attrs, NEW n \in Nat \ {0}
  PROVE  /\ WithScheduler(a, n) \in Attrs
         /\ \A f \in VfFile : f \notin {"exec", "preempt"} => WithScheduler(a, n)[f] = a[f]
<1>1. PICK m \in Nat : m = Max({n - 1, 1}) /\ m > 0
  BY LargerOfTwo
<1>2. PICK share \in Nat : share = 2000 \div m
  BY <1>1
<1>3. PICK half \in Nat : half = share \div 2 /\ half <= share
  BY <1>2
<1>4. PICK exec \in Nat : exec = Min({half, 50}) /\ exec <= half
  BY LargerOfTwo
<1>5. SchedulerParameters(n) = [exec |-> exec, preempt |-> (share - exec) * 1000]
  BY <1>1, <1>2, <1>3, <1>4 DEF SchedulerParameters
<1>6. (share - exec) * 1000 \in Nat
  BY <1>3, <1>4
<1>7. SchedulerParameters(n)["exec"] \in Nat /\ SchedulerParameters(n)["preempt"] \in Nat
  BY <1>5, <1>6
<1> QED BY <1>7 DEF WithScheduler, Attrs

(* What vgpu.conf holds.                                                   *)
LEMMA ConfTypes ==
  ASSUME conf \in ConfFiles
  PROVE  /\ Len(conf) \in Nat /\ DOMAIN conf = 1 .. Len(conf)
         /\ \A i \in 1 .. Len(conf) : conf[i].key \in Nat /\ conf[i].attrs \in Attrs
<1>1. conf \in Seq([key : Nat, attrs : [VfFile -> Nat]])
  BY VgAssumption
<1>2. PICK s \in Seq([key : Nat, attrs : Attrs]) : s = conf
  BY <1>1 DEF Attrs
<1> DEFINE T == [key : Nat, attrs : Attrs]
<1>6. s \in Seq(T)
  BY <1>2
<1> HIDE DEF T
<1>3. Len(s) \in Nat /\ DOMAIN s = 1 .. Len(s)
  BY <1>6
<1>4. \A i \in 1 .. Len(s) : s[i] \in T
  BY <1>6
<1>5. \A i \in 1 .. Len(s) : s[i].key \in Nat /\ s[i].attrs \in Attrs
  BY <1>4 DEF T
<1> QED BY <1>2, <1>3, <1>5

(* A request for VFs that the GPU has does not mean the default section.   *)
LEMMA ManyVfs ==
  ASSUME NEW n \in 1 .. TotalVfs
  PROVE  /\ n \in Nat \ {0} /\ MaxVfNum \in Nat \ {0} /\ n < MaxVfNum /\ TotalVfs \in Nat
<1>1. TotalVfs \in Nat /\ MaxVfNum \in Nat /\ MaxVfNum > TotalVfs
  BY VgAssumption
<1> QED BY <1>1

(* The sections of vgpu.conf that a create of n VFs finds.                 *)
LEMMA SectionsFound ==
  ASSUME conf \in ConfFiles, NEW n \in 1 .. TotalVfs
  PROVE  /\ DOMAIN VfSections(n) \subseteq {n, MaxVfNum}
         /\ \A k \in DOMAIN VfSections(n) : VfSections(n)[k] \in Attrs
         /\ \A i, k \in DOMAIN conf :
              SectionsFor(i, k, n) =>
                /\ DOMAIN VfSections(n) = {n, MaxVfNum}
                /\ VfSections(n)[n]["doorbells"] = conf[k].attrs["doorbells"]
                /\ VfSections(n)[MaxVfNum]["doorbells"] = conf[i].attrs["doorbells"]
         /\ \A i \in DOMAIN conf :
              LoneDefault(i, n) =>
                /\ DOMAIN VfSections(n) = {MaxVfNum}
                /\ VfSections(n)[MaxVfNum]["doorbells"] = conf[i].attrs["doorbells"]
<1> DEFINE own == {i \in DOMAIN conf : conf[i].key = n}
           read == IF own = {} THEN DOMAIN conf ELSE 1 .. Min(own)
           Of(k) == {i \in read : conf[i].key = k}
           keys == {conf[i].key : i \in read} \cap {n, MaxVfNum}
<1>0. /\ n \in Nat \ {0} /\ MaxVfNum \in Nat \ {0} /\ n < MaxVfNum /\ TotalVfs \in Nat
  BY ManyVfs
<1>1. /\ Len(conf) \in Nat /\ DOMAIN conf = 1 .. Len(conf)
      /\ \A i \in 1 .. Len(conf) : conf[i].key \in Nat /\ conf[i].attrs \in Attrs
  BY ConfTypes
<1>2. \A i \in DOMAIN conf : conf[i].attrs \in Attrs
  BY <1>1
<1>3. own # {} => Min(own) \in own /\ \A i \in own : Min(own) <= i
  <2>1. own \in SUBSET (1 .. Len(conf))
    BY <1>1
  <2> HIDE DEF own
  <2> QED BY <1>1, <2>1, LargestIsIn
<1>4. read \in SUBSET (1 .. Len(conf))
  <2>1. CASE own = {}
    BY <1>1, <2>1
  <2>2. CASE own # {}
    <3>1. Min(own) \in 1 .. Len(conf)
      BY <1>1, <1>3, <2>2
    <3>2. PICK m : m = Min(own)
      OBVIOUS
    <3>3. read = 1 .. m
      BY <2>2, <3>2
    <3> HIDE DEF read, own
    <3>4. m \in Nat /\ m <= Len(conf)
      BY <1>1, <3>1, <3>2
    <3> QED BY <1>1, <3>3, <3>4
  <2> QED BY <2>1, <2>2
<1>5. VfSections(n) = [k \in keys |-> WithScheduler(conf[Max(Of(k))].attrs, k)]
  BY DEF VfSections
<1>6. \A k \in keys : Max(Of(k)) \in Of(k) /\ \A i \in Of(k) : i <= Max(Of(k))
  <2> SUFFICES ASSUME NEW k \in keys
               PROVE  Max(Of(k)) \in Of(k) /\ \A i \in Of(k) : i <= Max(Of(k))
    OBVIOUS
  <2>1. Of(k) # {} /\ Of(k) \in SUBSET (1 .. Len(conf))
    BY <1>4
  <2> HIDE DEF Of
  <2> QED BY <1>1, <2>1, LargestIsIn
<1>7. \A k \in keys : k \in Nat \ {0} /\ conf[Max(Of(k))].attrs \in Attrs
  <2> SUFFICES ASSUME NEW k \in keys
               PROVE  k \in Nat \ {0} /\ conf[Max(Of(k))].attrs \in Attrs
    OBVIOUS
  <2>1. Max(Of(k)) \in 1 .. Len(conf)
    BY <1>4, <1>6
  <2> QED BY <1>0, <1>1, <2>1
<1>8. \A k \in keys : /\ VfSections(n)[k] \in Attrs
                      /\ VfSections(n)[k]["doorbells"] = conf[Max(Of(k))].attrs["doorbells"]
  <2> SUFFICES ASSUME NEW k \in keys
               PROVE  /\ VfSections(n)[k] \in Attrs
                      /\ VfSections(n)[k]["doorbells"] = conf[Max(Of(k))].attrs["doorbells"]
    OBVIOUS
  <2>1. VfSections(n)[k] = WithScheduler(conf[Max(Of(k))].attrs, k)
    BY <1>5
  <2>2. PICK a \in Attrs : a = conf[Max(Of(k))].attrs
    BY <1>7
  <2>3. "doorbells" \in VfFile
    BY FileNames
  <2>4. k \in Nat \ {0}
    BY <1>7
  <2>5. VfSections(n)[k] = WithScheduler(a, k)
    BY <2>1, <2>2
  <2> HIDE DEF keys
  <2>6. WithScheduler(a, k) \in Attrs /\ WithScheduler(a, k)["doorbells"] = a["doorbells"]
    BY <2>3, <2>4, Scheduled
  <2> QED BY <2>2, <2>5, <2>6
<1>9. DOMAIN VfSections(n) = keys
  BY <1>5
<1>10. ASSUME NEW i \in DOMAIN conf, NEW k \in DOMAIN conf, SectionsFor(i, k, n)
       PROVE  /\ DOMAIN VfSections(n) = {n, MaxVfNum}
              /\ VfSections(n)[n]["doorbells"] = conf[k].attrs["doorbells"]
              /\ VfSections(n)[MaxVfNum]["doorbells"] = conf[i].attrs["doorbells"]
  <2>1. /\ i < k /\ conf[i].key = MaxVfNum /\ conf[k].key = n
        /\ \A j \in 1 .. k - 1 : conf[j].key # n /\ (j > i => conf[j].key # MaxVfNum)
    BY <1>10 DEF SectionsFor
  <2>2. i \in Nat \ {0} /\ k \in Nat \ {0} /\ i <= Len(conf) /\ k <= Len(conf)
    BY <1>1
  <2>3. own # {} /\ k \in own /\ \A j \in own : j \in Nat /\ j >= k
    <3>1. \A j \in own : j \in Nat \ {0} /\ j \notin 1 .. k - 1
      BY <1>1, <2>1
    <3> QED BY <2>1, <2>2, <3>1
  <2>4. Min(own) = k
    <3>1. Min(own) \in Nat /\ Min(own) >= k /\ Min(own) <= k
      BY <1>3, <2>3
    <3> QED BY ONLY <2>2, <3>1
  <2>5. read = 1 .. k
    BY <2>3, <2>4
  <2>6. n \in keys /\ MaxVfNum \in keys
    <3>1. i \in 1 .. k /\ k \in 1 .. k
      BY <2>1, <2>2
    <3>2. i \in read /\ k \in read
      BY <2>5, <3>1
    <3> HIDE DEF read
    <3>3. conf[i].key \in keys
      BY <2>1, <3>2
    <3>4. conf[k].key \in keys
      BY <2>1, <3>2
    <3> QED BY <2>1, <3>3, <3>4
  <2>7. Max(Of(n)) = k
    <3>1. k \in Of(n) /\ \A j \in Of(n) : j <= k
      <4>1. k \in 1 .. k /\ \A j \in 1 .. k : j <= k
        BY <2>2
      <4>2. Of(n) = {j \in 1 .. k : conf[j].key = n}
        BY <2>5
      <4> HIDE DEF Of
      <4> QED BY <2>1, <4>1, <4>2
    <3>2. Max(Of(n)) \in Of(n) /\ k <= Max(Of(n)) /\ Max(Of(n)) <= k
      BY <1>6, <2>6, <3>1
    <3>3. Max(Of(n)) \in Nat
      BY <1>4, <3>2
    <3> HIDE DEF Of
    <3> QED BY ONLY <2>2, <3>2, <3>3
  <2>8. Max(Of(MaxVfNum)) = i
    <3>1. i \in Of(MaxVfNum) /\ \A j \in Of(MaxVfNum) : j <= i
      <4>1. Of(MaxVfNum) = {j \in 1 .. k : conf[j].key = MaxVfNum}
        BY <2>5
      <4>2. \A j \in 1 .. k : j = k \/ j \in 1 .. k - 1
        BY <2>2
      <4>3. i \in 1 .. k
        BY <2>1, <2>2
      <4>4. conf[k].key # MaxVfNum
        BY <1>0, <2>1
      <4>5. ASSUME NEW j \in 1 .. k, conf[j].key = MaxVfNum PROVE j <= i
        <5>1. ~(j > i)
          BY <2>1, <4>2, <4>4, <4>5
        <5>2. j \in Int /\ i \in Int
          BY <2>2
        <5> QED BY ONLY <5>1, <5>2
      <4> HIDE DEF Of
      <4> QED BY <2>1, <4>1, <4>3, <4>5
    <3>2. Max(Of(MaxVfNum)) \in Of(MaxVfNum) /\ i <= Max(Of(MaxVfNum)) /\ Max(Of(MaxVfNum)) <= i
      BY <1>6, <2>6, <3>1
    <3>3. Max(Of(MaxVfNum)) \in Nat
      BY <1>4, <3>2
    <3> HIDE DEF Of
    <3> QED BY ONLY <2>2, <3>2, <3>3
  <2> QED BY <1>8, <1>9, <2>6, <2>7, <2>8
<1>11. ASSUME NEW i \in DOMAIN conf, LoneDefault(i, n)
       PROVE  /\ DOMAIN VfSections(n) = {MaxVfNum}
              /\ VfSections(n)[MaxVfNum]["doorbells"] = conf[i].attrs["doorbells"]
  <2>1. /\ conf[i].key = MaxVfNum
        /\ \A j \in DOMAIN conf : conf[j].key # n /\ (j > i => conf[j].key # MaxVfNum)
    BY <1>11 DEF LoneDefault
  <2>2. own = {} /\ read = DOMAIN conf
    BY <2>1
  <2>3. keys = {MaxVfNum}
    <3> HIDE DEF read, own
    <3>1. n \notin {conf[j].key : j \in read} /\ MaxVfNum \in {conf[j].key : j \in read}
      BY <2>1, <2>2
    <3> QED BY <3>1
  <2>4. Max(Of(MaxVfNum)) = i
    <3>1. Max(Of(MaxVfNum)) \in Of(MaxVfNum) /\ \A j \in Of(MaxVfNum) : j <= Max(Of(MaxVfNum))
      BY <1>6, <2>3
    <3>2. Of(MaxVfNum) = {j \in DOMAIN conf : conf[j].key = MaxVfNum}
      BY <2>2
    <3> HIDE DEF Of
    <3>3. PICK m : m = Max(Of(MaxVfNum))
      OBVIOUS
    <3>4. m \in DOMAIN conf /\ conf[m].key = MaxVfNum /\ i <= m
      BY <2>1, <3>1, <3>2, <3>3
    <3>5. ~(m > i) /\ m \in Nat /\ i \in Nat
      BY <1>1, <2>1, <3>4
    <3> QED BY <3>3, <3>4, <3>5
  <2> QED BY <1>8, <1>9, <2>3, <2>4
<1> QED BY <1>8, <1>9, <1>10, <1>11

(* What a VF gets: the default section's doorbells are shared among all,   *)
(* but where there is no other section each gets all of them.              *)
DoorbellsShared(a, n) ==
  /\ \A i, k \in DOMAIN conf :
       SectionsFor(i, k, n) /\ conf[k].attrs["doorbells"] = 0
         => a["doorbells"] * n <= conf[i].attrs["doorbells"]
  /\ \A i \in DOMAIN conf :
       LoneDefault(i, n) => a["doorbells"] = conf[i].attrs["doorbells"]

(* What is divided does not exceed the whole.                              *)
LEMMA Quotient ==
  ASSUME NEW x \in Nat, NEW n \in Nat \ {0}
  PROVE  (x \div n) * n <= x /\ x \div n \in Nat
  OBVIOUS

(* The attributes that a create gives to every VF.                         *)
LEMMA AttrsCombined ==
  ASSUME conf \in ConfFiles, NEW n \in 1 .. TotalVfs
  PROVE  /\ CombineAttrConfig(VfSections(n), n) \in Attrs
         /\ DoorbellsShared(CombineAttrConfig(VfSections(n), n), n)
<1> DEFINE d == VfSections(n)
           c == CombineAttrConfig(d, n)
           both == [f \in VfFile |->
                      IF d[n][f] # 0 THEN d[n][f]
                      ELSE IF f = "contexts" THEN d[MaxVfNum][f] ELSE d[MaxVfNum][f] \div n]
<1>0. /\ Len(conf) \in Nat /\ DOMAIN conf = 1 .. Len(conf)
      /\ \A i \in 1 .. Len(conf) : conf[i].key \in Nat /\ conf[i].attrs \in Attrs
  BY ConfTypes
<1>1. n \in Nat \ {0} /\ MaxVfNum \in Nat \ {0} /\ n # MaxVfNum
  BY ManyVfs
<1>2. /\ DOMAIN d \subseteq {n, MaxVfNum}
      /\ \A k \in DOMAIN d : d[k] \in Attrs
      /\ \A i, k \in DOMAIN conf :
           SectionsFor(i, k, n) =>
             /\ DOMAIN d = {n, MaxVfNum}
             /\ d[n]["doorbells"] = conf[k].attrs["doorbells"]
             /\ d[MaxVfNum]["doorbells"] = conf[i].attrs["doorbells"]
      /\ \A i \in DOMAIN conf :
           LoneDefault(i, n) =>
             /\ DOMAIN d = {MaxVfNum}
             /\ d[MaxVfNum]["doorbells"] = conf[i].attrs["doorbells"]
  BY SectionsFound
<1> HIDE DEF d
<1>3. CASE DOMAIN d = {n, MaxVfNum}
  <2>1. Cardinality(DOMAIN d) = 2
    <3>1. IsFiniteSet({n}) /\ Cardinality({n}) = 1
      BY FS_Singleton
    <3>2. {n, MaxVfNum} = {n} \cup {MaxVfNum} /\ MaxVfNum \notin {n}
      BY <1>1
    <3>3. Cardinality({n} \cup {MaxVfNum}) = Cardinality({n}) + 1
      BY <3>1, <3>2, FS_AddElement
    <3> QED BY <1>3, <3>1, <3>2, <3>3
  <2>2. c = WithScheduler(both, n)
    BY <1>3, <2>1 DEF CombineAttrConfig
  <2>3. d[n] \in Attrs /\ d[MaxVfNum] \in Attrs
    BY <1>2, <1>3
  <2>4. both \in Attrs
    <3> SUFFICES ASSUME NEW f \in VfFile
                 PROVE  (IF d[n][f] # 0 THEN d[n][f]
                         ELSE IF f = "contexts" THEN d[MaxVfNum][f]
                         ELSE d[MaxVfNum][f] \div n) \in Nat
      BY DEF Attrs
    <3>1. d[n][f] \in Nat /\ d[MaxVfNum][f] \in Nat
      BY <2>3 DEF Attrs
    <3>2. d[MaxVfNum][f] \div n \in Nat
      BY <1>1, <3>1, Quotient
    <3> QED BY <3>1, <3>2
  <2>5. c \in Attrs /\ c["doorbells"] = both["doorbells"] /\ "doorbells" \in VfFile
    <3>1. "doorbells" \in VfFile
      BY FileNames
    <3> HIDE DEF both, c
    <3> QED BY <1>1, <2>2, <2>4, <3>1, Scheduled
  <2>6. DoorbellsShared(c, n)
    <3>4. \A i \in DOMAIN conf : ~LoneDefault(i, n)
      BY <1>1, <1>2, <1>3
    <3> SUFFICES ASSUME NEW i \in DOMAIN conf, NEW k \in DOMAIN conf,
                        SectionsFor(i, k, n), conf[k].attrs["doorbells"] = 0
                 PROVE  c["doorbells"] * n <= conf[i].attrs["doorbells"]
      BY <3>4 DEF DoorbellsShared
    <3>1. d[n]["doorbells"] = 0 /\ d[MaxVfNum]["doorbells"] = conf[i].attrs["doorbells"]
      BY <1>2
    <3>2. PICK x \in Nat : x = d[MaxVfNum]["doorbells"]
      BY <2>3, <2>5 DEF Attrs
    <3>3. c["doorbells"] = x \div n
      BY <2>5, <3>1, <3>2
    <3> QED BY <1>1, <3>1, <3>2, <3>3, Quotient
  <2> QED BY <2>5, <2>6 DEF d
<1>4. CASE DOMAIN d # {n, MaxVfNum}
  <2> HIDE DEF both
  <2>1. DOMAIN d = {} \/ \E k \in {n, MaxVfNum} : DOMAIN d = {k}
    BY <1>2, <1>4
  <2>2. \A k : Cardinality({k}) = 1
    BY FS_Singleton
  <2>3. c = ZeroAttr \/ (c = d[CHOOSE k \in DOMAIN d : TRUE] /\ DOMAIN d # {})
    <3>1. CASE DOMAIN d = {}
      <4>1. c = IF DOMAIN d = {} THEN ZeroAttr ELSE c
        BY DEF CombineAttrConfig
      <4> QED BY <3>1, <4>1
    <3>2. CASE DOMAIN d # {}
      <4>1. Cardinality(DOMAIN d) = 1
        BY <2>1, <2>2, <3>2
      <4> QED BY <3>2, <4>1 DEF CombineAttrConfig
    <3> QED BY <3>1, <3>2
  <2>4. c \in Attrs
    <3>1. DOMAIN d # {} => (CHOOSE k \in DOMAIN d : TRUE) \in DOMAIN d
      OBVIOUS
    <3> QED BY <1>2, <2>3, <3>1 DEF Attrs, ZeroAttr
  <2>5. DoorbellsShared(c, n)
    <3>1. \A i, k \in DOMAIN conf : ~SectionsFor(i, k, n)
      BY <1>2, <1>4
    <3>2. ASSUME NEW i \in DOMAIN conf, LoneDefault(i, n)
          PROVE  c["doorbells"] = conf[i].attrs["doorbells"]
      <4>1. DOMAIN d = {MaxVfNum} /\ d[MaxVfNum]["doorbells"] = conf[i].attrs["doorbells"]
        BY <1>2, <3>2
      <4>2. DOMAIN d # {} /\ Cardinality(DOMAIN d) = 1
        BY <2>2, <4>1
      <4>3. c = d[CHOOSE k \in DOMAIN d : TRUE]
        BY <4>2 DEF CombineAttrConfig
      <4>4. (CHOOSE k \in DOMAIN d : TRUE) = MaxVfNum
        BY <4>1
      <4> QED BY <4>1, <4>3, <4>4
    <3> HIDE DEF c
    <3> QED BY <3>1, <3>2 DEF DoorbellsShared
  <2> QED BY <2>4, <2>5 DEF d
<1> QED BY <1>3, <1>4 DEF d

(***************************************************************************)
(* vgpu: the invariant                                                     *)
(***************************************************************************)
VgPcs == {"off", "load", "check", "pf", "vf", "enable", "removeRead", "removeDisable", "done"}
VgLine == [op : {"none", "create", "remove", "read"}, n : Nat, lmem : Nat]
VgProcess ==
  [pc : VgPcs, req : VgLine, free : Int, vfs : 0 .. TotalVfs, attrs : Attrs, at : Nat \ {0},
   file : 1 .. 6, result : {"none", "ok", "invalid", "unknown"}, was : 0 .. TotalVfs,
   skipped : BOOLEAN]
Busy(q) == q.pc \notin {"off", "done"}

(* The files that a process has written.                                   *)
Written(q, b) ==
  /\ \A v \in 1 .. TotalVfs : v < q.at => b[v] = q.attrs
  /\ \A i \in 1 .. 6 : i < q.file => b[q.at][VfFiles[i]] = q.attrs[VfFiles[i]]

(* The loop over the VFs; the local memory is the third file.              *)
InLoop(q) ==
  /\ q.at \in 1 .. q.vfs + 1 /\ (q.at = q.vfs + 1 => q.file = 1)
  /\ q.pc # "vf" => q.at = 1 /\ q.file = 1
Left(q) == IF q.file <= 3 THEN q.vfs - q.at + 1 ELSE q.vfs - q.at

Starting(q) == /\ q.req.op = "create" /\ q.req.n > 0 /\ q.req.lmem > 0
               /\ q.req \in VgRequests /\ q.at = 1 /\ q.file = 1
Creating(q, nv, b, blind, o) ==
  /\ q.req.op = "create" /\ nv = 0 /\ q.vfs > 0 /\ q.attrs["lmem"] > 0
  /\ InLoop(q) /\ Written(q, b) /\ DoorbellsShared(q.attrs, q.vfs)
  /\ ~blind => Used(b) + Left(q) * q.attrs["lmem"] + o <= Memory - Spare
Removing(q, nv, b) ==
  /\ q.req.op = "remove" /\ q.attrs = ZeroAttr
  /\ q.pc = "removeRead" => q.was = nv /\ q.at = 1 /\ q.file = 1
  /\ q.pc = "removeDisable" => q.was = nv
  /\ q.pc = "vf" => nv = 0
  /\ q.pc # "removeRead" => q.vfs = q.was /\ InLoop(q)
  /\ ~q.skipped => Written(q, b)

Sound(q) == /\ Busy(q) => q.result = "none"
            /\ q.pc \in {"load", "check"} => Starting(q)

(* The free memory that a create has read leaves lmem_spare.               *)
Known(free, nv, used, o) ==
  free \in 0 .. Memory /\ (nv = 0 /\ free > 0 => free + used + o + Spare = Memory)

(* What a process that works alone has done so far.                        *)
AtWork(q, nv, b, blind, o) ==
  /\ q.pc = "check" /\ ~blind => Known(q.free, nv, Used(b), o)
  /\ q.pc = "pf" \/ (q.pc = "vf" /\ q.req.op = "create") => Creating(q, nv, b, blind, o)
  /\ q.pc \in {"removeRead", "removeDisable"} \/ (q.pc = "vf" /\ q.req.op # "create")
       => Removing(q, nv, b)

(* What the files say, whoever wrote them.                                 *)
InFiles(nv, b, blind, o) ==
  nv > 0 => /\ b[1]["lmem"] > 0
            /\ \A v \in 1 .. nv : b[v] = b[1]
            /\ DoorbellsShared(b[1], nv)
            /\ ~blind => Used(b) + o <= Memory - Spare

Quiet == ~vgOverlap /\ vgLost = 0
VgTypes ==
  /\ conf \in ConfFiles /\ numvfs \in 0 .. TotalVfs /\ vf \in VfTable /\ vgLost \in Nat
  /\ vgWrapped \in BOOLEAN /\ vgOthers \in {0} \cup OthersUse
  /\ vg \in [VgProcs -> VgProcess]
  /\ \A p \in VgProcs : Sound(vg[p])
Alone == ~vgOverlap => \A p, q \in VgProcs : Busy(vg[p]) /\ Busy(vg[q]) => p = q
VgInv ==
  /\ VgTypes /\ Alone
  /\ Quiet => InFiles(numvfs, vf, vgWrapped, vgOthers)
  /\ Quiet => \A p \in VgProcs : AtWork(vg[p], numvfs, vf, vgWrapped, vgOthers)

(* A process that does not run holds nothing.                              *)
LEMMA IdleAtWork ==
  ASSUME NEW q, ~Busy(q), NEW nv, NEW b, NEW blind, NEW o
  PROVE  AtWork(q, nv, b, blind, o)
  BY DEF AtWork, Busy

(* The doorbells are shared as vgpu.conf says, which nobody changes.       *)
LEMMA SharedSame ==
  ASSUME conf' = conf, NEW a, NEW n
  PROVE  DoorbellsShared(a, n)' <=> DoorbellsShared(a, n)
  BY DEF DoorbellsShared, SectionsFor, LoneDefault

(* A step of one process, while the others do nothing.                     *)
LEMMA OneActs ==
  ASSUME VgInv, NEW p \in VgProcs, NEW x \in VgProcess, vg' = [vg EXCEPT ![p] = x],
         Sound(x),
         Busy(vg[p]) \/ (~vgOverlap' => \A q \in VgProcs \ {p} : ~Busy(vg[q])),
         ~vgOverlap' => ~vgOverlap, conf' = conf, vgLost' \in Nat, vgLost' >= vgLost,
         numvfs' \in 0 .. TotalVfs, vf' \in VfTable, UNCHANGED <<vgWrapped, vgOthers>>
           \/ (vgWrapped' \in BOOLEAN /\ vgOthers' \in {0} \cup OthersUse),
         Quiet' => AtWork(x, numvfs, vf, vgWrapped, vgOthers)',
         Quiet' => InFiles(numvfs, vf, vgWrapped, vgOthers)'
  PROVE  VgInv'
<1>1. VgTypes /\ Alone
  BY DEF VgInv
<1>2. /\ vg \in [VgProcs -> VgProcess] /\ vg' \in [VgProcs -> VgProcess]
      /\ vg'[p] = x /\ \A q \in VgProcs : q # p => vg'[q] = vg[q]
  BY <1>1 DEF VgTypes
<1>3. VgTypes'
  <2>1. \A q \in VgProcs : Sound(vg'[q])
    BY <1>1, <1>2 DEF VgTypes
  <2>2. conf' \in ConfFiles /\ vgWrapped' \in BOOLEAN /\ vgOthers' \in {0} \cup OthersUse
    BY <1>1, Zenon DEF VgTypes
  <2> QED BY <1>2, <2>1, <2>2 DEF VgTypes, Sound, Busy, Starting
<1>4. ~vgOverlap' => \A q \in VgProcs : q # p => ~Busy(vg[q])
  <2>1. ~vgOverlap => \A q \in VgProcs : Busy(vg[p]) /\ Busy(vg[q]) => p = q
    BY <1>1 DEF Alone
  <2> QED BY <2>1
<1>5. Alone'
  BY <1>2, <1>4 DEF Alone, Busy
<1>6. Quiet' => ~vgOverlap'
  BY DEF Quiet
<1>7. ASSUME Quiet', NEW q \in VgProcs PROVE AtWork(vg[q], numvfs, vf, vgWrapped, vgOthers)'
  <2>1. CASE q = p
    BY <1>2, <1>7, <2>1 DEF AtWork, Known, Creating, Removing, Starting, Written, InLoop, Left, Used, DoorbellsShared, SectionsFor, LoneDefault
  <2>2. CASE q # p
    <3>1. ~Busy(vg'[q])
      BY <1>2, <1>4, <1>6, <1>7, <2>2 DEF Busy
    <3> QED BY <3>1 DEF AtWork, Busy
  <2> QED BY <2>1, <2>2
<1> QED BY <1>3, <1>5, <1>7 DEF VgInv

(* A process that ended, or was killed, does not run.                      *)
LEMMA ProcessEnds ==
  ASSUME NEW r \in {"none", "ok", "invalid", "unknown"}
  PROVE  /\ [NoProc EXCEPT !.pc = "done", !.result = r] \in VgProcess
         /\ ~Busy([NoProc EXCEPT !.pc = "done", !.result = r])
         /\ NoProc \in VgProcess /\ ~Busy(NoProc)
<1>1. TotalVfs \in Nat
  BY VgAssumption
<1>2. ZeroAttr \in Attrs
  BY DEF ZeroAttr, Attrs
<1>3. NoProc \in VgProcess /\ NoProc.pc = "off"
  BY <1>1, <1>2 DEF NoProc, VgProcess, VgPcs, VgLine
<1>4. PICK s \in VgProcess : s = NoProc
  BY <1>3
<1>5. "done" \in VgPcs
  BY DEF VgPcs
<1>6. [s EXCEPT !.pc = "done", !.result = r] \in VgProcess
      /\ [s EXCEPT !.pc = "done", !.result = r].pc = "done"
  BY <1>5 DEF VgProcess
<1> QED BY <1>3, <1>4, <1>6 DEF Busy

(* A process returns, or is killed.                                        *)
LEMMA ReturnKeeps ==
  ASSUME VgInv, NEW p \in VgProcs, NEW r \in {"ok", "invalid", "unknown"},
         VgReturn(p, r) \/ vg' = [vg EXCEPT ![p] = NoProc],
         Busy(vg[p]) \/ (~vgOverlap' => \A q \in VgProcs \ {p} : ~Busy(vg[q])),
         ~vgOverlap' => ~vgOverlap, conf' = conf, vgLost' \in Nat, vgLost' >= vgLost,
         numvfs' \in 0 .. TotalVfs, vf' = vf, UNCHANGED <<vgWrapped, vgOthers>>,
         Quiet' => InFiles(numvfs, vf, vgWrapped, vgOthers)'
  PROVE  VgInv'
<1>1. PICK x \in VgProcess : vg' = [vg EXCEPT ![p] = x] /\ ~Busy(x)
  BY ProcessEnds, Zenon DEF VgReturn
<1>2. vf' \in VfTable
  BY DEF VgInv, VgTypes
<1>3. AtWork(x, numvfs, vf, vgWrapped, vgOthers)'
  BY <1>1 DEF AtWork, Busy
<1>4. Sound(x)
  BY <1>1 DEF Sound, Busy
<1> QED BY <1>1, <1>2, <1>3, <1>4, OneActs

(* A step that writes no file changes nothing about the files.             *)
LEMMA FilesSame ==
  ASSUME VgInv, UNCHANGED <<conf, numvfs, vf>>, vgWrapped' \/ ~vgWrapped, Quiet,
         numvfs > 0 => vgOthers' = vgOthers
  PROVE  InFiles(numvfs, vf, vgWrapped, vgOthers)'
<1>1. InFiles(numvfs, vf, vgWrapped, vgOthers)
  BY DEF VgInv
<1>2. DoorbellsShared(vf[1], numvfs)' <=> DoorbellsShared(vf[1], numvfs)
  BY DEF DoorbellsShared, SectionsFor, LoneDefault
<1> QED BY <1>1, <1>2 DEF InFiles, Used

(* A process may die at any step of its own.                               *)
LEMMA KillKeeps == ASSUME VgInv, NEW p \in VgProcs, KillVgpu(p) PROVE VgInv'
<1>1. /\ UNCHANGED <<conf, numvfs, vf, vgOverlap, vgLost, vgWrapped, vgOthers>>
      /\ vg' = [vg EXCEPT ![p] = NoProc] /\ VgAlive(p)
  BY DEF KillVgpu
<1>2. Busy(vg[p])
  BY <1>1 DEF VgAlive, Busy
<1>3. vgLost \in Nat /\ numvfs \in 0 .. TotalVfs
  BY DEF VgInv, VgTypes
<1>4. Quiet' => Quiet
  BY <1>1 DEF Quiet
<1>5. Quiet' => InFiles(numvfs, vf, vgWrapped, vgOthers)'
  BY <1>1, <1>4, FilesSame
<1>6. /\ ~vgOverlap' => ~vgOverlap
      /\ vgLost' \in Nat /\ vgLost' >= vgLost /\ numvfs' \in 0 .. TotalVfs
  BY <1>1, <1>3
<1> QED BY <1>1, <1>2, <1>5, <1>6, ReturnKeeps

(* A process begins.                                                       *)
LEMMA RunKeeps == ASSUME VgInv, NEW p \in VgProcs, RunVgpu(p) PROVE VgInv'
<1>1. /\ UNCHANGED <<conf, numvfs, vf, vgLost, vgWrapped, vgOthers>> /\ ~VgAlive(p)
      /\ vgOverlap' = (vgOverlap \/ \E q \in VgProcs \ {p} : VgAlive(q))
  BY DEF RunVgpu
<1>2. /\ ~vgOverlap' => ~vgOverlap
      /\ ~vgOverlap' => \A q \in VgProcs \ {p} : ~Busy(vg[q])
  BY <1>1 DEF VgAlive, Busy
<1>3. vgLost \in Nat /\ numvfs \in 0 .. TotalVfs /\ vf \in VfTable
  BY DEF VgInv, VgTypes
<1>4. Quiet' => Quiet
  BY <1>1, <1>2 DEF Quiet
<1>5. Quiet' => InFiles(numvfs, vf, vgWrapped, vgOthers)'
  BY <1>1, <1>4, FilesSame
<1>6. /\ conf' = conf /\ vgLost' \in Nat /\ vgLost' >= vgLost
      /\ numvfs' \in 0 .. TotalVfs /\ vf' \in VfTable /\ vf' = vf
  BY <1>1, <1>3
<1>7. PICK r \in VgRequests :
        \/ \E res \in {"ok", "invalid", "unknown"} : VgReturn(p, res)
        \/ /\ r.op = "create" /\ r.n > 0 /\ r.lmem > 0
           /\ vg' = [vg EXCEPT ![p] = [[NoProc EXCEPT !.req = r, !.was = numvfs]
                                         EXCEPT !.pc = "load"]]
        \/ /\ r.op = "remove"
           /\ vg' = [vg EXCEPT ![p] = [[NoProc EXCEPT !.req = r, !.was = numvfs]
                                         EXCEPT !.pc = "removeRead"]]
  BY Zenon DEF RunVgpu
<1>8. CASE \E res \in {"ok", "invalid", "unknown"} : VgReturn(p, res)
  BY <1>1, <1>2, <1>5, <1>6, <1>8, ReturnKeeps
<1>9. ASSUME NEW pc \in {"load", "removeRead"},
             vg' = [vg EXCEPT ![p] = [[NoProc EXCEPT !.req = r, !.was = numvfs] EXCEPT !.pc = pc]],
             pc = "load" => r.op = "create" /\ r.n > 0 /\ r.lmem > 0,
             pc = "removeRead" => r.op = "remove"
      PROVE  VgInv'
  <2>1. PICK s \in VgProcess : s = NoProc
    BY ProcessEnds
  <2>2. /\ s.at = 1 /\ s.file = 1 /\ s.attrs = ZeroAttr /\ s.result = "none" /\ ~s.skipped
    BY <2>1 DEF NoProc
  <2>3. PICK nv \in 0 .. TotalVfs : nv = numvfs
    BY <1>3
  <2>4. r \in VgLine
    BY VgAssumption DEF VgLine
  <2>5. pc \in VgPcs
    BY DEF VgPcs
  <2>6. PICK x : x = [[s EXCEPT !.req = r, !.was = nv] EXCEPT !.pc = pc]
    OBVIOUS
  <2>7. x \in VgProcess
    BY <2>4, <2>5, <2>6 DEF VgProcess
  <2>8. /\ x.at = 1 /\ x.file = 1 /\ x.attrs = ZeroAttr /\ x.result = "none" /\ ~x.skipped
        /\ x.req = r /\ x.was = nv /\ x.pc = pc
    BY <2>2, <2>6 DEF VgProcess
  <2>9. vg' = [vg EXCEPT ![p] = x]
    BY <1>9, <2>1, <2>3, <2>6
  <2>10. nv = numvfs'
    BY <1>1, <2>3
  <2>12. Sound(x)
    BY <1>9, <2>8 DEF Sound, Starting, Busy
  <2>11. AtWork(x, numvfs, vf, vgWrapped, vgOthers)'
    <3>1. \A b : Written(x, b)
      <4>1. \A v \in 1 .. TotalVfs : ~(v < x.at)
        BY <2>8, <1>3
      <4>2. \A i \in 1 .. 6 : ~(i < x.file)
        BY <2>8
      <4> QED BY <4>1, <4>2 DEF Written
    <3>2. CASE pc = "load"
      BY <1>9, <2>8, <3>2 DEF AtWork
    <3>3. CASE pc = "removeRead"
      BY <1>9, <2>8, <2>10, <3>1, <3>3 DEF AtWork, Removing
    <3> QED BY <3>2, <3>3
  <2> QED BY <1>1, <1>2, <1>5, <1>6, <2>7, <2>8, <2>9, <2>11, <2>12, OneActs
<1> QED BY <1>7, <1>8, <1>9

(* The memory that is left, in as many bits as the code has.               *)
LEMMA FreeMemory ==
  ASSUME NEW used \in Nat, NEW avail \in Nat, avail = Memory - used \/ avail = 0,
         avail >= Spare, NEW free, free = (avail - Spare) % 2 ^ LmemBits
  PROVE  free \in 0 .. Memory /\ (free > 0 => free + used + Spare = Memory)
<1>1. PICK m \in Nat : m = 2 ^ LmemBits
  BY VgAssumption
<1>2. Memory \in Nat /\ Spare \in Nat /\ Memory < m /\ Memory >= Spare
  BY <1>1, VgAssumption
<1>3. PICK a \in Nat : a = avail - Spare /\ a < m
  BY <1>2
<1>4. a % m = a
  BY <1>3, ModSmall
<1>5. free = avail - Spare
  BY <1>1, <1>3, <1>4
<1> QED BY ONLY <1>2, <1>5, used \in Nat, avail \in Nat, avail = Memory - used \/ avail = 0,
              avail >= Spare

(* The body of LoadSriovData() where it does not fail.                     *)
Loads(p, readable, others) ==
  LET used == MapThenSumSet(LAMBDA v : vf[v]["lmem"], DOMAIN vf) + others
      avail == IF readable /\ used < Memory THEN Memory - used ELSE 0
  IN /\ vg' = [vg EXCEPT ![p].pc = "check", ![p].free = (avail - Spare) % 2 ^ LmemBits]
     /\ vgWrapped' = (vgWrapped \/ avail < Spare)
     /\ vgOthers' = IF numvfs = 0 /\ avail >= Spare THEN others ELSE vgOthers

(* The free memory that a create reads is what no VF and nobody else has.  *)
LEMMA LoadKeeps == ASSUME VgInv, NEW p \in VgProcs, LoadSriovData(p) PROVE VgInv'
<1>1. UNCHANGED <<conf, numvfs, vf, vgOverlap, vgLost>> /\ vg[p].pc = "load"
  BY DEF LoadSriovData
<1>2. Busy(vg[p])
  BY <1>1 DEF Busy
<1>3. /\ vgLost \in Nat /\ numvfs \in 0 .. TotalVfs /\ vf \in VfTable
      /\ vg[p] \in VgProcess /\ vg[p].result = "none" /\ Starting(vg[p])
  BY <1>1, <1>2 DEF VgInv, VgTypes, Sound
<1>4. Quiet' => Quiet
  BY <1>1 DEF Quiet
<1>5. \/ VgReturn(p, "unknown") /\ UNCHANGED <<vgWrapped, vgOthers>>
      \/ \E readable \in BOOLEAN, others \in OthersUse : Loads(p, readable, others)
  BY Zenon DEF LoadSriovData, getFreeLmemSize, Loads
<1>6. /\ ~vgOverlap' => ~vgOverlap
      /\ conf' = conf /\ vgLost' \in Nat /\ vgLost' >= vgLost
      /\ numvfs' \in 0 .. TotalVfs /\ vf' \in VfTable /\ vf' = vf
  BY <1>1, <1>3
<1>7. CASE VgReturn(p, "unknown") /\ UNCHANGED <<vgWrapped, vgOthers>>
  <2>1. Quiet' => InFiles(numvfs, vf, vgWrapped, vgOthers)'
    BY <1>1, <1>4, <1>7, FilesSame
  <2> QED BY <1>1, <1>2, <1>6, <1>7, <2>1, ReturnKeeps
<1>8. ASSUME NEW readable \in BOOLEAN, NEW others \in OthersUse, Loads(p, readable, others)
      PROVE  VgInv'
  <2>1. PICK q \in VgProcess : q = vg[p]
    BY <1>3
  <2>2. PICK b \in VfTable : b = vf
    BY <1>3
  <2>3. PICK lmem \in Nat : lmem = MapThenSumSet(LAMBDA v : b[v]["lmem"], DOMAIN b) /\ lmem = Used(b)
    <3>1. TotalVfs \in 0 .. TotalVfs
      BY SomeVfs
    <3> QED BY <3>1, PartUsed
  <2>4. /\ Memory \in Nat /\ Spare \in Nat /\ others \in Nat /\ lmem + others \in Nat
    BY VgAssumption
  <2>5. PICK avail \in Nat : /\ avail = Memory - (lmem + others) \/ avail = 0
                             /\ avail = IF readable /\ lmem + others < Memory
                                        THEN Memory - (lmem + others) ELSE 0
    <3>1. CASE readable /\ lmem + others < Memory
      BY <2>4, <3>1
    <3>2. CASE ~(readable /\ lmem + others < Memory)
      BY <3>2
    <3> QED BY <3>1, <3>2
  <2>6. PICK free : free = (avail - Spare) % 2 ^ LmemBits
    OBVIOUS
  <2>7. free \in Int
    <3>1. PICK m \in Nat : m = 2 ^ LmemBits /\ m > 0
      BY VgAssumption
    <3>2. PICK a \in Int : a = avail - Spare
      BY <2>4
    <3>3. a % m \in Int
      BY <3>1
    <3> QED BY <2>6, <3>1, <3>2, <3>3
  <2>8. /\ vg' = [vg EXCEPT ![p].pc = "check", ![p].free = free]
        /\ vgWrapped' = (vgWrapped \/ avail < Spare)
        /\ vgOthers' = IF numvfs = 0 /\ avail >= Spare THEN others ELSE vgOthers
    <3>1. MapThenSumSet(LAMBDA v : vf[v]["lmem"], DOMAIN vf) = lmem
      BY <2>2, <2>3
    <3>2. avail = IF readable /\ MapThenSumSet(LAMBDA v : vf[v]["lmem"], DOMAIN vf) + others < Memory
                    THEN Memory - (MapThenSumSet(LAMBDA v : vf[v]["lmem"], DOMAIN vf) + others)
                    ELSE 0
      BY <2>5, <3>1, Zenon
    <3> QED BY <1>8, <2>6, <3>2, Zenon DEF Loads
  <2>9. PICK x : x = [q EXCEPT !.pc = "check", !.free = free]
    OBVIOUS
  <2>10. /\ x \in VgProcess /\ x.pc = "check" /\ x.free = free /\ x.result = q.result
         /\ x.req = q.req /\ x.at = q.at /\ x.file = q.file
    BY <2>7, <2>9 DEF VgProcess, VgPcs
  <2>11. vg' = [vg EXCEPT ![p] = x]
    BY <2>1, <2>8, <2>9
  <2>12. Sound(x)
    BY <1>3, <2>1, <2>10 DEF Sound, Starting
  <2>13. ASSUME ~vgWrapped' PROVE Known(free, numvfs, Used(b), vgOthers)'
    <3>5. ~(avail < Spare)
      BY <2>8, <2>13, Zenon
    <3>1. avail >= Spare
      BY <2>4, <3>5
    <3>2. free \in 0 .. Memory /\ (free > 0 => free + (lmem + others) + Spare = Memory)
      BY <2>4, <2>5, <2>6, <3>1, FreeMemory
    <3>3. numvfs' = 0 => vgOthers' = others
      BY <1>1, <2>8, <3>1
    <3>4. numvfs' = 0 /\ free > 0 => free + lmem + vgOthers' + Spare = Memory
      BY <2>3, <2>4, <2>7, <3>2, <3>3
    <3> QED BY <2>3, <3>2, <3>4 DEF Known
  <2>14. ASSUME Quiet' PROVE AtWork(x, numvfs, vf, vgWrapped, vgOthers)'
    <3>1. vf' = b
      BY <1>1, <2>2
    <3> QED BY <2>10, <2>13, <3>1 DEF AtWork, Known, Used
  <2>15. vgWrapped' \/ ~vgWrapped
    BY <2>8
  <2>16. numvfs > 0 => vgOthers' = vgOthers
    BY <1>3, <2>8
  <2>17. Quiet' => InFiles(numvfs, vf, vgWrapped, vgOthers)'
    BY <1>1, <1>4, <2>15, <2>16, FilesSame
  <2>18. vgWrapped' \in BOOLEAN /\ vgOthers' \in {0} \cup OthersUse
    <3>1. vgOthers \in {0} \cup OthersUse
      BY DEF VgInv, VgTypes
    <3> QED BY <2>8, <3>1, Zenon
  <2>19. vgLost' >= vgLost /\ Busy(vg[p]) /\ x.result = "none"
    BY <1>2, <1>3, <1>6, <2>1, <2>10
  <2> QED BY <1>1, <1>6, <2>10, <2>11, <2>12, <2>14, <2>17, <2>18, <2>19, OneActs
<1> QED BY <1>5, <1>7, <1>8

(* The facts that most steps begin with.                                   *)
LEMMA BusyStep ==
  ASSUME VgInv, NEW p \in VgProcs, vg[p].pc \notin {"off", "done"},
         UNCHANGED <<conf, vgOverlap>>, vgLost' = vgLost \/ vgLost' = vgLost + 1
  PROVE  /\ vg[p] \in VgProcess /\ vg[p].result = "none" /\ Busy(vg[p])
         /\ vgLost \in Nat /\ numvfs \in 0 .. TotalVfs /\ vf \in VfTable
         /\ ~vgOverlap' => ~vgOverlap
         /\ vgLost' \in Nat /\ vgLost' >= vgLost /\ conf' = conf
         /\ Quiet' => Quiet /\ vgLost' = vgLost
<1>1. vg[p] \in VgProcess /\ vg[p].result = "none" /\ Busy(vg[p])
  BY DEF VgInv, VgTypes, Sound, Busy
<1>2. vgLost \in Nat /\ numvfs \in 0 .. TotalVfs /\ vf \in VfTable
  BY DEF VgInv, VgTypes
<1> QED BY <1>1, <1>2 DEF Quiet

(* The memory asked for fits into what is free.                            *)
LEMMA RequestFits ==
  ASSUME NEW r \in VgRequests, r.n <= TotalVfs, NEW free \in Nat, free <= Memory,
         free >= (r.lmem * r.n) % 2 ^ LmemBits
  PROVE  r.n * r.lmem <= free
<1>1. PICK m \in Nat : m = 2 ^ LmemBits
  BY VgAssumption
<1>2. r.n \in Nat /\ r.lmem \in Nat
  BY VgAssumption
<1>3. PICK prod \in Nat : prod = r.lmem * r.n /\ prod = r.n * r.lmem
  BY <1>2
<1>4. prod < m \/ prod % m > Memory
  BY <1>1, <1>3, VgAssumption
<1>5. CASE prod < m
  BY <1>1, <1>3, <1>5, ModSmall
<1>6. CASE prod % m > Memory /\ ~(prod < m)
  <2>1. Memory \in Nat
    BY VgAssumption
  <2>2. PICK k : k = prod % m
    OBVIOUS
  <2>3. CASE m = 0
    BY <1>1, <2>3, VgAssumption
  <2>4. CASE m # 0
    <3>1. k \in Int
      BY <2>2, <2>4
    <3>2. k > Memory /\ free >= k
      BY <1>1, <1>3, <1>6, <2>2
    <3> QED BY <2>1, <3>1, <3>2
  <2> QED BY <2>3, <2>4
<1> QED BY <1>4, <1>5, <1>6

(* What is asked for is not nothing.                                       *)
LEMMA Product == ASSUME NEW i \in Nat \ {0}, NEW j \in Nat \ {0} PROVE i * j \in Nat \ {0}
  OBVIOUS

(* A create goes on only where what it asks for is free.                   *)
LEMMA CheckKeeps == ASSUME VgInv, NEW p \in VgProcs, CheckRequest(p) PROVE VgInv'
<1>1. UNCHANGED <<conf, numvfs, vf, vgOverlap, vgLost, vgWrapped, vgOthers>> /\ vg[p].pc = "check"
  BY DEF CheckRequest
<1>2. /\ vg[p] \in VgProcess /\ vg[p].result = "none" /\ Busy(vg[p])
      /\ vgLost \in Nat /\ numvfs \in 0 .. TotalVfs /\ vf \in VfTable
      /\ ~vgOverlap' => ~vgOverlap
      /\ vgLost' \in Nat /\ vgLost' >= vgLost /\ conf' = conf
      /\ Quiet' => Quiet /\ vgLost' = vgLost
  BY <1>1, BusyStep
<1>3. vgWrapped' \/ ~vgWrapped
  BY <1>1
<1>4. Quiet' => InFiles(numvfs, vf, vgWrapped, vgOthers)'
  BY <1>1, <1>2, <1>3, FilesSame
<1>5. numvfs' \in 0 .. TotalVfs /\ vf' \in VfTable /\ vf' = vf
  BY <1>1, <1>2
<1>6. CASE VgReturn(p, "unknown")
  BY <1>1, <1>2, <1>4, <1>5, <1>6, ReturnKeeps
<1>7. PICK q \in VgProcess : q = vg[p]
  BY <1>2
<1>8. ASSUME NEW comb, comb = CombineAttrConfig(VfSections(q.req.n), q.req.n),
             numvfs = 0, q.req.n <= TotalVfs, comb["lmem"] > 0,
             q.free >= (q.req.lmem * q.req.n) % 2 ^ LmemBits,
             vg' = [vg EXCEPT ![p].pc = "pf", ![p].vfs = q.req.n,
                              ![p].attrs = [comb EXCEPT !["lmem"] = q.req.lmem]]
      PROVE  VgInv'
  <2>1. PICK x : x = [q EXCEPT !.pc = "pf", !.vfs = q.req.n,
                               !.attrs = [comb EXCEPT !["lmem"] = q.req.lmem]]
    OBVIOUS
  <2>2. vg' = [vg EXCEPT ![p] = x]
    BY <1>7, <1>8, <2>1
  <2>3. PICK b \in VfTable : b = vf
    BY <1>2
  <2>4. conf \in ConfFiles /\ Starting(q) /\ numvfs = 0
    BY <1>1, <1>7, <1>8 DEF VgInv, VgTypes, Sound
  <2>5. PICK r \in VgRequests : r = q.req /\ r.op = "create" /\ r.n > 0 /\ r.lmem > 0
    BY <2>4 DEF Starting
  <2>6. r.n \in Nat /\ r.lmem \in Nat /\ r.n \in 1 .. TotalVfs /\ TotalVfs \in Nat
    <3>1. r.n \in Nat /\ r.lmem \in Nat /\ TotalVfs \in Nat
      BY VgAssumption
    <3> QED BY <1>8, <2>5, <3>1
  <2>7. comb \in Attrs /\ DoorbellsShared(comb, r.n)
    BY <1>8, <2>4, <2>5, <2>6, AttrsCombined
  <2>8. PICK a : a = [comb EXCEPT !["lmem"] = r.lmem]
    OBVIOUS
  <2>9. a \in Attrs /\ a["lmem"] = r.lmem /\ a["doorbells"] = comb["doorbells"]
    BY <2>6, <2>7, <2>8, FileNames DEF Attrs
  <2>10. DoorbellsShared(a, r.n)
    BY <2>7, <2>9 DEF DoorbellsShared
  <2>11. /\ x \in VgProcess /\ x.pc = "pf" /\ x.vfs = r.n /\ x.attrs = a
         /\ x.req = r /\ x.at = 1 /\ x.file = 1 /\ x.result = "none"
    <3>1. x = [q EXCEPT !.pc = "pf", !.vfs = r.n, !.attrs = a]
      BY <2>1, <2>5, <2>8
    <3>2. q.at = 1 /\ q.file = 1 /\ q.result = "none" /\ q.req = r
      BY <1>2, <1>7, <2>4, <2>5 DEF Starting
    <3>3. "pf" \in VgPcs /\ r.n \in 0 .. TotalVfs
      BY <2>6 DEF VgPcs
    <3>4. x \in VgProcess /\ x.pc = "pf" /\ x.vfs = r.n /\ x.attrs = a
      BY <2>9, <3>1, <3>3 DEF VgProcess
    <3>5. x.at = q.at /\ x.file = q.file /\ x.result = q.result /\ x.req = q.req
      BY <3>1 DEF VgProcess
    <3> QED BY <3>2, <3>4, <3>5
  <2>12. Sound(x)
    BY <2>11 DEF Sound
  <2>13. ASSUME Quiet' PROVE AtWork(x, numvfs, vf, vgWrapped, vgOthers)'
    <3>1. /\ Used(vf') = Used(b) /\ numvfs' = 0
          /\ (vgWrapped' <=> vgWrapped) /\ vgOthers' = vgOthers
      BY <1>1, <1>8, <2>3
    <3>2. DoorbellsShared(x.attrs, x.vfs)'
      BY <1>2, <2>10, <2>11, SharedSame
    <3>3. InLoop(x)
      BY <2>6, <2>11 DEF InLoop
    <3>4. Written(x, vf)'
      <4>1. \A v \in 1 .. TotalVfs : ~(v < x.at)
        BY <2>6, <2>11
      <4>2. \A i \in 1 .. 6 : ~(i < x.file)
        BY <2>11
      <4> QED BY <4>1, <4>2 DEF Written
    <3>5. ~vgWrapped' => Used(vf') + Left(x) * x.attrs["lmem"] + vgOthers' <= Memory - Spare
      <4> SUFFICES ASSUME ~vgWrapped'
                   PROVE  Used(vf') + Left(x) * x.attrs["lmem"] + vgOthers' <= Memory - Spare
        OBVIOUS
      <4>1. AtWork(q, numvfs, vf, vgWrapped, vgOthers)
        BY <1>2, <1>7, <2>13 DEF VgInv
      <4>2. PICK used \in Nat : used = Used(b)
        <5>1. TotalVfs \in 0 .. TotalVfs
          BY SomeVfs
        <5> QED BY <5>1, PartUsed
      <4>3. PICK o \in Nat : o = vgOthers
        BY VgAssumption DEF VgInv, VgTypes
      <4>4. q.free \in 0 .. Memory /\ (q.free > 0 => q.free + used + o + Spare = Memory)
        BY <1>1, <1>7, <1>8, <2>3, <3>1, <4>1, <4>2, <4>3 DEF AtWork, Known
      <4>5. Memory \in Nat /\ Spare \in Nat
        BY VgAssumption
      <4>6. q.free \in Nat /\ q.free <= Memory
        BY <4>4, <4>5
      <4>7. r.n * r.lmem <= q.free
        BY <1>8, <2>5, <2>6, <4>6, RequestFits
      <4>8. Left(x) = r.n /\ x.attrs["lmem"] = r.lmem
        BY <2>6, <2>9, <2>11 DEF Left
      <4>9. PICK prod \in Nat : prod = r.n * r.lmem /\ prod > 0
        <5>1. PICK i, j \in Nat : i = r.n /\ j = r.lmem /\ i > 0 /\ j > 0
          BY <2>5, <2>6
        <5>2. i * j \in Nat /\ i * j > 0
          BY <5>1, Product, i \in Nat \ {0}, j \in Nat \ {0}
        <5> QED BY <5>1, <5>2
      <4>10. PICK free \in Nat : free = q.free
        BY <4>6
      <4>11. used + prod + o <= Memory - Spare
        BY ONLY <4>4, <4>5, <4>7, <4>9, <4>10, used \in Nat, prod \in Nat, o \in Nat, free \in Nat
      <4> QED BY <3>1, <4>2, <4>3, <4>8, <4>9, <4>11
    <3>6. Creating(x, numvfs, vf, vgWrapped, vgOthers)'
      BY <2>6, <2>9, <2>11, <2>5, <3>1, <3>2, <3>3, <3>4, <3>5
         DEF Creating, InLoop, Written, Left, Used
    <3> QED BY <2>11, <3>6 DEF AtWork
  <2>14. vgLost' >= vgLost /\ Busy(vg[p])
    BY <1>2
  <2> QED BY <1>1, <1>2, <1>4, <1>5, <2>2, <2>11, <2>12, <2>13, <2>14, OneActs
<1>9. \/ VgReturn(p, "unknown")
      \/ LET comb == CombineAttrConfig(VfSections(q.req.n), q.req.n)
         IN /\ numvfs = 0 /\ q.req.n <= TotalVfs /\ comb["lmem"] > 0
            /\ q.free >= (q.req.lmem * q.req.n) % 2 ^ LmemBits
            /\ vg' = [vg EXCEPT ![p].pc = "pf", ![p].vfs = q.req.n,
                                ![p].attrs = [comb EXCEPT !["lmem"] = q.req.lmem]]
  BY <1>7, Zenon DEF CheckRequest
<1> QED BY <1>6, <1>8, <1>9, Zenon

(* The PF's own parameters are none of the VFs'.                           *)
LEMMA PfKeeps == ASSUME VgInv, NEW p \in VgProcs, WritePfSchedParams(p) PROVE VgInv'
<1>1. UNCHANGED <<conf, numvfs, vf, vgOverlap, vgLost, vgWrapped, vgOthers>> /\ vg[p].pc = "pf"
  BY DEF WritePfSchedParams
<1>2. /\ vg[p] \in VgProcess /\ vg[p].result = "none" /\ Busy(vg[p])
      /\ vgLost \in Nat /\ numvfs \in 0 .. TotalVfs /\ vf \in VfTable
      /\ ~vgOverlap' => ~vgOverlap
      /\ vgLost' \in Nat /\ vgLost' >= vgLost /\ conf' = conf
      /\ Quiet' => Quiet /\ vgLost' = vgLost
  BY <1>1, BusyStep
<1>3. vgWrapped' \/ ~vgWrapped
  BY <1>1
<1>4. Quiet' => InFiles(numvfs, vf, vgWrapped, vgOthers)'
  BY <1>1, <1>2, <1>3, FilesSame
<1>5. numvfs' \in 0 .. TotalVfs /\ vf' \in VfTable /\ vf' = vf
  BY <1>1, <1>2
<1>6. CASE VgReturn(p, "unknown")
  BY <1>1, <1>2, <1>4, <1>5, <1>6, ReturnKeeps
<1>7. CASE vg' = [vg EXCEPT ![p].pc = "vf"]
  <2>1. PICK q \in VgProcess : q = vg[p]
    BY <1>2
  <2>2. PICK x : x = [q EXCEPT !.pc = "vf"]
    OBVIOUS
  <2>3. /\ x \in VgProcess /\ x.pc = "vf" /\ x.result = "none" /\ x.at = q.at
        /\ x.file = q.file /\ x.attrs = q.attrs /\ x.vfs = q.vfs /\ x.req = q.req
    BY <1>2, <2>1, <2>2 DEF VgProcess, VgPcs
  <2>4. vg' = [vg EXCEPT ![p] = x]
    BY <1>7, <2>1, <2>2
  <2>5. Sound(x)
    BY <2>3 DEF Sound
  <2>6. ASSUME Quiet' PROVE AtWork(x, numvfs, vf, vgWrapped, vgOthers)'
    <3>1. Creating(q, numvfs, vf, vgWrapped, vgOthers)
      BY <1>1, <1>2, <2>1, <2>6 DEF VgInv, AtWork
    <3>2. DoorbellsShared(x.attrs, x.vfs)'
      BY <1>2, <2>3, <3>1, SharedSame DEF Creating
    <3>3. x.req.op = "create" /\ InLoop(x)
      BY <2>3, <3>1 DEF Creating, InLoop
    <3>4. Creating(x, numvfs, vf, vgWrapped, vgOthers)'
      BY <1>1, <2>3, <3>1, <3>2, <3>3 DEF Creating, Written, InLoop, Left, Used
    <3> QED BY <2>3, <3>3, <3>4 DEF AtWork
  <2>7. vgLost' >= vgLost /\ Busy(vg[p])
    BY <1>2
  <2> QED BY <1>1, <1>2, <1>4, <1>5, <2>3, <2>4, <2>5, <2>6, <2>7, OneActs
<1> QED BY <1>6, <1>7 DEF WritePfSchedParams

(* A remove reads how many VFs there are ...                               *)
LEMMA RemoveReadKeeps == ASSUME VgInv, NEW p \in VgProcs, RemoveRead(p) PROVE VgInv'
<1>1. UNCHANGED <<conf, numvfs, vf, vgOverlap, vgLost, vgWrapped, vgOthers>> /\ vg[p].pc = "removeRead"
  BY DEF RemoveRead
<1>2. /\ vg[p] \in VgProcess /\ vg[p].result = "none" /\ Busy(vg[p])
      /\ vgLost \in Nat /\ numvfs \in 0 .. TotalVfs /\ vf \in VfTable
      /\ ~vgOverlap' => ~vgOverlap
      /\ vgLost' \in Nat /\ vgLost' >= vgLost /\ conf' = conf
      /\ Quiet' => Quiet /\ vgLost' = vgLost
  BY <1>1, BusyStep
<1>3. vgWrapped' \/ ~vgWrapped
  BY <1>1
<1>4. Quiet' => InFiles(numvfs, vf, vgWrapped, vgOthers)'
  BY <1>1, <1>2, <1>3, FilesSame
<1>5. numvfs' \in 0 .. TotalVfs /\ vf' \in VfTable /\ vf' = vf
  BY <1>1, <1>2
<1>6. CASE VgReturn(p, "unknown")
  BY <1>1, <1>2, <1>4, <1>5, <1>6, ReturnKeeps
<1>7. CASE vg' = [vg EXCEPT ![p].pc = "removeDisable", ![p].vfs = numvfs]
  <2>1. PICK q \in VgProcess : q = vg[p]
    BY <1>2
  <2>2. PICK nv \in 0 .. TotalVfs : nv = numvfs
    BY <1>2
  <2>3. PICK x : x = [q EXCEPT !.pc = "removeDisable", !.vfs = nv]
    OBVIOUS
  <2>4. /\ x \in VgProcess /\ x.pc = "removeDisable" /\ x.result = "none" /\ x.at = q.at
        /\ x.file = q.file /\ x.attrs = q.attrs /\ x.vfs = nv /\ x.req = q.req
        /\ x.was = q.was /\ x.skipped = q.skipped
    BY <1>2, <2>1, <2>3 DEF VgProcess, VgPcs
  <2>5. vg' = [vg EXCEPT ![p] = x]
    BY <1>7, <2>1, <2>2, <2>3
  <2>6. Sound(x)
    BY <2>4 DEF Sound
  <2>7. ASSUME Quiet' PROVE AtWork(x, numvfs, vf, vgWrapped, vgOthers)'
    <3>1. Removing(q, numvfs, vf) /\ q.pc = "removeRead"
      BY <1>1, <1>2, <2>1, <2>7 DEF VgInv, AtWork
    <3>2. x.at = 1 /\ x.file = 1 /\ x.attrs = ZeroAttr /\ x.req.op = "remove" /\ q.was = numvfs
      BY <2>4, <3>1 DEF Removing
    <3>3. InLoop(x)
      BY <2>4, <3>2 DEF InLoop, VgProcess
    <3>4. Written(x, vf)'
      BY <3>2 DEF Written
    <3>5. Removing(x, numvfs, vf)'
      BY <1>1, <2>2, <2>4, <3>2, <3>3, <3>4 DEF Removing, InLoop
    <3> QED BY <2>4, <3>5 DEF AtWork
  <2>8. vgLost' >= vgLost /\ Busy(vg[p])
    BY <1>2
  <2> QED BY <1>1, <1>2, <1>4, <1>5, <2>4, <2>5, <2>6, <2>7, <2>8, OneActs
<1> QED BY <1>6, <1>7 DEF RemoveRead

(* ... and disables them, before it gives their quotas back.               *)
LEMMA RemoveDisableKeeps == ASSUME VgInv, NEW p \in VgProcs, RemoveDisable(p) PROVE VgInv'
<1>1. /\ UNCHANGED <<conf, vf, vgOverlap, vgWrapped, vgOthers>> /\ vg[p].pc = "removeDisable"
      /\ vgLost' = vgLost \/ vgLost' = vgLost + 1
      /\ numvfs' = numvfs \/ numvfs' = 0
  BY DEF RemoveDisable, VgRefuse
<1>2. /\ vg[p] \in VgProcess /\ vg[p].result = "none" /\ Busy(vg[p])
      /\ vgLost \in Nat /\ numvfs \in 0 .. TotalVfs /\ vf \in VfTable
      /\ ~vgOverlap' => ~vgOverlap
      /\ vgLost' \in Nat /\ vgLost' >= vgLost /\ conf' = conf
      /\ Quiet' => Quiet /\ vgLost' = vgLost
  BY <1>1, BusyStep
<1>3. numvfs' \in 0 .. TotalVfs /\ vf' \in VfTable /\ vf' = vf
  BY <1>1, <1>2, SomeVfs
<1>4. Quiet' => InFiles(numvfs, vf, vgWrapped, vgOthers)'
  <2>1. CASE numvfs' = numvfs
    BY <1>1, <1>2, <2>1, FilesSame
  <2>2. CASE numvfs' = 0
    <3>1. Quiet => InFiles(numvfs, vf, vgWrapped, vgOthers)
      BY DEF VgInv
    <3> QED BY <1>1, <1>2, <2>2, <3>1 DEF InFiles, Used
  <2> QED BY <1>1, <2>1, <2>2
<1>5. CASE VgReturn(p, "unknown")
  BY <1>1, <1>2, <1>3, <1>4, <1>5, ReturnKeeps
<1>6. CASE /\ vg' = [vg EXCEPT ![p].pc = "vf"]
           /\ numvfs' = 0 \/ vgLost' # vgLost
  <2>1. PICK q \in VgProcess : q = vg[p]
    BY <1>2
  <2>2. PICK x : x = [q EXCEPT !.pc = "vf"]
    OBVIOUS
  <2>4. /\ x \in VgProcess /\ x.pc = "vf" /\ x.result = "none" /\ x.at = q.at
        /\ x.file = q.file /\ x.attrs = q.attrs /\ x.vfs = q.vfs /\ x.req = q.req
        /\ x.was = q.was /\ x.skipped = q.skipped
    BY <1>2, <2>1, <2>2 DEF VgProcess, VgPcs
  <2>5. vg' = [vg EXCEPT ![p] = x]
    BY <1>6, <2>1, <2>2
  <2>6. Sound(x)
    BY <2>4 DEF Sound
  <2>7. ASSUME Quiet' PROVE AtWork(x, numvfs, vf, vgWrapped, vgOthers)'
    <3>1. Removing(q, numvfs, vf) /\ q.pc = "removeDisable" /\ numvfs' = 0
      BY <1>1, <1>2, <1>6, <2>1, <2>7 DEF VgInv, AtWork
    <3>2. InLoop(x) /\ x.req.op = "remove"
      BY <2>4, <3>1 DEF InLoop, Removing
    <3>3. Removing(x, numvfs, vf)'
      BY <1>1, <2>4, <3>1, <3>2 DEF Removing, InLoop, Written
    <3> QED BY <2>4, <3>2, <3>3 DEF AtWork
  <2>8. vgLost' >= vgLost /\ Busy(vg[p])
    BY <1>2
  <2> QED BY <1>1, <1>2, <1>3, <1>4, <2>4, <2>5, <2>6, <2>7, <2>8, OneActs
<1>7. VgRefuse => vgLost' # vgLost
  BY <1>2 DEF VgRefuse
<1> QED BY <1>5, <1>6, <1>7 DEF RemoveDisable

(* A remove is over.                                                       *)
LEMMA RemoveReturnsKeeps == ASSUME VgInv, NEW p \in VgProcs, RemoveReturns(p) PROVE VgInv'
<1>1. /\ UNCHANGED <<conf, numvfs, vf, vgOverlap, vgLost, vgWrapped, vgOthers>> /\ vg[p].pc = "vf"
      /\ VgReturn(p, "ok")
  BY DEF RemoveReturns
<1>2. /\ vg[p] \in VgProcess /\ vg[p].result = "none" /\ Busy(vg[p])
      /\ vgLost \in Nat /\ numvfs \in 0 .. TotalVfs /\ vf \in VfTable
      /\ ~vgOverlap' => ~vgOverlap
      /\ vgLost' \in Nat /\ vgLost' >= vgLost /\ conf' = conf
      /\ Quiet' => Quiet /\ vgLost' = vgLost
  BY <1>1, BusyStep
<1>3. Quiet' => InFiles(numvfs, vf, vgWrapped, vgOthers)'
  BY <1>1, <1>2, FilesSame
<1>4. numvfs' \in 0 .. TotalVfs /\ vf' = vf
  BY <1>1, <1>2
<1> QED BY <1>1, <1>2, <1>3, <1>4, ReturnKeeps

(* The VFs are enabled when all of them are written.                       *)
LEMMA EnableKeeps == ASSUME VgInv, NEW p \in VgProcs, EnableVfs(p) PROVE VgInv'
<1>1. /\ UNCHANGED <<conf, vf, vgOverlap, vgWrapped, vgOthers>> /\ vg[p].pc = "vf"
      /\ vg[p].req.op = "create" /\ vg[p].at > vg[p].vfs
      /\ vgLost' = vgLost \/ vgLost' = vgLost + 1
      /\ numvfs' = numvfs \/ (numvfs = 0 /\ numvfs' = vg[p].vfs)
      /\ VgReturn(p, "ok") \/ VgReturn(p, "unknown")
  BY DEF EnableVfs, VgRefuse
<1>2. /\ vg[p] \in VgProcess /\ vg[p].result = "none" /\ Busy(vg[p])
      /\ vgLost \in Nat /\ numvfs \in 0 .. TotalVfs /\ vf \in VfTable
      /\ ~vgOverlap' => ~vgOverlap
      /\ vgLost' \in Nat /\ vgLost' >= vgLost /\ conf' = conf
      /\ Quiet' => Quiet /\ vgLost' = vgLost
  BY <1>1, BusyStep
<1>3. PICK q \in VgProcess : q = vg[p]
  BY <1>2
<1>4. numvfs' \in 0 .. TotalVfs /\ vf' = vf
  BY <1>1, <1>2, <1>3 DEF VgProcess
<1>5. Quiet' => InFiles(numvfs, vf, vgWrapped, vgOthers)'
  <2>1. CASE numvfs' = numvfs
    BY <1>1, <1>2, <2>1, FilesSame
  <2>2. ASSUME Quiet', numvfs' = q.vfs PROVE InFiles(numvfs, vf, vgWrapped, vgOthers)'
    <3>1. AtWork(q, numvfs, vf, vgWrapped, vgOthers) /\ InFiles(numvfs, vf, vgWrapped, vgOthers)
      BY <1>2, <1>3, <2>2 DEF VgInv
    <3>2. Creating(q, numvfs, vf, vgWrapped, vgOthers)
      BY <1>1, <1>3, <3>1 DEF AtWork
    <3>3. PICK b \in VfTable : b = vf
      BY <1>2
    <3>4. /\ q.vfs \in 1 .. TotalVfs /\ q.at = q.vfs + 1 /\ TotalVfs \in Nat
          /\ q.attrs["lmem"] > 0 /\ DoorbellsShared(q.attrs, q.vfs)
      <4>1. q.vfs \in 0 .. TotalVfs /\ TotalVfs \in Nat /\ q.vfs > 0 /\ q.at \in 1 .. q.vfs + 1
            /\ q.at > q.vfs
        BY <1>1, <1>3, <3>2, SomeVfs DEF VgProcess, Creating, InLoop
      <4>2. q.vfs \in 1 .. TotalVfs /\ q.at = q.vfs + 1
        BY <4>1
      <4> QED BY <3>2, <4>1, <4>2 DEF Creating
    <3>5. \A v \in 1 .. TotalVfs : v < q.at => b[v] = q.attrs
      BY <3>2, <3>3 DEF Creating, Written
    <3>6. b[1] = q.attrs /\ \A v \in 1 .. q.vfs : b[v] = q.attrs
      <4>1. 1 \in 1 .. TotalVfs /\ 1 < q.at
        BY <3>4
      <4>2. \A v \in 1 .. q.vfs : v \in 1 .. TotalVfs /\ v < q.at
        BY <3>4
      <4> QED BY <3>5, <4>1, <4>2
    <3>7. vf' = b /\ numvfs' = q.vfs /\ (vgWrapped' <=> vgWrapped) /\ vgOthers' = vgOthers
      BY <1>1, <2>2, <3>3
    <3>8. DoorbellsShared(q.attrs, q.vfs)'
      BY <1>2, <3>4, SharedSame
    <3>9. ~vgWrapped => Used(b) + vgOthers <= Memory - Spare
      <4>1. ~vgWrapped => Used(b) + Left(q) * q.attrs["lmem"] + vgOthers <= Memory - Spare
        BY <3>2, <3>3 DEF Creating
      <4>2. q.file = 1
        BY <3>2, <3>4 DEF Creating, InLoop
      <4>3. Left(q) = 0
        BY <3>4, <4>2 DEF Left
      <4>4. PICK l \in Nat : l = q.attrs["lmem"]
        BY FileNames DEF VgProcess, Attrs
      <4>5. Left(q) * q.attrs["lmem"] = 0
        BY <4>3, <4>4
      <4>6. PICK used \in Nat : used = Used(b)
        <5>1. TotalVfs \in 0 .. TotalVfs
          BY SomeVfs
        <5> QED BY <5>1, PartUsed
      <4> QED BY <4>1, <4>5, <4>6
    <3>10. DoorbellsShared(vf[1], numvfs)'
      BY <3>6, <3>7, <3>8 DEF DoorbellsShared, SectionsFor, LoneDefault
    <3> QED BY <3>4, <3>6, <3>7, <3>9, <3>10 DEF InFiles, Used
  <2> QED BY <1>1, <1>3, <2>1, <2>2
<1> QED BY <1>1, <1>2, <1>4, <1>5, ReturnKeeps

(* Where a process is in the loop is all that its next step changes.       *)
SameBut(x, q) ==
  /\ x.pc = q.pc /\ x.req = q.req /\ x.free = q.free /\ x.vfs = q.vfs
  /\ x.attrs = q.attrs /\ x.result = q.result /\ x.was = q.was

(* The loop goes on with the next VF ...                                   *)
LEMMA NextVfIs ==
  ASSUME NEW q \in VgProcess
  PROVE  /\ NextVf(q) \in VgProcess /\ SameBut(NextVf(q), q)
         /\ NextVf(q).skipped = q.skipped
         /\ NextVf(q).at = q.at + 1 /\ NextVf(q).file = 1
<1>1. q.at + 1 \in Nat \ {0} /\ 1 \in 1 .. 6
  BY DEF VgProcess
<1>2. NextVf(q) = [q EXCEPT !.at = q.at + 1, !.file = 1]
  BY DEF NextVf
<1> QED BY <1>1, <1>2 DEF VgProcess, SameBut

(* ... or with the next file of this one.                                  *)
LEMMA NextFileIs ==
  ASSUME NEW q \in VgProcess
  PROVE  /\ NextFile(q) \in VgProcess /\ SameBut(NextFile(q), q)
         /\ NextFile(q).skipped = q.skipped
         /\ q.file = 6 => NextFile(q).at = q.at + 1 /\ NextFile(q).file = 1
         /\ q.file # 6 => NextFile(q).at = q.at /\ NextFile(q).file = q.file + 1
<1>1. Len(VfFiles) = 6
  BY FileNames
<1>2. CASE q.file = 6
  BY <1>1, <1>2, NextVfIs DEF NextFile
<1>3. CASE q.file # 6
  <2>1. NextFile(q) = [q EXCEPT !.file = q.file + 1]
    BY <1>1, <1>3 DEF NextFile
  <2>2. q.file \in 1 .. 6 /\ q.file + 1 \in 1 .. 6
    BY <1>3 DEF VgProcess
  <2> QED BY <1>3, <2>1, <2>2 DEF VgProcess, SameBut
<1> QED BY <1>2, <1>3

(* One file more is written.                                               *)
LEMMA WriteOne ==
  ASSUME NEW q \in VgProcess, NEW b \in VfTable, q.at \in 1 .. TotalVfs, Written(q, b),
         NEW c, c = [b EXCEPT ![q.at][VfFiles[q.file]] = q.attrs[VfFiles[q.file]]]
  PROVE  Written(NextFile(q), c)
<1> DEFINE f == VfFiles[q.file]
           x == q.attrs[f]
           v == q.at
           n == NextFile(q)
<1>1. f \in VfFile /\ x \in Nat /\ q.file \in 1 .. 6 /\ v \in 1 .. TotalVfs /\ TotalVfs \in Nat
  BY FileNames, SomeVfs DEF VgProcess, Attrs
<1>2. FileSet(c, b, v, f, x)
  BY DEF FileSet
<1> HIDE DEF f, x, v
<1>3. /\ c \in VfTable /\ c[v][f] = x
      /\ \A w \in 1 .. TotalVfs : w # v => c[w] = b[w]
      /\ \A e \in VfFile : e # f => c[v][e] = b[v][e]
  BY ONLY <1>1, <1>2, FileWritten, b \in VfTable
<1>4. \A i \in 1 .. 6 : i < q.file => c[v][VfFiles[i]] = q.attrs[VfFiles[i]]
  <2> SUFFICES ASSUME NEW i \in 1 .. 6, i < q.file PROVE c[v][VfFiles[i]] = q.attrs[VfFiles[i]]
    OBVIOUS
  <2>1. VfFiles[i] \in VfFile /\ b[v][VfFiles[i]] = q.attrs[VfFiles[i]]
    BY FileNames DEF Written, v
  <2> QED BY <1>3, <2>1 DEF x
<1>5. \A i \in 1 .. 6 : i < q.file + 1 => c[v][VfFiles[i]] = q.attrs[VfFiles[i]]
  <2> SUFFICES ASSUME NEW i \in 1 .. 6, i < q.file + 1 PROVE c[v][VfFiles[i]] = q.attrs[VfFiles[i]]
    OBVIOUS
  <2>1. i < q.file \/ i = q.file
    BY <1>1
  <2> QED BY <1>3, <1>4, <2>1 DEF f, x
<1>6. \A w \in 1 .. TotalVfs : w < v => c[w] = q.attrs
  BY <1>1, <1>3 DEF Written, v
<1>7. n.attrs = q.attrs
  BY NextFileIs DEF SameBut
<1>8. CASE q.file = 6
  <2>1. n.at = v + 1 /\ n.file = 1
    BY <1>8, NextFileIs DEF v
  <2>2. \A e \in VfFile : c[v][e] = q.attrs[e]
    BY <1>5, <1>8, FileNames
  <2>3. c[v] \in Attrs /\ q.attrs \in Attrs
    BY <1>1, <1>3 DEF VfTable, VgProcess
  <2>4. c[v] = q.attrs
    BY <2>2, <2>3 DEF Attrs
  <2>5. \A w \in 1 .. TotalVfs : w < v + 1 => c[w] = q.attrs
    <3>1. \A w \in 1 .. TotalVfs : w < v + 1 => w < v \/ w = v
      BY <1>1
    <3> QED BY <1>6, <2>4, <3>1
  <2> HIDE DEF n
  <2>6. \A i \in 1 .. 6 : ~(i < n.file)
    BY <2>1
  <2>7. \A w \in 1 .. TotalVfs : w < n.at => c[w] = n.attrs
    BY <1>7, <2>1, <2>5
  <2>8. Written(n, c)
    BY <2>6, <2>7 DEF Written
  <2> QED BY <2>8 DEF n
<1>9. CASE q.file # 6
  <2>1. n.at = v /\ n.file = q.file + 1
    BY <1>9, NextFileIs DEF v
  <2> HIDE DEF n
  <2>2. Written(n, c)
    BY <1>5, <1>6, <1>7, <2>1 DEF Written
  <2> QED BY <2>2 DEF n
<1> QED BY <1>8, <1>9

(* One VF less to give memory to.                                          *)
LEMMA OneLess ==
  ASSUME NEW l \in Nat, NEW r \in Nat
  PROVE  (r + 1) * l = r * l + l /\ r * l \in Nat
  OBVIOUS

(* The loop after one file, and the memory still to be given away.         *)
LEMMA LoopGoesOn ==
  ASSUME NEW q \in VgProcess, q.pc = "vf", q.at <= q.vfs, InLoop(q)
  PROVE  /\ InLoop(NextFile(q)) /\ Left(NextFile(q)) \in Nat /\ Left(q) \in Nat
         /\ Left(q) = Left(NextFile(q)) + (IF q.file = 3 THEN 1 ELSE 0)
         /\ q.at \in 1 .. TotalVfs
<1>1. q.vfs \in 0 .. TotalVfs /\ TotalVfs \in Nat /\ q.file \in 1 .. 6 /\ q.at \in Nat
  BY SomeVfs DEF VgProcess
<1>2. q.at \in 1 .. q.vfs /\ q.at \in 1 .. TotalVfs
  BY <1>1 DEF InLoop
<1>3. PICK n \in VgProcess : n = NextFile(q)
  BY NextFileIs
<1>4. n.vfs = q.vfs /\ n.pc = "vf"
  BY <1>3, NextFileIs DEF SameBut
<1>5. CASE q.file = 6
  <2>1. n.at = q.at + 1 /\ n.file = 1
    BY <1>3, <1>5, NextFileIs
  <2> QED BY <1>1, <1>2, <1>3, <1>4, <1>5, <2>1 DEF InLoop, Left
<1>6. CASE q.file # 6
  <2>1. n.at = q.at /\ n.file = q.file + 1
    BY <1>3, <1>6, NextFileIs
  <2> QED BY <1>1, <1>2, <1>3, <1>4, <1>6, <2>1 DEF InLoop, Left
<1> QED BY <1>5, <1>6

(* A write that the kernel takes, by a process that works alone.           *)
LEMMA WriteGivesAway ==
  ASSUME NEW q \in VgProcess, q.pc = "vf", q.at <= q.vfs, NEW b \in VfTable, NEW c,
         FileSet(c, b, q.at, VfFiles[q.file], q.attrs[VfFiles[q.file]]),
         NEW blind, NEW o \in Nat, Creating(q, 0, b, blind, o)
  PROVE  ~blind => Used(c) + Left(NextFile(q)) * q.attrs["lmem"] + o <= Memory - Spare
<1>1. /\ InLoop(NextFile(q)) /\ Left(NextFile(q)) \in Nat /\ Left(q) \in Nat
      /\ Left(q) = Left(NextFile(q)) + (IF q.file = 3 THEN 1 ELSE 0)
      /\ q.at \in 1 .. TotalVfs
  BY LoopGoesOn DEF Creating
<1>2. /\ VfFiles[q.file] \in VfFile /\ q.attrs[VfFiles[q.file]] \in Nat /\ q.attrs["lmem"] \in Nat
      /\ (VfFiles[q.file] = "lmem" <=> q.file = 3)
  BY FileNames DEF VgProcess, Attrs
<1>3. PICK l \in Nat : l = q.attrs["lmem"]
  BY <1>2
<1>4. PICK r \in Nat : r = Left(NextFile(q))
  BY <1>1
<1>5. Used(b) \in Nat /\ Used(c) \in Nat /\ Used(c) <= Used(b) + (IF q.file = 3 THEN l ELSE 0)
  <2>1. PICK f \in VfFile : f = VfFiles[q.file]
    BY <1>2
  <2>2. PICK x \in Nat : x = q.attrs[f]
    BY <1>2, <2>1
  <2>3. PICK v \in 1 .. TotalVfs : v = q.at
    BY <1>1
  <2>4. FileSet(c, b, v, f, x)
    BY <2>1, <2>2, <2>3
  <2>5. Used(b) \in Nat /\ Used(c) \in Nat /\ Used(c) <= Used(b) + (IF f = "lmem" THEN x ELSE 0)
    BY ONLY <2>4, FileWritten, b \in VfTable, v \in 1 .. TotalVfs, f \in VfFile, x \in Nat
  <2>6. f = "lmem" => x = l
    BY <1>3, <2>2
  <2> QED BY <1>2, <2>1, <2>5, <2>6
<1>6. ~blind => Used(b) + Left(q) * l + o <= Memory - Spare
  BY <1>3 DEF Creating
<1>7. Memory \in Nat /\ Spare \in Nat
  BY VgAssumption
<1>8. (r + 1) * l = r * l + l /\ r * l \in Nat
  BY OneLess
<1>9. PICK prod \in Nat : prod = r * l
  BY <1>8
<1>10. Left(q) * l = (IF q.file = 3 THEN prod + l ELSE prod)
  BY <1>1, <1>4, <1>8, <1>9
<1>11. PICK ub, uc : ub = Used(b) /\ uc = Used(c)
  OBVIOUS
<1>12. ~blind => ub + (IF q.file = 3 THEN prod + l ELSE prod) + o <= Memory - Spare
  BY <1>6, <1>10, <1>11
<1>13. ub \in Nat /\ uc \in Nat /\ uc <= ub + (IF q.file = 3 THEN l ELSE 0)
  BY <1>5, <1>11
<1>14. ~blind => uc + prod + o <= Memory - Spare
  BY ONLY <1>7, <1>12, <1>13, prod \in Nat, l \in Nat, o \in Nat
<1> QED BY <1>3, <1>4, <1>9, <1>11, <1>14

(* The files still hold numbers.                                           *)
LEMMA WriteKeepsTable ==
  ASSUME NEW q \in VgProcess, q.at \in 1 .. TotalVfs, NEW b \in VfTable, NEW c,
         FileSet(c, b, q.at, VfFiles[q.file], q.attrs[VfFiles[q.file]])
  PROVE  c \in VfTable
<1>1. PICK f \in VfFile : f = VfFiles[q.file]
  BY FileNames DEF VgProcess
<1>2. PICK x \in Nat : x = q.attrs[f]
  BY DEF VgProcess, Attrs
<1>3. PICK v \in 1 .. TotalVfs : v = q.at
  OBVIOUS
<1>4. FileSet(c, b, v, f, x)
  BY <1>1, <1>2, <1>3
<1> QED BY ONLY <1>4, FileWritten, b \in VfTable, v \in 1 .. TotalVfs, f \in VfFile, x \in Nat

(* One file is written, or the kernel refuses the value, or it cannot be   *)
(* opened.                                                                 *)
LEMMA WriteKeeps == ASSUME VgInv, NEW p \in VgProcs, WriteVfAttr(p) PROVE VgInv'
<1>1. /\ UNCHANGED <<conf, numvfs, vgOverlap, vgWrapped, vgOthers>> /\ vg[p].pc = "vf"
      /\ vg[p].at <= vg[p].vfs
      /\ vgLost' = vgLost \/ vgLost' = vgLost + 1
  BY DEF WriteVfAttr, VgRefuse
<1>2. /\ vg[p] \in VgProcess /\ vg[p].result = "none" /\ Busy(vg[p])
      /\ vgLost \in Nat /\ numvfs \in 0 .. TotalVfs /\ vf \in VfTable
      /\ ~vgOverlap' => ~vgOverlap
      /\ vgLost' \in Nat /\ vgLost' >= vgLost /\ conf' = conf
      /\ Quiet' => Quiet /\ vgLost' = vgLost
  BY <1>1, BusyStep
<1>3. PICK q \in VgProcess : q = vg[p]
  BY <1>2
<1>4. PICK b \in VfTable : b = vf
  BY <1>2
<1>0. vgOthers \in Nat
  BY VgAssumption DEF VgInv, VgTypes
<1>5. /\ numvfs' \in 0 .. TotalVfs /\ q.pc = "vf" /\ q.at <= q.vfs /\ vgLost' >= vgLost
      /\ Busy(vg[p]) /\ q.result = "none"
      /\ (vgWrapped' <=> vgWrapped) /\ vgOthers' = vgOthers /\ vgOthers \in Nat
  BY <1>0, <1>1, <1>2, <1>3
<1>6. q.at \in 1 .. TotalVfs
  <2>1. q.at \in Nat \ {0} /\ q.vfs \in 0 .. TotalVfs /\ TotalVfs \in Nat
    BY SomeVfs DEF VgProcess
  <2> QED BY <1>5, <2>1
<1>7. ASSUME vf' = vf PROVE (Quiet' => InFiles(numvfs, vf, vgWrapped, vgOthers)') /\ vf' \in VfTable
  BY <1>1, <1>2, <1>7, FilesSame
<1>8. ASSUME Quiet' PROVE AtWork(q, numvfs, vf, vgWrapped, vgOthers) /\ InFiles(numvfs, vf, vgWrapped, vgOthers)
  BY <1>2, <1>3, <1>8 DEF VgInv
<1>9. CASE VgReturn(p, "unknown") /\ vf' = vf
  BY <1>1, <1>2, <1>5, <1>7, <1>9, ReturnKeeps
<1>10. CASE /\ q.req.op # "create" /\ vf' = vf
            /\ vg' = [vg EXCEPT ![p] = NextVf([q EXCEPT !.skipped = TRUE])]
  <2>1. PICK s : s = [q EXCEPT !.skipped = TRUE]
    OBVIOUS
  <2>2. s \in VgProcess /\ SameBut(s, q) /\ s.skipped /\ s.at = q.at /\ s.file = q.file
    BY <2>1 DEF VgProcess, SameBut
  <2>3. PICK x \in VgProcess : x = NextVf(s)
    BY <2>2, NextVfIs
  <2>4. /\ SameBut(x, q) /\ x.skipped /\ x.at = q.at + 1 /\ x.file = 1
    BY <2>2, <2>3, NextVfIs DEF SameBut
  <2>5. vg' = [vg EXCEPT ![p] = x]
    BY <1>10, <2>1, <2>3
  <2>6. Sound(x)
    BY <1>5, <2>4 DEF Sound, SameBut
  <2>7. ASSUME Quiet' PROVE AtWork(x, numvfs, vf, vgWrapped, vgOthers)'
    <3>1. Removing(q, numvfs, vf)
      BY <1>5, <1>8, <1>10, <2>7 DEF AtWork
    <3>2. InLoop(x)
      <4>1. q.at \in 1 .. q.vfs + 1 /\ q.vfs \in Nat
        BY <1>5, <3>1, SomeVfs DEF Removing, InLoop, VgProcess
      <4>2. x.at \in 1 .. x.vfs + 1
        BY <1>5, <2>4, <4>1 DEF SameBut
      <4> QED BY <1>5, <2>4, <4>2 DEF InLoop, SameBut
    <3>3. Removing(x, numvfs, vf)'
      BY <1>1, <1>5, <2>4, <3>1, <3>2 DEF Removing, InLoop, SameBut
    <3> QED BY <1>5, <1>10, <2>4, <3>3 DEF AtWork, SameBut
  <2> QED BY <1>1, <1>2, <1>5, <1>7, <1>10, <2>5, <2>6, <2>7, OneActs
<1>11. ASSUME vg' = [vg EXCEPT ![p] = NextFile(q)], vf' = vf \/ vgLost' = vgLost,
              vf' # vf => FileSet(vf', vf, q.at, VfFiles[q.file], q.attrs[VfFiles[q.file]]),
              vf' = vf => vgLost' # vgLost
                          \/ FileSet(vf', vf, q.at, VfFiles[q.file], q.attrs[VfFiles[q.file]])
       PROVE  VgInv'
  <2>1. PICK x \in VgProcess : x = NextFile(q)
    BY NextFileIs
  <2>2. SameBut(x, q) /\ x.skipped = q.skipped
    BY <2>1, NextFileIs
  <2>3. vg' = [vg EXCEPT ![p] = x]
    BY <1>11, <2>1
  <2>4. Sound(x)
    BY <1>5, <2>2 DEF Sound, SameBut
  <2>5. CASE vgLost' # vgLost
    <3>1. ~Quiet'
      BY <1>2, <2>5
    <3>2. vf' = vf
      BY <1>11, <2>5
    <3> QED BY <1>1, <1>2, <1>5, <1>7, <2>3, <2>4, <3>1, <3>2, OneActs
  <2>6. CASE vgLost' = vgLost
    <3>1. PICK c : c = vf'
      OBVIOUS
    <3>2. FileSet(c, b, q.at, VfFiles[q.file], q.attrs[VfFiles[q.file]])
      BY <1>4, <1>11, <2>6, <3>1
    <3>3. c \in VfTable
      BY <1>6, <3>2, WriteKeepsTable
    <3>4. ASSUME Quiet', Written(q, b) PROVE Written(x, c)
      BY <1>6, <2>1, <3>2, <3>4, WriteOne DEF FileSet
    <3>5. ASSUME Quiet' PROVE numvfs = 0 /\ InLoop(q)
      <4>1. Creating(q, numvfs, vf, vgWrapped, vgOthers) \/ Removing(q, numvfs, vf)
        BY <1>5, <1>8, <3>5 DEF AtWork
      <4> QED BY <1>5, <4>1 DEF Creating, Removing
    <3>6. ASSUME Quiet' PROVE InLoop(x)
      BY <1>5, <2>1, <3>5, <3>6, LoopGoesOn
    <3>7. ASSUME Quiet', q.req.op = "create"
          PROVE  AtWork(x, numvfs, vf, vgWrapped, vgOthers)' /\ InFiles(numvfs, vf, vgWrapped, vgOthers)'
      <4>1. Creating(q, 0, b, vgWrapped, vgOthers)
        BY <1>4, <1>5, <1>8, <3>5, <3>7 DEF AtWork
      <4>2. PICK blind, o : blind = vgWrapped /\ o = vgOthers
        OBVIOUS
      <4>9. o \in Nat /\ Creating(q, 0, b, blind, o)
        BY <1>0, <4>1, <4>2
      <4>3. ~blind => Used(c) + Left(x) * q.attrs["lmem"] + o <= Memory - Spare
        BY <1>5, <2>1, <3>2, <4>9, WriteGivesAway
      <4>4. Written(x, c)
        BY <3>4, <3>7, <4>1 DEF Creating
      <4>5. DoorbellsShared(x.attrs, x.vfs)'
        BY <1>2, <2>2, <4>1, SharedSame DEF Creating, SameBut
      <4>6. Creating(x, numvfs, vf, vgWrapped, vgOthers)'
        <5>1. numvfs' = 0 /\ x.req.op = "create" /\ x.vfs > 0 /\ x.attrs["lmem"] > 0
          BY <1>1, <2>2, <3>5, <3>7, <4>1 DEF Creating, SameBut
        <5>2. ~vgWrapped' => Used(c) + Left(x) * x.attrs["lmem"] + vgOthers' <= Memory - Spare
          BY <1>5, <2>2, <4>2, <4>3 DEF SameBut
        <5> QED BY <3>1, <3>6, <3>7, <4>4, <4>5, <5>1, <5>2
                DEF Creating, Written, InLoop, Left, Used
      <4>7. AtWork(x, numvfs, vf, vgWrapped, vgOthers)'
        BY <1>5, <2>2, <3>7, <4>6 DEF AtWork, SameBut
      <4>8. InFiles(numvfs, vf, vgWrapped, vgOthers)'
        BY <1>1, <3>5, <3>7 DEF InFiles
      <4> QED BY <4>7, <4>8
    <3>8. ASSUME Quiet', q.req.op # "create"
          PROVE  AtWork(x, numvfs, vf, vgWrapped, vgOthers)' /\ InFiles(numvfs, vf, vgWrapped, vgOthers)'
      <4>1. Removing(q, numvfs, b)
        BY <1>4, <1>5, <1>8, <3>8 DEF AtWork
      <4>3. Removing(x, numvfs, vf)'
        <5>1. x.req.op = "remove" /\ x.attrs = ZeroAttr /\ numvfs' = 0 /\ x.vfs = x.was /\ x.pc = "vf"
          BY <1>1, <1>5, <2>2, <3>5, <3>8, <4>1 DEF Removing, SameBut
        <5>2. ~x.skipped => Written(x, c)
          BY <2>2, <3>4, <3>8, <4>1 DEF Removing
        <5> QED BY <3>1, <3>6, <3>8, <5>1, <5>2 DEF Removing, Written, InLoop
      <4>4. AtWork(x, numvfs, vf, vgWrapped, vgOthers)'
        BY <1>5, <2>2, <3>8, <4>3 DEF AtWork, SameBut
      <4>6. InFiles(numvfs, vf, vgWrapped, vgOthers)'
        BY <1>1, <3>5, <3>8 DEF InFiles
      <4> QED BY <4>4, <4>6
    <3> QED BY <1>1, <1>2, <1>5, <2>3, <2>4, <3>1, <3>3, <3>7, <3>8, OneActs
  <2> QED BY <2>5, <2>6
<1>12. \/ VgReturn(p, "unknown") /\ vf' = vf
       \/ /\ q.req.op # "create" /\ vf' = vf
          /\ vg' = [vg EXCEPT ![p] = NextVf([q EXCEPT !.skipped = TRUE])]
       \/ /\ vg' = [vg EXCEPT ![p] = NextFile(q)]
          /\ \/ FileSet(vf', vf, q.at, VfFiles[q.file], q.attrs[VfFiles[q.file]]) /\ vgLost' = vgLost
             \/ vf' = vf /\ vgLost' = vgLost + 1
  BY <1>3 DEF WriteVfAttr, VgRefuse, FileSet
<1>13. vgLost + 1 # vgLost
  BY <1>2
<1> QED BY <1>9, <1>10, <1>11, <1>12, <1>13

(* The files are touched by vgpu commands only.                            *)
LEMMA VgMoves == [SmiNext]_allVars => VgNext \/ UNCHANGED vgVars
  BY DEF SmiNext, allVars

(* The invariant is inductive.                                             *)
LEMMA VgStepKeeps == VgInv /\ [SmiNext]_allVars => VgInv'
<1> SUFFICES ASSUME VgInv, [SmiNext]_allVars PROVE VgInv'
  OBVIOUS
<1>1. CASE UNCHANGED vgVars
  <2>1. VgTypes' /\ Alone' /\ (Quiet' <=> Quiet)
    BY <1>1 DEF VgInv, VgTypes, Alone, Quiet, vgVars
  <2>2. (Quiet => InFiles(numvfs, vf, vgWrapped, vgOthers))'
    BY <1>1, <2>1, FilesSame DEF vgVars
  <2>3. (Quiet => \A p \in VgProcs : AtWork(vg[p], numvfs, vf, vgWrapped, vgOthers))'
    <3>1. \A a, n : DoorbellsShared(a, n)' <=> DoorbellsShared(a, n)
      BY <1>1, SharedSame DEF vgVars
    <3>2. \A p \in VgProcs : AtWork(vg[p], numvfs, vf, vgWrapped, vgOthers) => AtWork(vg[p], numvfs, vf, vgWrapped, vgOthers)'
      BY <1>1, <3>1 DEF vgVars, AtWork, Creating, Removing, InLoop, Left, Written, Used
    <3> QED BY <2>1, <3>2 DEF VgInv
  <2> QED BY <2>1, <2>2, <2>3 DEF VgInv
<1>2. CASE VgNext
  <2>1. PICK p \in VgProcs :
            \/ RunVgpu(p) \/ LoadSriovData(p) \/ CheckRequest(p) \/ WritePfSchedParams(p)
            \/ WriteVfAttr(p) \/ EnableVfs(p) \/ RemoveRead(p) \/ RemoveDisable(p)
            \/ RemoveReturns(p) \/ KillVgpu(p)
    BY <1>2 DEF VgNext
  <2> QED BY <2>1, RunKeeps, LoadKeeps, CheckKeeps, PfKeeps, WriteKeeps, EnableKeeps,
             RemoveReadKeeps, RemoveDisableKeeps, RemoveReturnsKeeps, KillKeeps
<1> QED BY <1>1, <1>2, VgMoves

(* Every step is one of some process.                                      *)
LEMMA ProcessMoves ==
  ASSUME NEW r \in VgProcs,
         \/ RunVgpu(r) \/ LoadSriovData(r) \/ CheckRequest(r) \/ WritePfSchedParams(r)
         \/ WriteVfAttr(r) \/ EnableVfs(r) \/ RemoveRead(r) \/ RemoveDisable(r)
         \/ RemoveReturns(r) \/ KillVgpu(r)
  PROVE  \E x : vg' = [vg EXCEPT ![r] = x]
<1>1. CASE RunVgpu(r)
  BY <1>1 DEF RunVgpu, VgReturn
<1>2. CASE LoadSriovData(r)
  BY <1>2 DEF LoadSriovData, VgReturn
<1>3. CASE CheckRequest(r)
  BY <1>3 DEF CheckRequest, VgReturn
<1>4. CASE WritePfSchedParams(r) \/ EnableVfs(r) \/ RemoveRead(r) \/ RemoveDisable(r)
           \/ RemoveReturns(r) \/ KillVgpu(r)
  BY <1>4 DEF WritePfSchedParams, EnableVfs, RemoveRead, RemoveDisable, RemoveReturns,
     KillVgpu, VgReturn
<1>5. CASE WriteVfAttr(r)
  BY <1>5 DEF WriteVfAttr, VgReturn
<1> QED BY <1>1, <1>2, <1>3, <1>4, <1>5

(* VFs that were never provisioned hold no memory.                         *)
LEMMA NothingUsed ==
  ASSUME NEW b, b = [v \in 1 .. TotalVfs |-> ZeroAttr]
  PROVE  b \in VfTable /\ Used(b) = 0
<1> DEFINE D == 1 .. TotalVfs
           Bad == {s \in SUBSET D : Lmem(b, D)[s] # 0}
           Sizes == {Cardinality(s) : s \in Bad}
<1>1. IsFiniteSet(D)
  BY SomeVfs
<1>2. b \in VfTable /\ \A v \in D : b[v]["lmem"] = 0
  BY FileNames DEF VfTable, Attrs, ZeroAttr
<1>3. /\ Lmem(b, D)[{}] = 0
      /\ \A s \in SUBSET D : \A x \in s : Lmem(b, D)[s] = b[x]["lmem"] + Lmem(b, D)[s \ {x}]
  <2>1. \A x \in D : b[x]["lmem"] \in Nat
    BY <1>2
  <2> HIDE DEF D
  <2>2. Counts(b, D)
    BY <2>1 DEF Counts
  <2>3. AddsUp(b, D)
    BY ONLY <1>1, <2>2, LmemAddsUp
  <2> QED BY <2>3 DEF AddsUp
<1> HIDE DEF D
<1>4. Bad = {}
  <2> SUFFICES ASSUME Bad # {} PROVE FALSE
    OBVIOUS
  <2>9. \A s \in SUBSET D : Cardinality(s) \in Nat
    BY <1>1, Subsets
  <2>1. Sizes \subseteq Nat /\ Sizes # {}
    BY <2>9
  <2>2. PICK m \in Sizes : \A k \in Sizes : m <= k
    BY <2>1, SmallestIsIn
  <2>3. PICK s \in Bad : Cardinality(s) = m
    OBVIOUS
  <2>4. PICK x : x \in s
    BY <1>3, <2>3
  <2>5. s \ {x} \in SUBSET D /\ Cardinality(s \ {x}) = m - 1 /\ m \in Nat
    BY <1>1, <2>1, <2>3, <2>4, Subsets
  <2>6. s \ {x} \notin Bad
    <3> SUFFICES ASSUME s \ {x} \in Bad PROVE FALSE
      OBVIOUS
    <3>1. Cardinality(s \ {x}) \in Sizes
      OBVIOUS
    <3>2. m <= m - 1
      BY <2>2, <2>5, <3>1
    <3> QED BY <2>5, <3>2
  <2>7. Lmem(b, D)[s \ {x}] = 0
    BY <2>5, <2>6
  <2>8. Lmem(b, D)[s] = b[x]["lmem"] + 0 /\ b[x]["lmem"] = 0
    BY <1>2, <1>3, <2>4, <2>7
  <2> QED BY <2>3, <2>8
<1> QED BY <1>2, <1>4 DEF Used, D

(* The invariant holds at first.                                           *)
LEMMA VgAtFirst == SmiInit => VgInv
<1> SUFFICES ASSUME SmiInit PROVE VgInv
  OBVIOUS
<1>1. VgInit
  BY DEF SmiInit
<1>2. /\ conf \in ConfFiles /\ numvfs = 0 /\ vf = [v \in 1 .. TotalVfs |-> ZeroAttr]
      /\ vg = [p \in VgProcs |-> NoProc] /\ vgLost = 0
      /\ vgWrapped = FALSE /\ vgOthers = 0
  BY <1>1 DEF VgInit
<1>3. NoProc \in VgProcess /\ ~Busy(NoProc)
  BY ProcessEnds
<1>4. vf \in VfTable /\ Used(vf) = 0
  BY <1>2, NothingUsed
<1>5. TotalVfs \in Nat /\ Memory \in Nat /\ Spare \in Nat /\ Memory >= Spare
  BY VgAssumption
<1>6. VgTypes
  <2>1. vgWrapped \in BOOLEAN /\ vgOthers \in {0} \cup OthersUse
    BY <1>2
  <2>2. conf \in ConfFiles /\ numvfs \in 0 .. TotalVfs /\ vf \in VfTable /\ vgLost \in Nat
    BY <1>2, <1>4, <1>5
  <2>3. \A p \in VgProcs : vg[p] = NoProc
    BY <1>2
  <2>4. vg \in [VgProcs -> VgProcess] /\ \A p \in VgProcs : Sound(vg[p])
    BY <1>2, <1>3, <2>3 DEF Sound, Busy
  <2> QED BY <2>1, <2>2, <2>4, Zenon DEF VgTypes
<1>7. Alone
  BY <1>2, <1>3 DEF Alone
<1>8. InFiles(numvfs, vf, vgWrapped, vgOthers)
  BY <1>2, <1>4, <1>5 DEF InFiles
<1>9. \A p \in VgProcs : AtWork(vg[p], numvfs, vf, vgWrapped, vgOthers)
  BY <1>2, <1>3, IdleAtWork
<1> QED BY <1>6, <1>7, <1>8, <1>9 DEF VgInv

(* The invariant holds in every behaviour.                                 *)
LEMMA VgInvariance == SmiSpec => []VgInv
<1>1. SmiInit => VgInv
  BY VgAtFirst
<1>2. VgInv /\ [SmiNext]_allVars => VgInv'
  BY VgStepKeeps
<1> QED BY <1>1, <1>2, PTL DEF SmiSpec

(* While processes take turns and the kernel takes every value, VFs are    *)
(* enabled only when all of them are provisioned alike, their share of the *)
(* doorbells and of the memory that others leave included: for any number  *)
(* of processes, VFs, memory, any use of it by others and any vgpu.conf,   *)
(* but for the two exceptions the property names: a lone default section   *)
(* is given whole to each VF (linvf.cpp:567-568), and a create for which   *)
(* lmemSizeFree wrapped takes what is not there (linvf.cpp:520).           *)
THEOREM VfsAreProvisioned == SmiSpec => []VfsProvisioned
<1>1. VgInv => VfsProvisioned
  <2> SUFFICES ASSUME VgInv, ~vgOverlap, vgLost = 0, numvfs > 0
               PROVE  /\ vf[1]["lmem"] > 0
                      /\ \A v \in 1 .. numvfs : vf[v] = vf[1]
                      /\ DoorbellsShared(vf[1], numvfs)
                      /\ ~vgWrapped => MapThenSumSet(LAMBDA v : vf[v]["lmem"], 1 .. numvfs)
                                         + vgOthers + Spare <= Memory
    BY DEF VfsProvisioned, DoorbellsShared
  <2>1. InFiles(numvfs, vf, vgWrapped, vgOthers) /\ numvfs \in 0 .. TotalVfs /\ vf \in VfTable
    BY DEF VgInv, VgTypes, Quiet
  <2>2. PICK b \in VfTable : b = vf
    BY <2>1
  <2>3. PICK n \in 0 .. TotalVfs : n = numvfs
    BY <2>1
  <2>4. PICK sum : sum = MapThenSumSet(LAMBDA v : b[v]["lmem"], 1 .. n)
    OBVIOUS
  <2>5. sum <= Used(b) /\ Used(b) \in Nat
    BY <2>4, PartUsed
  <2>9. MapThenSumSet(LAMBDA v : b[v]["lmem"], 1 .. n) \in Nat
    BY PartUsed
  <2>6. sum \in Int
    BY <2>4, <2>9
  <2>7. ~vgWrapped => sum + vgOthers + Spare <= Memory
    <3>1. ~vgWrapped => Used(b) + vgOthers <= Memory - Spare
      BY <2>1, <2>2 DEF InFiles
    <3>2. Memory \in Nat /\ Spare \in Nat /\ vgOthers \in Nat
      BY VgAssumption DEF VgInv, VgTypes
    <3> QED BY <2>5, <2>6, <3>1, <3>2
  <2>8. ~vgWrapped => MapThenSumSet(LAMBDA v : vf[v]["lmem"], 1 .. numvfs)
                        + vgOthers + Spare <= Memory
    BY <2>2, <2>3, <2>4, <2>7
  <2> QED BY <2>1, <2>8 DEF InFiles
<1> QED BY <1>1, VgInvariance, PTL

(* A remove that ran alone, opened every file and returned success has     *)
(* given back the quotas of every VF it found enabled, however many.       *)
THEOREM RemovesGiveBack == SmiSpec => RemoveGivesBack
<1>1. ASSUME VgInv, [SmiNext]_allVars
      PROVE  [\A p \in VgProcs :
               vg[p].pc = "vf" /\ vg[p].req.op = "remove" /\ vg'[p].result = "ok"
                 /\ ~vg[p].skipped /\ ~vgOverlap /\ vgLost = 0
               => \A v \in 1 .. vg[p].was : vf[v] = ZeroAttr]_vgVars
  <2> SUFFICES ASSUME NEW p \in VgProcs, VgNext, vg[p].pc = "vf", vg[p].req.op = "remove",
                      vg'[p].result = "ok", ~vg[p].skipped, ~vgOverlap, vgLost = 0
               PROVE  \A v \in 1 .. vg[p].was : vf[v] = ZeroAttr
    BY <1>1, VgMoves
  <2>1. /\ vg[p] \in VgProcess /\ vg[p].result = "none"
        /\ Removing(vg[p], numvfs, vf) /\ vg \in [VgProcs -> VgProcess]
    BY <1>1 DEF VgInv, VgTypes, Sound, Busy, Quiet, AtWork
  <2>2. PICK r \in VgProcs :
            \/ RunVgpu(r) \/ LoadSriovData(r) \/ CheckRequest(r) \/ WritePfSchedParams(r)
            \/ WriteVfAttr(r) \/ EnableVfs(r) \/ RemoveRead(r) \/ RemoveDisable(r)
            \/ RemoveReturns(r) \/ KillVgpu(r)
    BY DEF VgNext
  <2>3. \E x : vg' = [vg EXCEPT ![r] = x]
    BY <2>2, ProcessMoves
  <2>4. r = p
    BY <2>1, <2>3
  <2>5. ~WriteVfAttr(p)
    <3> SUFFICES ASSUME WriteVfAttr(p) PROVE FALSE
      OBVIOUS
    <3>1. PICK q \in VgProcess : q = vg[p]
      BY <2>1
    <3>2. PICK s : s = [q EXCEPT !.skipped = TRUE]
      OBVIOUS
    <3>3. s \in VgProcess /\ s.result = q.result
      BY <3>2 DEF VgProcess
    <3>4. vg'[p] = NextVf(s) \/ vg'[p] = NextFile(q)
      BY <2>1, <3>1, <3>2 DEF WriteVfAttr
    <3>5. NextVf(s).result = "none" /\ NextFile(q).result = "none"
      BY <2>1, <3>1, <3>3, NextVfIs, NextFileIs DEF SameBut
    <3> QED BY <3>4, <3>5
  <2>6. ~KillVgpu(p)
    BY <2>1 DEF KillVgpu, NoProc
  <2>7. RemoveReturns(p)
    BY <2>2, <2>4, <2>5, <2>6 DEF RunVgpu, VgAlive, LoadSriovData, CheckRequest,
       WritePfSchedParams, EnableVfs, RemoveRead, RemoveDisable
  <2>8. PICK q \in VgProcess : q = vg[p]
    BY <2>1
  <2>9. /\ q.at > q.vfs /\ q.vfs = q.was /\ q.attrs = ZeroAttr
        /\ \A v \in 1 .. TotalVfs : v < q.at => vf[v] = ZeroAttr
    BY <2>1, <2>7, <2>8 DEF RemoveReturns, Removing, Written
  <2>10. q.was \in 0 .. TotalVfs /\ q.at \in Nat /\ TotalVfs \in Nat
    BY SomeVfs DEF VgProcess
  <2>11. \A v \in 1 .. q.was : v \in 1 .. TotalVfs /\ v < q.at
    BY <2>9, <2>10
  <2> QED BY <2>8, <2>9, <2>11
<1>2. []VgInv /\ [][SmiNext]_allVars => RemoveGivesBack
  BY <1>1, PTL DEF RemoveGivesBack
<1> QED BY <1>2, VgInvariance, PTL DEF SmiSpec
=============================================================================
