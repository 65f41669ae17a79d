--------------------------- MODULE UpdateFwCommand ---------------------------
(***************************************************************************)
(* "xpu-smi updatefw" (ial/cmn/cmd_updatefw.cpp): a process takes the      *)
(* firmware update lock (oal/lin/fs_lock.cpp) and updates its devices in   *)
(* worker threads, each through firmware::updateFW() and fwupd::updateFW() *)
(* with a progress thread of its own.                                      *)
(***************************************************************************)
EXTENDS Integers, Sequences, FiniteSets

CONSTANTS FwProcs,     \* processes
          FwDevices,   \* GPUs
          Openable,    \* possible permissions: the lock files each process can open
          MaxFwRuns    \* bound: commands run

ASSUME FwAssumption == MaxFwRuns \in Nat

LockPaths == <<"/var/lock", "/tmp">>   \* FSLock's candidates, in their order
NoFile == 0                            \* no lock file at a path; inodes count from 1
NoOwner == "nobody"

VARIABLES
  fwCan,     \* the permissions
  fwFile,    \* per path, the inode there
  fwOwner,   \* per inode, the process whose descriptor holds its flock
  fwPc,      \* per process, where run() is
  fwTry,     \* per process, the position of the lock path it is at
  fwFd,      \* per process, the inode its descriptor is open on
  fwError,   \* per process, firstError
  fwResult,  \* per process, what run() returned
  fwKind,    \* per process, what its firmware type is updated by
  fwJob,     \* per process and device, the worker
  fwRuns

fwVars == <<fwCan, fwFile, fwOwner, fwPc, fwTry, fwFd, fwError, fwResult, fwKind, fwJob,
            fwRuns>>

(* firmware's table of types: "flash" (GFX, FDO, OP_CODE, OP_DATA) is      *)
(* fwupd::updateFW(), "amc" is amcupd, and "empty" (GFX_DATA) is a         *)
(* function of fwupd that nothing overrides.                               *)
FwKinds == {"flash", "amc", "empty"}

Inodes == 1 .. MaxFwRuns
NoJob == [phase |-> "none", res |-> "ok",
          thr |-> "none", complete |-> FALSE,  \* the progress thread and its flashComplete
          flashed |-> FALSE, posts |-> 0]

FwTypeOK ==
  /\ fwFile \in [1 .. 2 -> Inodes \cup {NoFile}]
  /\ fwOwner \in [Inodes -> FwProcs \cup {NoOwner}]
  /\ fwPc \in [FwProcs -> {"off", "open", "flock", "check", "work", "unlock", "unlink", "done"}]
  /\ fwTry \in [FwProcs -> 1 .. 3] /\ fwFd \in [FwProcs -> Inodes \cup {NoFile}]
  /\ fwResult \in [FwProcs -> {"none", "ok", "error"}]
  /\ fwJob \in [FwProcs -> [FwDevices ->
       [phase : {"none", "start", "pre", "update", "flash", "stop", "join", "post", "done"},
        res : {"ok", "error"}, thr : {"none", "loop", "last", "ended"},
        complete : BOOLEAN, flashed : BOOLEAN, posts : 0 .. 2]]]
  /\ fwKind \in [FwProcs -> FwKinds]

FwInit ==
  /\ fwCan \in Openable
  /\ fwFile = [k \in 1 .. 2 |-> NoFile] /\ fwOwner = [i \in Inodes |-> NoOwner]
  /\ fwPc = [p \in FwProcs |-> "off"] /\ fwTry = [p \in FwProcs |-> 1]
  /\ fwFd = [p \in FwProcs |-> NoFile] /\ fwError = [p \in FwProcs |-> FALSE]
  /\ fwResult = [p \in FwProcs |-> "none"]
  /\ fwJob = [p \in FwProcs |-> [d \in FwDevices |-> NoJob]] /\ fwRuns = 0
  /\ fwKind = [p \in FwProcs |-> "flash"]

FwGoto(p, l) == fwPc' = [fwPc EXCEPT ![p] = l]
FwReturn(p, r) == fwResult' = [fwResult EXCEPT ![p] = r]

StartUpdateFw(p) ==
  /\ fwPc[p] \in {"off", "done"} /\ fwRuns < MaxFwRuns /\ fwRuns' = fwRuns + 1
  /\ FwGoto(p, "open") /\ FwReturn(p, "none")
  /\ fwTry' = [fwTry EXCEPT ![p] = 1]
  /\ UNCHANGED <<fwCan, fwFile, fwOwner, fwFd, fwError, fwKind, fwJob>>

-----------------------------------------------------------------------------
(* FSLock::acquire(): open(O_CREAT) of the next candidate.                 *)
OpenLock(p) ==
  /\ fwPc[p] = "open"
  /\ LET k == fwTry[p]
         unused == {i \in Inodes : i \notin {fwFile[1], fwFile[2]} /\ fwOwner[i] = NoOwner
                                   /\ \A q \in FwProcs : fwFd[q] # i}
     IN IF k > Len(LockPaths)
        THEN FwGoto(p, "done") /\ FwReturn(p, "error") /\ UNCHANGED <<fwFile, fwTry, fwFd>>
        ELSE IF LockPaths[k] \notin fwCan[p]
        THEN fwTry' = [fwTry EXCEPT ![p] = k + 1]
             /\ UNCHANGED <<fwPc, fwResult, fwFile, fwFd>>
        ELSE LET i == IF fwFile[k] # NoFile THEN fwFile[k] ELSE CHOOSE i \in unused : TRUE
             IN /\ fwFile' = [fwFile EXCEPT ![k] = i] /\ fwFd' = [fwFd EXCEPT ![p] = i]
                /\ FwGoto(p, "flock") /\ UNCHANGED <<fwTry, fwResult>>
  /\ UNCHANGED <<fwCan, fwOwner, fwError, fwKind, fwJob, fwRuns>>

(* flock(LOCK_EX | LOCK_NB) of what was opened. A lock that is held ends   *)
(* the search.                                                             *)
TryFlock(p) ==
  /\ fwPc[p] = "flock"
  /\ IF fwOwner[fwFd[p]] = NoOwner
       THEN /\ fwOwner' = [fwOwner EXCEPT ![fwFd[p]] = p]
            /\ FwGoto(p, "check") /\ UNCHANGED <<fwFd, fwResult>>
       ELSE /\ FwGoto(p, "done") /\ FwReturn(p, "error")
            /\ fwFd' = [fwFd EXCEPT ![p] = NoFile] /\ UNCHANGED fwOwner
  /\ UNCHANGED <<fwCan, fwFile, fwTry, fwError, fwKind, fwJob, fwRuns>>

(* FSLock::release(), when run() returns: the lock first, then the file.   *)
ReleaseLock(p) ==
  /\ fwPc[p] = "unlock" /\ FwGoto(p, "unlink")
  /\ fwOwner' = [fwOwner EXCEPT ![fwFd[p]] = NoOwner]
  /\ fwFd' = [fwFd EXCEPT ![p] = NoFile]
  /\ UNCHANGED <<fwCan, fwFile, fwTry, fwError, fwResult, fwKind, fwJob, fwRuns>>

(* The process then ends, and its memory with it.                          *)
UnlinkLock(p) ==
  /\ fwPc[p] = "unlink" /\ FwGoto(p, "done")
  /\ fwFile' = [fwFile EXCEPT ![fwTry[p]] = NoFile]
  /\ fwTry' = [fwTry EXCEPT ![p] = 1] /\ fwError' = [fwError EXCEPT ![p] = FALSE]
  /\ fwKind' = [fwKind EXCEPT ![p] = "flash"]
  /\ fwJob' = [fwJob EXCEPT ![p] = [d \in FwDevices |-> NoJob]]
  /\ UNCHANGED <<fwCan, fwOwner, fwFd, fwResult, fwRuns>>

-----------------------------------------------------------------------------
(* run() under the lock: the arguments, the image file and the devices are *)
(* checked, then one worker is started for each device meant (for AMC      *)
(* firmware, the devices with an AMC card, possibly none).                 *)
CheckAndStart(p) ==
  /\ fwPc[p] = "check"
  /\ \/ \E r \in {"ok", "error"} :    \* --help, or something refused
          FwGoto(p, "unlock") /\ FwReturn(p, r) /\ UNCHANGED <<fwKind, fwJob>>
     \/ \E meant \in SUBSET FwDevices :
          /\ fwJob' = [fwJob EXCEPT ![p] =
               [d \in FwDevices |-> [NoJob EXCEPT !.phase = IF d \in meant THEN "start"
                                                            ELSE "none"]]]
          /\ \E k \in FwKinds : fwKind' = [fwKind EXCEPT ![p] = k]
          /\ FwGoto(p, "work") /\ UNCHANGED fwResult
  /\ UNCHANGED <<fwCan, fwFile, fwOwner, fwTry, fwFd, fwError, fwRuns>>

Job(p, d, j) == fwJob' = [fwJob EXCEPT ![p][d] = j]
UpdateOnly == UNCHANGED <<fwCan, fwFile, fwOwner, fwPc, fwTry, fwFd, fwError, fwResult, fwKind,
                        fwRuns>>

(* The worker ends; firstError keeps the first error.                      *)
EndJob(p, d, j) ==
  /\ Job(p, d, [j EXCEPT !.phase = "done"])
  /\ fwError' = [fwError EXCEPT ![p] = @ \/ j.res = "error"]
  /\ UNCHANGED <<fwCan, fwFile, fwOwner, fwPc, fwTry, fwFd, fwResult, fwKind, fwRuns>>

(* The worker up to preUpdateFunc(): no firmware object, no such type, no  *)
(* handle for it.                                                          *)
FindFirmware(p, d) ==
  LET j == fwJob[p][d]
  IN /\ j.phase = "start"
     /\ \/ EndJob(p, d, [j EXCEPT !.res = "error"])
        \/ Job(p, d, [j EXCEPT !.phase = "pre"]) /\ UpdateOnly

(* preUpdateFunc(), which can fail for the AMC only; postUpdateFunc() runs *)
(* then too.                                                               *)
PreUpdate(p, d) ==
  LET j == fwJob[p][d]
  IN /\ j.phase = "pre" /\ UpdateOnly
     /\ \/ /\ fwKind[p] = "amc"
           /\ Job(p, d, [j EXCEPT !.phase = "post", !.res = "error"])
        \/ Job(p, d, [j EXCEPT !.phase = "update"])

(* updateFunc() without fwupd::updateFW(): amcupd::updateAMC() as a whole, *)
(* and the empty function.                                                 *)
UpdateOther(p, d) ==
  LET j == fwJob[p][d]
  IN /\ j.phase = "update" /\ UpdateOnly
     /\ \/ fwKind[p] = "empty" /\ Job(p, d, [j EXCEPT !.phase = "post"])
        \/ fwKind[p] = "amc" /\ Job(p, d, [j EXCEPT !.phase = "post", !.flashed = TRUE])
        \/ fwKind[p] = "amc" /\ Job(p, d, [j EXCEPT !.phase = "post", !.res = "error"])

(* fwupd::updateFW() up to the flash: the image is read again and the      *)
(* firmware interface queried; then the progress thread starts.            *)
ReadImage(p, d) ==
  LET j == fwJob[p][d]
  IN /\ j.phase = "update" /\ fwKind[p] = "flash" /\ UpdateOnly
     /\ \/ Job(p, d, [j EXCEPT !.phase = "post", !.res = "error"])
        \/ Job(p, d, [j EXCEPT !.phase = "flash", !.thr = "loop"])

(* Mutant: the error path leaves without stopping the progress thread.     *)
FlashReturnsMutant(p, d) ==
  LET j == fwJob[p][d]
  IN /\ j.phase = "flash" /\ UpdateOnly
     /\ \/ Job(p, d, [j EXCEPT !.phase = "stop", !.flashed = TRUE])
        \/ Job(p, d, [j EXCEPT !.phase = "post", !.res = "error"])

FlashReturns(p, d) ==
  LET j == fwJob[p][d]
  IN /\ j.phase = "flash" /\ UpdateOnly
     /\ \/ Job(p, d, [j EXCEPT !.phase = "stop", !.flashed = TRUE])
        \/ Job(p, d, [j EXCEPT !.phase = "stop", !.res = "error"])

StopProgress(p, d) ==
  LET j == fwJob[p][d]
  IN /\ j.phase = "stop" /\ UpdateOnly
     /\ Job(p, d, [j EXCEPT !.phase = "join", !.complete = TRUE])

JoinProgress(p, d) ==
  LET j == fwJob[p][d]
  IN /\ j.phase = "join" /\ j.thr = "ended" /\ UpdateOnly
     /\ Job(p, d, [j EXCEPT !.phase = "post"])

(* Mutant: the result of the post-update replaces that of the update.      *)
PostUpdateMutant(p, d) ==
  /\ fwJob[p][d].phase = "post"
  /\ EndJob(p, d, [fwJob[p][d] EXCEPT !.posts = @ + 1, !.res = "ok"])

(* postUpdateFunc() does nothing and succeeds; the worker returns what the *)
(* steps before it returned.                                               *)
PostUpdate(p, d) ==
  /\ fwJob[p][d].phase = "post"
  /\ EndJob(p, d, [fwJob[p][d] EXCEPT !.posts = @ + 1])

(* trackFirmwareFlashProgress(): one round of its loop, then a last query. *)
TrackProgress(p, d) ==
  LET j == fwJob[p][d]
  IN /\ UpdateOnly
     /\ \/ j.thr = "loop" /\ Job(p, d, [j EXCEPT !.thr = "last"])   \* the query fails
        \/ j.thr = "loop" /\ j.complete /\ Job(p, d, [j EXCEPT !.thr = "last"])
        \/ j.thr = "last" /\ Job(p, d, [j EXCEPT !.thr = "ended"])

(* All workers joined: firstError, or success.                             *)
JoinWorkers(p) ==
  /\ fwPc[p] = "work" /\ \A d \in FwDevices : fwJob[p][d].phase \in {"none", "done"}
  /\ FwGoto(p, "unlock") /\ FwReturn(p, IF fwError[p] THEN "error" ELSE "ok")
  /\ UNCHANGED <<fwCan, fwFile, fwOwner, fwTry, fwFd, fwError, fwKind, fwJob, fwRuns>>

FwRunStep(p) ==
  \/ OpenLock(p) \/ TryFlock(p) \/ CheckAndStart(p) \/ JoinWorkers(p)
  \/ ReleaseLock(p) \/ UnlinkLock(p)

(* A worker of the process, or its progress thread.                        *)
FwJobStep(p, d) ==
  \/ FindFirmware(p, d) \/ PreUpdate(p, d) \/ UpdateOther(p, d) \/ ReadImage(p, d)
  \/ FlashReturns(p, d) \/ StopProgress(p, d) \/ JoinProgress(p, d) \/ PostUpdate(p, d)
  \/ TrackProgress(p, d)

FwStep(p) == FwRunStep(p) \/ \E d \in FwDevices : FwJobStep(p, d)

FwNext == \E p \in FwProcs : StartUpdateFw(p) \/ FwStep(p)

FwSpec == FwInit /\ [][FwNext]_fwVars

(* Of a process that can go on, some thread does; in particular a flash    *)
(* the driver was given returns.                                           *)
FwFairness == \A p \in FwProcs : WF_fwVars(FwStep(p))

-----------------------------------------------------------------------------
(* The progress thread uses a structure on the stack of fwupd::updateFW(): *)
(* it runs only while that function does, on every path out of it.         *)
ProgressWithinUpdate ==
  \A p \in FwProcs, d \in FwDevices :
     fwJob[p][d].thr \in {"loop", "last"} => fwJob[p][d].phase \in {"flash", "stop", "join"}

(* updatefw reports success only when every worker it started succeeded,   *)
(* and each worker that got to its pre-update ran one post-update; what    *)
(* was to be flashed was flashed (updateGfxData() flashes nothing).        *)
EveryFailureReported ==
  \A p \in FwProcs :
     fwResult[p] = "ok" =>
        \A d \in FwDevices :
           fwJob[p][d].phase = "done" =>
              /\ fwJob[p][d].res = "ok" /\ fwJob[p][d].posts = 1
              /\ fwKind[p] # "empty" => fwJob[p][d].flashed

(* fwupd::updateFW() and cmdUpdateFW::run(): both of the above.            *)
UpdateReported == ProgressWithinUpdate /\ EveryFailureReported

(* cmd_updatefw.cpp:112: the lock is "global" and "cross-process" - no two *)
(* processes update firmware at the same time.                             *)
UpdatesExclude ==
  \A p, q \in FwProcs : fwPc[p] = "work" /\ fwPc[q] = "work" => p = q
=============================================================================
