----------------------------- MODULE VgpuCommand -----------------------------
(***************************************************************************)
(* "xpu-smi vgpu" (ial/cmn/cmd_vgpu.cpp) and the SR-IOV functions of       *)
(* oal/lin/linvf.cpp under it: several processes create and remove the     *)
(* virtual functions of one GPU through sysfs and debugfs files.           *)
(*                                                                         *)
(* No lock is taken. writeFile() sees only that a file cannot be opened: a *)
(* value the kernel then refuses is lost in silence (vgLost). Any process  *)
(* may be killed between two writes.                                       *)
(***************************************************************************)
EXTENDS Integers, Sequences, FiniteSets, FiniteSetsExt, Functions

CONSTANTS VgProcs,      \* processes
          VgRequests,   \* command lines: [op, n, lmem]
          ConfFiles,    \* possible vgpu.conf: sequences of [key, attrs]
          MaxVfNum,     \* XPUM_MAX_VF_NUM, the key of a DEF section
          TotalVfs,     \* VFs of the GPU's SR-IOV capability
          Memory,       \* its local memory
          OthersUse,    \* what the PF and its clients may use of it
          Spare,        \* lmem_spare
          LmemBits,     \* width of lmemSizeFree (64 in the code)
          MaxVgRuns,    \* bound: commands run
          MaxVgFaults   \* bound: processes killed and writes the kernel refuses

(* What writeVfAttr() writes for a VF, in its order.                       *)
VfFiles == <<"exec", "preempt", "lmem", "ggtt", "doorbells", "contexts">>
VfFile == Range(VfFiles)
ZeroAttr == [f \in VfFile |-> 0]

(* The sizes of a command line are ints in MiB: for as many VFs as a GPU   *)
(* has, they come to less than 2^64 bytes, and negative ones to nearly     *)
(* that, which is more than any memory.                                    *)
ASSUME VgAssumption ==
  /\ {MaxVfNum, TotalVfs, Memory, Spare, LmemBits, MaxVgRuns, MaxVgFaults} \subseteq Nat
  /\ Memory >= Spare /\ 2 ^ LmemBits \in Nat /\ Memory < 2 ^ LmemBits /\ MaxVfNum > TotalVfs
  /\ OthersUse \subseteq Nat
  /\ VgRequests \subseteq [op : {"create", "remove", "read"}, n : Nat, lmem : Nat]
  /\ \A r \in VgRequests :
       r.n <= TotalVfs => \/ r.lmem * r.n < 2 ^ LmemBits
                          \/ (r.lmem * r.n) % 2 ^ LmemBits > Memory
  /\ ConfFiles \subseteq Seq([key : Nat, attrs : [VfFile -> Nat]])

VARIABLES
  conf,       \* the vgpu.conf installed
  numvfs,     \* sriov_numvfs: the VFs enabled
  vf,         \* the provisioning files of every VF
  vg,         \* the processes
  vgRuns, vgKills,
  vgOverlap,  \* two processes have run at the same time
  vgLost,     \* writes the kernel has refused
  vgWrapped,  \* (history) a create took less memory than lmem_spare for plenty
  vgOthers    \* (history) what others used when a create last saw enough and no VFs

vgVars == <<conf, numvfs, vf, vg, vgRuns, vgKills, vgOverlap, vgLost,
            vgWrapped, vgOthers>>

NoProc == [pc |-> "off", req |-> [op |-> "none", n |-> 0, lmem |-> 0], free |-> 0,
           vfs |-> 0, attrs |-> ZeroAttr, at |-> 1, file |-> 1, result |-> "none",
           was |-> 0,          \* VFs enabled when the process started
           skipped |-> FALSE]  \* a remove could not open a file

VgTypeOK ==
  /\ conf \in ConfFiles /\ numvfs \in 0 .. TotalVfs
  /\ vf \in [1 .. TotalVfs -> [VfFile -> Nat]]
  /\ DOMAIN vg = VgProcs
  /\ \A p \in VgProcs :
       /\ vg[p].pc \in {"off", "load", "check", "pf", "vf", "enable", "removeRead",
                        "removeDisable", "done"}
       /\ vg[p].free \in 0 .. 2 ^ LmemBits - 1 /\ vg[p].vfs \in 0 .. TotalVfs
       /\ vg[p].result \in {"none", "ok", "invalid", "unknown"}
  /\ vgRuns \in 0 .. MaxVgRuns /\ vgKills + vgLost \in 0 .. MaxVgFaults
  /\ {vgOverlap, vgWrapped} \subseteq BOOLEAN /\ vgOthers \in {0} \cup OthersUse

VgInit ==
  /\ conf \in ConfFiles /\ numvfs = 0 /\ vf = [v \in 1 .. TotalVfs |-> ZeroAttr]
  /\ vg = [p \in VgProcs |-> NoProc]
  /\ vgRuns = 0 /\ vgKills = 0 /\ vgOverlap = FALSE /\ vgLost = 0
  /\ vgWrapped = FALSE /\ vgOthers = 0

VgAlive(p) == vg[p].pc \notin {"off", "done"}
VgReturn(p, r) == vg' = [vg EXCEPT ![p] = [NoProc EXCEPT !.pc = "done", !.result = r]]

(* The kernel refuses what is written; nobody notices.                     *)
VgRefuse == vgKills + vgLost < MaxVgFaults /\ vgLost' = vgLost + 1

(* run(): one command of the line runs; it may be refused first. precheck, *)
(* list and stats only read.                                               *)
RunVgpu(p) ==
  /\ ~VgAlive(p) /\ vgRuns < MaxVgRuns /\ vgRuns' = vgRuns + 1
  /\ \E r \in VgRequests :
       LET started == [NoProc EXCEPT !.req = r, !.was = numvfs]
       IN \/ VgReturn(p, "invalid")
          \/ /\ r.op = "read"
             /\ \E res \in {"ok", "unknown"} : VgReturn(p, res)
          \/ /\ r.op = "create" /\ r.n > 0 /\ r.lmem > 0
             /\ vg' = [vg EXCEPT ![p] = [started EXCEPT !.pc = "load"]]
          \/ /\ r.op = "remove"
             /\ vg' = [vg EXCEPT ![p] = [started EXCEPT !.pc = "removeRead"]]
  /\ vgOverlap' = (vgOverlap \/ \E q \in VgProcs \ {p} : VgAlive(q))
  /\ UNCHANGED <<conf, numvfs, vf, vgKills, vgLost, vgWrapped, vgOthers>>

(* visible_avail: what nobody uses of the memory. It counts as 0 when      *)
(* vram_mm cannot be read.                                                 *)
getFreeLmemSize(readable, others) ==
  LET used == MapThenSumSet(LAMBDA v : vf[v]["lmem"], DOMAIN vf) + others
  IN IF readable /\ used < Memory THEN Memory - used ELSE 0

(* loadSriovData(): from an unsigned number lmem_spare is subtracted       *)
(* without a look.                                                         *)
LoadSriovData(p) ==
  /\ vg[p].pc = "load"
  /\ \/ VgReturn(p, "unknown") /\ UNCHANGED <<vgWrapped, vgOthers>>
     \/ \E readable \in BOOLEAN, others \in OthersUse :
          LET avail == getFreeLmemSize(readable, others)
          IN /\ vg' = [vg EXCEPT ![p].pc = "check",
                                 ![p].free = (avail - Spare) % 2 ^ LmemBits]
             /\ vgWrapped' = (vgWrapped \/ avail < Spare)
             /\ vgOthers' = IF numvfs = 0 /\ avail >= Spare THEN others ELSE vgOthers
  /\ UNCHANGED <<conf, numvfs, vf, vgRuns, vgKills, vgOverlap, vgLost>>

-----------------------------------------------------------------------------
(* updateVgpuSchedulerConfigParameters(): what is left of a 2 s period to  *)
(* each of the other VFs, half of it (50 ms at most) to run.               *)
SchedulerParameters(n) ==
  LET share == 2000 \div Max({n - 1, 1})
      exec == Min({share \div 2, 50})
  IN [exec |-> exec, preempt |-> (share - exec) * 1000]

WithScheduler(a, n) ==
  [f \in VfFile |-> IF f \in {"exec", "preempt"} THEN SchedulerParameters(n)[f] ELSE a[f]]

(* readVfConfigFromFile(): the sections of the device for n VFs and its    *)
(* DEF sections, up to the end of the first for n. A later line overrides. *)
VfSections(n) ==
  LET own == {i \in DOMAIN conf : conf[i].key = n}
      read == IF own = {} THEN DOMAIN conf ELSE 1 .. Min(own)
  IN [k \in {conf[i].key : i \in read} \cap {n, MaxVfNum} |->
        WithScheduler(conf[Max({i \in read : conf[i].key = k})].attrs, k)]

(* combineAttrConfig(): a lone section is taken as it is; where a section  *)
(* for n leaves a quota open, the DEF quota is divided (contexts are not). *)
CombineAttrConfig(data, n) ==
  IF DOMAIN data = {} THEN ZeroAttr
  ELSE IF Cardinality(DOMAIN data) = 1 THEN data[CHOOSE k \in DOMAIN data : TRUE]
  ELSE WithScheduler(
         [f \in VfFile |->
            IF data[n][f] # 0 THEN data[n][f]
            ELSE IF f = "contexts" THEN data[MaxVfNum][f] ELSE data[MaxVfNum][f] \div n], n)

(* linCreateVFs() between its reads and its writes. An unknown PCI device  *)
(* has no section, and a GPU without SR-IOV is refused.                    *)
CheckRequest(p) ==
  /\ vg[p].pc = "check"
  /\ LET n == vg[p].req.n
         attrs == CombineAttrConfig(VfSections(n), n)
     IN \/ VgReturn(p, "unknown")
        \/ /\ numvfs = 0 /\ n <= TotalVfs /\ attrs["lmem"] > 0
           /\ vg[p].free >= (vg[p].req.lmem * n) % 2 ^ LmemBits
           /\ vg' = [vg EXCEPT ![p].pc = "pf", ![p].vfs = n,
                               ![p].attrs = [attrs EXCEPT !["lmem"] = vg[p].req.lmem]]
  /\ UNCHANGED <<conf, numvfs, vf, vgRuns, vgKills, vgOverlap, vgLost, vgWrapped, vgOthers>>

(* writePfSchedParams(): the PF's own parameters.                          *)
WritePfSchedParams(p) ==
  /\ vg[p].pc = "pf"
  /\ VgReturn(p, "unknown") \/ vg' = [vg EXCEPT ![p].pc = "vf"]
  /\ UNCHANGED <<conf, numvfs, vf, vgRuns, vgKills, vgOverlap, vgLost, vgWrapped, vgOthers>>

NextVf(q) == [q EXCEPT !.at = @ + 1, !.file = 1]
NextFile(q) == IF q.file = Len(VfFiles) THEN NextVf(q) ELSE [q EXCEPT !.file = @ + 1]

(* writeVfAttr(), one file at a time, in the loops of createVfInternal()   *)
(* and removeAllVFs(). A file that cannot be opened ends a create; a       *)
(* remove goes on with the next VF.                                        *)
WriteVfAttr(p) ==
  /\ vg[p].pc = "vf" /\ vg[p].at <= vg[p].vfs
  /\ LET q == vg[p]
         name == VfFiles[q.file]
     IN \/ /\ IF q.req.op = "create" THEN VgReturn(p, "unknown")
              ELSE vg' = [vg EXCEPT ![p] = NextVf([q EXCEPT !.skipped = TRUE])]
           /\ UNCHANGED <<vf, vgLost>>
        \/ /\ vg' = [vg EXCEPT ![p] = NextFile(q)]
           /\ \/ vf' = [vf EXCEPT ![q.at][name] = q.attrs[name]] /\ UNCHANGED vgLost
              \/ VgRefuse /\ UNCHANGED vf
  /\ UNCHANGED <<conf, numvfs, vgRuns, vgKills, vgOverlap, vgWrapped, vgOthers>>

(* removeAllVFs() returns 0 whatever its loop met.                         *)
RemoveReturns(p) ==
  /\ vg[p].pc = "vf" /\ vg[p].req.op = "remove" /\ vg[p].at > vg[p].vfs
  /\ VgReturn(p, "ok")
  /\ UNCHANGED <<conf, numvfs, vf, vgRuns, vgKills, vgOverlap, vgLost, vgWrapped, vgOthers>>

(* Mutant: the VFs are enabled before the last of them is provisioned.     *)
EnableVfsMutant(p) ==
  /\ vg[p].pc = "vf" /\ vg[p].req.op = "create" /\ vg[p].at >= vg[p].vfs
  /\ numvfs = 0 /\ numvfs' = vg[p].vfs
  /\ VgReturn(p, "ok")
  /\ UNCHANGED <<conf, vf, vgRuns, vgKills, vgOverlap, vgLost, vgWrapped, vgOthers>>

(* sriov_drivers_autoprobe and sriov_numvfs, last. The kernel enables VFs  *)
(* only where none are.                                                    *)
EnableVfs(p) ==
  /\ vg[p].pc = "vf" /\ vg[p].req.op = "create" /\ vg[p].at > vg[p].vfs
  /\ \/ VgReturn(p, "unknown") /\ UNCHANGED <<numvfs, vgLost>>
     \/ VgReturn(p, "ok") /\ numvfs = 0 /\ numvfs' = vg[p].vfs /\ UNCHANGED vgLost
     \/ VgReturn(p, "ok") /\ VgRefuse /\ UNCHANGED numvfs
  /\ UNCHANGED <<conf, vf, vgRuns, vgKills, vgOverlap, vgWrapped, vgOthers>>

-----------------------------------------------------------------------------
(* Mutant: the number is read after it was reset.                          *)
RemoveReadMutant(p) ==
  /\ vg[p].pc = "removeRead"
  /\ vg' = [vg EXCEPT ![p].pc = "vf", ![p].vfs = 0]
  /\ numvfs' = 0
  /\ UNCHANGED <<conf, vf, vgRuns, vgKills, vgOverlap, vgLost, vgWrapped, vgOthers>>

(* removeAllVFs(): the number of VFs is read, then 0 is written.           *)
RemoveRead(p) ==
  /\ vg[p].pc = "removeRead"
  /\ VgReturn(p, "unknown")
     \/ vg' = [vg EXCEPT ![p].pc = "removeDisable", ![p].vfs = numvfs]
  /\ UNCHANGED <<conf, numvfs, vf, vgRuns, vgKills, vgOverlap, vgLost, vgWrapped, vgOthers>>

RemoveDisable(p) ==
  /\ vg[p].pc = "removeDisable"
  /\ \/ VgReturn(p, "unknown") /\ UNCHANGED <<numvfs, vgLost>>
     \/ vg' = [vg EXCEPT ![p].pc = "vf"] /\ numvfs' = 0 /\ UNCHANGED vgLost
     \/ vg' = [vg EXCEPT ![p].pc = "vf"] /\ VgRefuse /\ UNCHANGED numvfs
  /\ UNCHANGED <<conf, vf, vgRuns, vgKills, vgOverlap, vgWrapped, vgOthers>>

(* A process dies between two of its steps.                                *)
KillVgpu(p) ==
  /\ VgAlive(p) /\ vgKills + vgLost < MaxVgFaults /\ vgKills' = vgKills + 1
  /\ vg' = [vg EXCEPT ![p] = NoProc]
  /\ UNCHANGED <<conf, numvfs, vf, vgRuns, vgOverlap, vgLost, vgWrapped, vgOthers>>

VgNext == \E p \in VgProcs :
            \/ RunVgpu(p) \/ LoadSriovData(p) \/ CheckRequest(p) \/ WritePfSchedParams(p)
            \/ WriteVfAttr(p) \/ EnableVfs(p) \/ RemoveRead(p) \/ RemoveDisable(p)
            \/ RemoveReturns(p) \/ KillVgpu(p)

VgSpec == VgInit /\ [][VgNext]_vgVars

-----------------------------------------------------------------------------
(* The default section and the one for n VFs that a create combines.       *)
SectionsFor(i, k, n) ==
  /\ i < k /\ conf[i].key = MaxVfNum /\ conf[k].key = n
  /\ \A j \in 1 .. k - 1 : conf[j].key # n /\ (j > i => conf[j].key # MaxVfNum)

(* The default section that is all vgpu.conf has for n VFs.                *)
LoneDefault(i, n) ==
  /\ conf[i].key = MaxVfNum
  /\ \A j \in DOMAIN conf : conf[j].key # n /\ (j > i => conf[j].key # MaxVfNum)

(* While processes take turns and the kernel takes every value, VFs are    *)
(* enabled only when all of them are provisioned, all alike, a process     *)
(* killed half way or a leftover of a failed create notwithstanding; where *)
(* vgpu.conf has a section for that number of VFs (the first counts), they *)
(* share the doorbells of the last default section before it ("Equally     *)
(* divided to each vgpu", vgpu.conf:11-15); and what they are promised and *)
(* what others use of the memory leave lmem_spare. The code makes two      *)
(* exceptions. Each VF is given all the doorbells of a lone default        *)
(* section (linvf.cpp:567-568). And a create that finds less memory than   *)
(* lmem_spare, or cannot read how much there is, takes it for nearly 2^64  *)
(* (linvf.cpp:520) and promises what is not there.                         *)
VfsProvisioned ==
  ~vgOverlap /\ vgLost = 0 /\ numvfs > 0 =>
     /\ vf[1]["lmem"] > 0
     /\ \A v \in 1 .. numvfs : vf[v] = vf[1]
     /\ \A i, k \in DOMAIN conf :
          SectionsFor(i, k, numvfs) /\ conf[k].attrs["doorbells"] = 0
            => vf[1]["doorbells"] * numvfs <= conf[i].attrs["doorbells"]
     /\ \A i \in DOMAIN conf :
          LoneDefault(i, numvfs) => vf[1]["doorbells"] = conf[i].attrs["doorbells"]
     /\ ~vgWrapped =>
          MapThenSumSet(LAMBDA v : vf[v]["lmem"], 1 .. numvfs) + vgOthers + Spare <= Memory

(* A remove returns success with the quotas of the VFs it found enabled    *)
(* given back, if it ran alone and could open every file.                  *)
RemoveGivesBack ==
  [][\A p \in VgProcs :
       vg[p].pc = "vf" /\ vg[p].req.op = "remove" /\ vg'[p].result = "ok"
         /\ ~vg[p].skipped /\ ~vgOverlap /\ vgLost = 0
       => \A v \in 1 .. vg[p].was : vf[v] = ZeroAttr]_vgVars
=============================================================================
