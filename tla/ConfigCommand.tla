---------------------------- MODULE ConfigCommand ----------------------------
(***************************************************************************)
(* "xpu-smi config" (ial/cmn/cmd_config.cpp) with the setters of hal/core  *)
(* it calls. One process applies the settings of its command line, in the  *)
(* unspecified order of an unordered_map, to one GPU: findDevice() returns *)
(* one device for every non-empty argument.                                *)
(*                                                                         *)
(* A setter goes through the handles of its kind. Every driver call may    *)
(* fail; what differs is what a setter does then: stop, go on, succeed if  *)
(* one handle took the setting, or look for another handle.                *)
(***************************************************************************)
EXTENDS Integers, Sequences, FiniteSets, FiniteSetsExt, ColdReset

CONSTANTS Gpus,          \* the GPUs: records of their handles
          CommandLines,  \* parsed command lines
          TileBits       \* width of a tile ID (32 in the code)

Fans == {"fanspeed", "fancurve", "fancurverpm"}
SetCommands == {"frequencyrange", "powerlimit", "standby", "scheduler", "memoryecc",
                "pciedowngrade", "clearras", "reset", "coldreset"} \cup Fans

NoTile == -1      \* no --tile
BadTile == -2     \* a --tile that is not a number
AllFans == -1     \* no --fanid, or --fanid -1
BadFan == -2      \* a malformed --fanid

OnDevice == -2    \* a handle of the whole device, or a search for one
AllDomains == -1  \* every handle is meant
Unresolved == -3

(* What is left of a command line once it is parsed, and what the driver   *)
(* tells of a GPU: to whom each handle belongs, and what it can do.        *)
CommandLine ==
  [dev : {"help", "error", "absent", "unknown", "index", "bdf"}, cmds : SUBSET SetCommands,
   bad : SUBSET SetCommands, huge : BOOLEAN, on : BOOLEAN,
   tile : {NoTile, BadTile} \cup 0 .. 2 ^ TileBits - 1, fan : {AllFans, BadFan} \cup Nat,
   root : BOOLEAN, ignore : BOOLEAN, force : BOOLEAN]

Owner == {OnDevice} \cup Nat
Gpu ==
  [sub : Seq(Nat), freq : Seq([on : Owner, gpu : BOOLEAN]), sched : Seq(Owner), standby : Nat,
   power : Seq([on : Owner, limit : {"free", "locked", "absent"}]), ras : Nat,
   fan : Seq(BOOLEAN), ecc : BOOLEAN, pcie : {"on", "off", "none"}, users : BOOLEAN,
   peers : BOOLEAN]

ASSUME ConfigAssumption ==
  TileBits \in Nat \ {0} /\ CommandLines \subseteq CommandLine /\ Gpus \subseteq Gpu

VARIABLES
  cli,         \* the command line
  gpu,         \* the GPU it names
  cfgPc,       \* "parse", "loop", "set" or how the process ended
  todo,        \* enabled commands not yet run
  call,        \* the setter under way: cmd, i handles done, last, any, found, target
  wrote,       \* per command, the handles that took its setting
  ignored,     \* (history) commands that went on after a driver query of theirs failed
  log,         \* <<command, result>> in the order they ran
  firstError,  \* of run(): "ok" while hadError is false
  exitCode     \* what run() returned or _Exit() was given

cfgVars == <<cli, gpu, cfgPc, todo, call, wrote, ignored, log, firstError, exitCode>>

Ended == {"refused", "returned", "exited", "aborted"}
Results == {"ok", "invalid", "unsupported", "notavail", "unknown", "perm", "inuse", "driver"}

NoCall == [cmd |-> "none", i |-> 0, last |-> "ok", any |-> FALSE, found |-> FALSE,
           target |-> Unresolved]

CfgTypeOK ==
  /\ cli \in CommandLines /\ gpu \in Gpus
  /\ cfgPc \in {"parse", "loop", "set"} \cup Ended
  /\ todo \subseteq SetCommands
  /\ wrote \in [SetCommands -> SUBSET Nat] /\ ignored \subseteq SetCommands
  /\ log \in Seq(SetCommands \X Results)
  /\ firstError \in Results /\ exitCode \in Results \cup {"none", "0"}

CfgInit ==
  /\ cli \in CommandLines /\ gpu \in Gpus
  /\ cfgPc = "parse" /\ todo = {} /\ call = NoCall
  /\ wrote = [c \in SetCommands |-> {}] /\ ignored = {}
  /\ log = <<>> /\ firstError = "ok" /\ exitCode = "none"

(* run() up to the loop: what the command line must have, and query mode,  *)
(* which only reads.                                                       *)
Refusal ==
  IF cli.dev = "help" THEN "ok"
  ELSE IF \/ cli.dev \in {"error", "absent", "unknown"}
          \/ "coldreset" \in cli.cmds /\ cli.dev # "bdf"
          \/ cli.cmds \cap {"reset", "coldreset"} # {} /\ cli.tile # NoTile
  THEN "invalid"
  ELSE "none"

ParseArguments ==
  /\ cfgPc = "parse"
  /\ IF Refusal # "none" THEN cfgPc' = "refused" /\ exitCode' = Refusal /\ UNCHANGED todo
     ELSE IF cli.cmds = {} THEN cfgPc' = "returned" /\ exitCode' = "ok" /\ UNCHANGED todo
     ELSE cfgPc' = "loop" /\ todo' = cli.cmds /\ UNCHANGED exitCode
  /\ UNCHANGED <<cli, gpu, call, wrote, ignored, log, firstError>> /\ UNCHANGED coldVars

(* The command function returned r to run()'s loop, having gone on after   *)
(* the failed queries g.                                                   *)
FinishWith(r, w, g) ==
  /\ cfgPc' = "loop" /\ wrote' = w /\ ignored' = g
  /\ log' = Append(log, <<call.cmd, r>>)
  /\ firstError' = IF firstError = "ok" THEN r ELSE firstError
  /\ UNCHANGED <<cli, gpu, todo, call, exitCode>>

(* The setter goes on with its next handle.                                *)
AdvanceWith(c, w, g) ==
  /\ call' = c /\ wrote' = w /\ ignored' = g
  /\ UNCHANGED <<cli, gpu, cfgPc, todo, log, firstError, exitCode>>

Finish(r, w) == FinishWith(r, w, ignored)
Advance(c, w) == AdvanceWith(c, w, ignored)
Overlooked == ignored \cup {call.cmd}

Running(c) == cfgPc = "set" /\ call.cmd = c
Took(h) == [wrote EXCEPT ![call.cmd] = @ \cup {h}]

(* A value the command function refuses before it calls the HAL.           *)
Rejected(c) ==
  \/ c \in cli.bad
  \/ c \in {"frequencyrange", "scheduler"} /\ cli.tile = BadTile
  \/ c \in Fans /\ cli.fan = BadFan

(* The next enabled command. A scheduler time that fits no 64 bits makes   *)
(* stoull() throw, and nobody catches it.                                  *)
RunCommand ==
  /\ cfgPc = "loop"
  /\ \E c \in todo :
       /\ todo' = todo \ {c} /\ call' = [NoCall EXCEPT !.cmd = c]
       /\ IF Rejected(c)
            THEN /\ log' = Append(log, <<c, "invalid">>) /\ UNCHANGED <<cfgPc, exitCode>>
                 /\ firstError' = IF firstError = "ok" THEN "invalid" ELSE firstError
            ELSE /\ UNCHANGED <<log, firstError>>
                 /\ IF c = "scheduler" /\ cli.huge
                      THEN cfgPc' = "aborted" /\ exitCode' = "driver"
                      ELSE cfgPc' = "set" /\ UNCHANGED exitCode
  /\ UNCHANGED <<cli, gpu, wrote, ignored>> /\ UNCHANGED coldVars

(* Return the first error encountered, or success if all succeeded.        *)
RunReturns ==
  /\ cfgPc = "loop" /\ todo = {}
  /\ cfgPc' = "returned" /\ exitCode' = firstError
  /\ UNCHANGED <<cli, gpu, todo, call, wrote, ignored, log, firstError>>
  /\ UNCHANGED coldVars

-----------------------------------------------------------------------------
(* device::getSubdeviceProperties(): a tile is a position in the driver's  *)
(* list of subdevices; a device without subdevices has tile 0 only.        *)
TileExists(t) == IF gpu.sub = <<>> THEN t = 0 ELSE t < Len(gpu.sub)
SubdeviceOf(t) == IF gpu.sub = <<>> THEN 0 ELSE gpu.sub[t + 1]

(* static_cast<int32_t> of the parsed uint32_t.                            *)
AsInt32(t) == IF t >= 2 ^ (TileBits - 1) THEN t - 2 ^ TileBits ELSE t

(* frequency::setFrequencyRange() up to its loop. The number of            *)
(* subdevices counts as 0 when the driver cannot tell it.                  *)
ResolveFrequencyTarget ==
  /\ Running("frequencyrange") /\ call.target = Unresolved
  /\ LET t == IF cli.tile = NoTile THEN AllDomains ELSE AsInt32(cli.tile)
         aim(x) == Advance([call EXCEPT !.target = x], wrote)
     IN \/ t < -1 /\ Finish("invalid", wrote)
        \/ t = AllDomains /\ aim(AllDomains)
        \/ t > 0 /\ Finish("invalid", wrote)
        \/ t = 0 /\ gpu.sub = <<>> /\ aim(OnDevice)
        \/ t = 0 /\ gpu.sub # <<>>
           /\ AdvanceWith([call EXCEPT !.target = OnDevice], wrote, Overlooked)
        \/ /\ t >= 0 /\ gpu.sub # <<>>
           /\ \/ Finish("driver", wrote)
              \/ ~TileExists(t) /\ Finish("invalid", wrote)
              \/ TileExists(t) /\ aim(SubdeviceOf(t))
  /\ UNCHANGED coldVars

(* Mutant: a domain is taken for the tile's without comparing the subdevice. *)
FrequencyMatchesMutant(d) ==
  d.gpu /\ (call.target = OnDevice => d.on = OnDevice)

FrequencyMatches(d) ==
  d.gpu /\ (call.target = AllDomains \/ d.on = call.target)

(* The loop of setFrequencyRange(): all domains, success if any succeeded; *)
(* or the first of the tile's domains that takes the range.                *)
SetFrequencyRange ==
  /\ Running("frequencyrange") /\ call.target # Unresolved
  /\ LET h == call.i + 1
         next == [call EXCEPT !.i = h]
     IN \/ /\ call.i = Len(gpu.freq)
           /\ Finish(IF call.target = AllDomains THEN (IF call.any THEN "ok" ELSE call.last)
                     ELSE IF call.found THEN call.last ELSE "notavail", wrote)
        \/ /\ call.i < Len(gpu.freq)
           /\ \/ Advance([next EXCEPT !.last = "driver"], wrote)
              \/ ~FrequencyMatches(gpu.freq[h]) /\ Advance(next, wrote)
              \/ /\ FrequencyMatches(gpu.freq[h])
                 /\ \/ Advance([next EXCEPT !.found = TRUE, !.last = "driver"], wrote)
                    \/ IF call.target = AllDomains
                         THEN Advance([next EXCEPT !.found = TRUE, !.any = TRUE], Took(h))
                         ELSE Finish("ok", Took(h))
  /\ UNCHANGED coldVars

(* A setter that goes through its n controllers and stops at the first     *)
(* failure, the ones before it already changed.                            *)
SetEach(c, n, none) ==
  /\ Running(c)
  /\ \/ call.i = n /\ Finish(IF n = 0 THEN none ELSE "ok", wrote)
     \/ call.i < n /\ Finish("driver", wrote)
     \/ call.i < n /\ Advance([call EXCEPT !.i = @ + 1], Took(call.i + 1))
  /\ UNCHANGED coldVars

SetStandby == SetEach("standby", gpu.standby, "ok")
ClearErrors == SetEach("clearras", gpu.ras, "unsupported")
SetSchedulerAll == cli.tile = NoTile /\ SetEach("scheduler", Len(gpu.sched), "ok")

(* getSchedulerForSubdevice() and the set*Mode() that uses it: the tile's  *)
(* scheduler, else the first of the whole device, among those whose        *)
(* properties can be read.                                                 *)
SetSchedulerTile ==
  /\ Running("scheduler") /\ cli.tile # NoTile
  /\ \/ Finish("driver", wrote)
     \/ ~TileExists(cli.tile) /\ Finish("invalid", wrote)
     \/ TileExists(cli.tile) /\ gpu.sched = <<>> /\ Finish("unsupported", wrote)
     \/ /\ TileExists(cli.tile) /\ gpu.sched # <<>>
        /\ \E readable \in SUBSET DOMAIN gpu.sched :
             LET of(x) == {h \in readable : gpu.sched[h] = x}
                 skipped == IF readable = DOMAIN gpu.sched THEN ignored ELSE Overlooked
                 pick == IF of(SubdeviceOf(cli.tile)) # {} THEN of(SubdeviceOf(cli.tile))
                         ELSE of(OnDevice)
             IN IF pick = {} THEN Finish("notavail", wrote)
                ELSE Finish("driver", wrote) \/ FinishWith("ok", Took(Min(pick)), skipped)
  /\ UNCHANGED coldVars

(* power::setLimitsExt() for the device: its first domain whose limits can *)
(* be read decides.                                                        *)
SetLimitsExt(readable) ==
  LET root == {h \in readable : gpu.power[h].on = OnDevice}
  IN \/ root = {} /\ Finish("unknown", wrote)
     \/ /\ root # {}
        /\ CASE gpu.power[Min(root)].limit = "locked" -> Finish("notavail", wrote)
             [] gpu.power[Min(root)].limit = "absent" -> Finish("unsupported", wrote)
             [] OTHER -> Finish("driver", wrote) \/ Finish("ok", Took(Min(root)))

SetPowerLimit ==
  /\ Running("powerlimit")
  /\ \E readable \in SUBSET DOMAIN gpu.power : SetLimitsExt(readable)
  /\ UNCHANGED coldVars

(* ecc::setState() and what setMemoryEcc() makes of it. Disabling what is   *)
(* not supported counts as done, and a query that fails (the second        *)
(* disjunct) as "not supported".                                           *)
EccSetState == \E r \in {"driver", "unknown", "ok"} :
  gpu.ecc /\ Finish(r, IF r = "ok" THEN Took(0) ELSE wrote)

SetMemoryEcc ==
  /\ Running("memoryecc")
  /\ LET unsupported == IF cli.on THEN "unsupported" ELSE "ok"
     IN \/ ~gpu.ecc /\ Finish(unsupported, wrote)
        \/ gpu.ecc /\ FinishWith(unsupported, wrote, Overlooked)
        \/ EccSetState
  /\ UNCHANGED coldVars

(* The PCI functions of the HAL: the downgrade is left alone where it is   *)
(* already as wanted.                                                      *)
PcieDowngrade ==
  \/ Finish("driver", wrote)
  \/ gpu.pcie = "none" /\ Finish("unsupported", wrote)
  \/ /\ gpu.pcie # "none"
     /\ Finish("ok", IF (gpu.pcie = "on") = cli.on THEN wrote ELSE Took(0))

SetPCIeGenUpdate ==
  /\ Running("pciedowngrade") /\ PcieDowngrade
  /\ UNCHANGED coldVars

-----------------------------------------------------------------------------
(* The fan setters of hal/core/fan.cpp go through every fan they mean,     *)
(* skip one that software cannot control, try a rejected setting again in  *)
(* another form, and return the last error.                                *)
FanMeant(h) == cli.fan = AllFans \/ cli.fan = h - 1

(* Mutant: lastResult is assigned from every fan, a later success included.*)
SetFanMutant(next, h) ==
  \/ ~FanMeant(h) /\ Advance(next, wrote)
  \/ FanMeant(h) /\ ~gpu.fan[h] /\ Advance([next EXCEPT !.last = "unsupported"], wrote)
  \/ FanMeant(h) /\ Advance([next EXCEPT !.last = "driver"], wrote)
  \/ FanMeant(h) /\ gpu.fan[h] /\ Advance([next EXCEPT !.last = "ok"], Took(h))

SetFan(next, h) ==
  \/ ~FanMeant(h) /\ Advance(next, wrote)
  \/ FanMeant(h) /\ ~gpu.fan[h] /\ Advance([next EXCEPT !.last = "unsupported"], wrote)
  \/ FanMeant(h) /\ Advance([next EXCEPT !.last = "driver"], wrote)
  \/ FanMeant(h) /\ gpu.fan[h] /\ Advance(next, Took(h))

SetFans(c) ==
  /\ Running(c)
  /\ LET n == Len(gpu.fan)
     IN \/ n = 0 /\ Finish("notavail", wrote)
        \/ n > 0 /\ cli.fan >= n /\ Finish("invalid", wrote)
        \/ n > 0 /\ cli.fan < n /\ call.i = n /\ Finish(call.last, wrote)
        \/ n > 0 /\ cli.fan < n /\ call.i < n
           /\ SetFan([call EXCEPT !.i = @ + 1], call.i + 1)
  /\ UNCHANGED coldVars

SetFanSpeed == SetFans("fanspeed")
SetFanCurve == SetFans("fancurve")
SetFanCurveRpm == SetFans("fancurverpm")

-----------------------------------------------------------------------------
(* resetDevice(): the process leaves through _Exit(0) when it succeeded.   *)
ExitNow ==
  /\ cfgPc' = "exited" /\ exitCode' = "0"
  /\ UNCHANGED <<cli, gpu, todo, call, wrote, ignored, log, firstError>>

ResetDevice ==
  /\ Running("reset")
  /\ Finish("driver", wrote) \/ ExitNow
  /\ UNCHANGED coldVars

(* coldResetDevice() up to the HAL: privilege, users of the GPU, other     *)
(* devices of the slot. A scan that fails finds nobody.                    *)
StartColdReset ==
  /\ Running("coldreset") /\ crPc = "idle"
  /\ \/ /\ \/ ~cli.root /\ Finish("perm", wrote)
           \/ cli.root /\ gpu.users /\ ~cli.ignore /\ Finish("inuse", wrote)
           \/ cli.root /\ gpu.peers /\ ~cli.force /\ Finish("notavail", wrote)
        /\ UNCHANGED coldVars
     \/ /\ cli.root /\ crPc' = "probe"
        /\ UNCHANGED cfgVars
        /\ UNCHANGED <<crResult, crSlot, power, present, bound, fresh, hadDriver, polls,
                       refused, cycled>>

EndColdReset ==
  /\ Running("coldreset") /\ crPc = "done"
  /\ \/ crResult = "0" /\ ExitNow
     \/ crResult = "-1" /\ Finish("unsupported", wrote)
     \/ crResult = "1" /\ Finish("unknown", wrote)
  /\ UNCHANGED coldVars

CfgStep == \/ ParseArguments \/ RunCommand \/ RunReturns
           \/ ResolveFrequencyTarget \/ SetFrequencyRange
           \/ SetStandby \/ ClearErrors \/ SetSchedulerAll \/ SetSchedulerTile
           \/ SetPowerLimit \/ SetMemoryEcc \/ SetPCIeGenUpdate
           \/ SetFanSpeed \/ SetFanCurve \/ SetFanCurveRpm
           \/ ResetDevice \/ StartColdReset \/ EndColdReset
           \/ (Running("coldreset") /\ ColdStep /\ UNCHANGED cfgVars)

CfgNext == CfgStep \/ (ColdKernel /\ UNCHANGED cfgVars)

CfgSpec == CfgInit /\ ColdInit /\ [][CfgNext]_<<cfgVars, coldVars>>

-----------------------------------------------------------------------------
(* A setting reported as made is on the handles it was meant for: on all   *)
(* of them, on one for a tile or a power limit, on one at least for the    *)
(* frequency of all tiles (or the GPU has no such domain). ECC is disabled *)
(* without being set on a GPU that has none - and, the one exception, on a *)
(* GPU that has it when the query for it failed (ecc.cpp:81-121,           *)
(* cmd_config.cpp:1351-1359): there the claim does not hold.               *)
Applied(c) ==
  CASE c = "frequencyrange" ->
         \/ wrote[c] # {}
         \/ /\ cli.tile = NoTile \/ AsInt32(cli.tile) = AllDomains
            /\ \A h \in DOMAIN gpu.freq : ~gpu.freq[h].gpu
    [] c = "standby"   -> wrote[c] = 1 .. gpu.standby
    [] c = "clearras"  -> wrote[c] = 1 .. gpu.ras /\ gpu.ras > 0
    [] c = "scheduler" -> IF cli.tile = NoTile THEN wrote[c] = DOMAIN gpu.sched
                          ELSE Cardinality(wrote[c]) = 1
    [] c = "powerlimit" -> Cardinality(wrote[c]) = 1
    [] c \in Fans -> wrote[c] = {h \in DOMAIN gpu.fan : FanMeant(h)} /\ wrote[c] # {}
    [] c = "memoryecc" -> wrote[c] = {0} \/ (~cli.on /\ (gpu.ecc => c \in ignored))
    [] c = "pciedowngrade" -> (wrote[c] = {0}) = (gpu.pcie # IF cli.on THEN "on" ELSE "off")
    [] OTHER -> FALSE

SuccessMeansApplied ==
  \A k \in DOMAIN log : log[k][2] = "ok" => Applied(log[k][1])

(* Whose handles a frequency range may change: everybody's without --tile; *)
(* nobody's for a tile the GPU does not have; the device's on a GPU        *)
(* without subdevices; else the subdevice's of the tile. The code makes    *)
(* two exceptions: the tile ID 2^32 - 1 is -1 as an int32_t and means all  *)
(* tiles (frequency.cpp:496-505); and tile 0 is the whole device when the  *)
(* number of subdevices could not be asked for (frequency.cpp:532-546).    *)
FrequencyOwners ==
  IF cli.tile = NoTile \/ AsInt32(cli.tile) = AllDomains THEN Owner
  ELSE IF cli.tile # AsInt32(cli.tile) \/ ~TileExists(cli.tile) THEN {}
  ELSE IF gpu.sub = <<>> THEN {OnDevice}
  ELSE {SubdeviceOf(cli.tile)}
         \cup {o \in {OnDevice} : cli.tile = 0 /\ "frequencyrange" \in ignored}

(* Likewise of the scheduler. The device's is taken for a tile without a   *)
(* scheduler of its own - and, the exception, for one that has some, when  *)
(* the properties of a scheduler could not be read (frequency.cpp:949-971).*)
SchedulerOwners ==
  IF cli.tile = NoTile THEN Owner
  ELSE IF ~TileExists(cli.tile) THEN {}
  ELSE {SubdeviceOf(cli.tile)}
         \cup {o \in {OnDevice} : \/ "scheduler" \in ignored
                                 \/ \A h \in DOMAIN gpu.sched :
                                      gpu.sched[h] # SubdeviceOf(cli.tile)}

Selected(c) ==
  IF Rejected(c) \/ cfgPc \in {"parse", "refused"} THEN {}
  ELSE CASE c \in Fans -> {h \in DOMAIN gpu.fan : FanMeant(h)}
         [] c = "frequencyrange" ->
              {h \in DOMAIN gpu.freq : gpu.freq[h].gpu /\ gpu.freq[h].on \in FrequencyOwners}
         [] c = "scheduler" -> {h \in DOMAIN gpu.sched : gpu.sched[h] \in SchedulerOwners}
         [] OTHER -> Nat

(* No handle outside the tile or the fan the user selected is ever changed *)
(* (but for the exceptions named above), and none by a value that was      *)
(* refused.                                                                *)
WritesWithinSelection == \A c \in cli.cmds : wrote[c] \subseteq Selected(c)
=============================================================================
