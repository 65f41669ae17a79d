------------------------------- MODULE XpuSmi -------------------------------
(***************************************************************************)
(* The xpu-smi program: main() of ial/cli/cli.cpp and the dispatch of      *)
(* cli_parser.h around the commands that change something, "config" (with  *)
(* its cold reset), "vgpu" and "updatefw", and around the sampling loops   *)
(* of "dump" and --query-gpu. The other commands read once and end.        *)
(*                                                                         *)
(* A behaviour is about the processes of one command, smiMode. main() is   *)
(* spelled out for "config"; the processes of the others begin with their    *)
(* run(), and what main() may refuse is among what run() may refuse.       *)
(***************************************************************************)
EXTENDS ConfigCommand, VgpuCommand, UpdateFwCommand, DumpCommand

CONSTANTS SmiModes,   \* the commands looked at
          IdleLine    \* a command line where none is used

VARIABLES
  smiMode,
  smiPc,    \* main(): "main", "run" (in a command's run()) or "ended"
  smiRc     \* the exit code of the process

smiVars == <<smiMode, smiPc, smiRc>>
allVars == <<smiVars, cfgVars, coldVars, vgVars, fwVars, dmVars>>

NoRc == -100
Aborted == 134

SmiInit ==
  /\ smiMode \in SmiModes /\ smiPc = "main" /\ smiRc = NoRc
  /\ CfgInit /\ ColdInit /\ VgInit /\ FwInit /\ DmInit
  /\ smiMode # "config" => cli = IdleLine /\ gpu = (CHOOSE g \in Gpus : TRUE) /\ bound
  /\ smiMode # "vgpu" => conf = CHOOSE c \in ConfFiles : TRUE
  /\ smiMode # "updatefw" => fwCan = CHOOSE o \in Openable : TRUE
  /\ smiMode # "dump" => dmLine = CHOOSE l \in DumpLines : TRUE

EndProcess(rc) == smiPc' = "ended" /\ smiRc' = rc /\ UNCHANGED smiMode

(* main(), runCli() and handleTopLevel() up to the command: the driver may *)
(* not initialize (-1), "compat" or an argument be unknown (1), the        *)
(* subcommand be unknown (2), or a top-level flag be all there is (0, 1).  *)
Main ==
  /\ smiPc = "main"
  /\ \/ \E rc \in {-1, 0, 1, 2} : EndProcess(rc)
     \/ smiPc' = "run" /\ UNCHANGED <<smiMode, smiRc>>
  /\ UNCHANGED <<cfgVars, coldVars>>

(* Mutant: the code of run() is the exit code, and a code has eight bits   *)
(* (here: unsupported is a multiple of 256).                               *)
MainReturnsMutant ==
  /\ smiPc = "run" /\ cfgPc \in Ended
  /\ EndProcess(CASE cfgPc = "aborted" -> Aborted [] cfgPc = "exited" -> 0
                  [] OTHER -> IF exitCode \in {"ok", "unsupported"} THEN 0 ELSE 1)
  /\ UNCHANGED <<cfgVars, coldVars>>

(* run() came back, or the command ended the process itself.               *)
MainReturns ==
  /\ smiPc = "run" /\ cfgPc \in Ended
  /\ EndProcess(CASE cfgPc = "aborted" -> Aborted [] cfgPc = "exited" -> 0
                  [] OTHER -> IF exitCode = "ok" THEN 0 ELSE 1)
  /\ UNCHANGED <<cfgVars, coldVars>>

ConfigStep == \/ Main \/ MainReturns
              \/ smiPc = "run" /\ CfgStep /\ UNCHANGED smiVars

SmiNext ==
  \/ /\ smiMode = "config" /\ UNCHANGED <<vgVars, fwVars, dmVars>>
     /\ \/ ConfigStep
        \/ ColdKernel /\ UNCHANGED <<smiVars, cfgVars>>
  \/ smiMode = "vgpu" /\ VgNext /\ UNCHANGED <<smiVars, cfgVars, coldVars, fwVars, dmVars>>
  \/ smiMode = "updatefw" /\ FwNext /\ UNCHANGED <<smiVars, cfgVars, coldVars, vgVars, dmVars>>
  \/ smiMode = "dump" /\ DmNext /\ UNCHANGED <<smiVars, cfgVars, coldVars, vgVars, fwVars>>

(* A step of the only process of "config" or of "dump".                    *)
OneProcess ==
  \/ smiMode = "config" /\ ConfigStep /\ UNCHANGED dmVars
  \/ smiMode = "dump" /\ DumpStep /\ UNCHANGED <<smiVars, cfgVars, coldVars>>

(* A process runs on; a driver call returns, and so do the threads of an   *)
(* update. The kernel need not enumerate a device or bind a driver, nor    *)
(* anyone press a key.                                                     *)
SmiSpec ==
  /\ SmiInit /\ [][SmiNext]_allVars
  /\ WF_<<smiVars, cfgVars, coldVars, dmVars>>(OneProcess)
  /\ FwFairness

SmiTypeOK ==
  /\ smiMode \in SmiModes /\ smiPc \in {"main", "run", "ended"}
  /\ smiRc \in {NoRc, Aborted} \cup -1 .. 2
  /\ CfgTypeOK /\ ColdTypeOK /\ VgTypeOK /\ FwTypeOK /\ DmTypeOK

-----------------------------------------------------------------------------
(* Exit code 0 of a "config" process says that every command on its line   *)
(* ran and succeeded, and 1 that one failed - except when a reset ended    *)
(* the process: _Exit(0) hides what failed before it (cmd_config.cpp:2105).*)
ExitCodeTells ==
  smiPc = "ended" /\ cfgPc = "returned" =>
     /\ {log[k][1] : k \in DOMAIN log} = cli.cmds
     /\ (smiRc = 0) = (\A k \in DOMAIN log : log[k][2] = "ok")

(* A config process, a dump or query with a limit or a pressed q or ESC,   *)
(* or updatefw process p has yet to end.                                   *)
MustEnd(p) ==
  \/ smiMode = "config" /\ smiPc # "ended"
  \/ smiMode = "dump" /\ dmPc \notin DumpOver /\ (Limited(dmLine) \/ dmQuit = "key")
  \/ fwPc[p] \notin {"off", "done"}

(* A process that was given a command line ends: every wait of a cold      *)
(* reset has an end, the threads of an update stop and its lock is given   *)
(* back. A dump or query with a count, or a time, ends whatever happens at *)
(* the keyboard, every other one when q or ESC is pressed.                 *)
CommandsEnd == \A p \in FwProcs : MustEnd(p) ~> ~MustEnd(p)
=============================================================================
