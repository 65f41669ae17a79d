--------------------------------- MODULE Amc ---------------------------------
(***************************************************************************)
(* A process that uses the AMCs: xpu-smi opens the session with every card *)
(* (AmcSession) and then either runs one of the operations of that module  *)
(* or updates the firmware of a card (AmcFirmwareUpdate), whose commands   *)
(* go on counting the instance IDs of the session.                         *)
(***************************************************************************)
EXTENDS AmcSession, AmcFirmwareUpdate

amcVars == <<sessionVars, vars>>

AmcInit == SessionInit /\ Init /\ instanceID = 1 /\ mProgPercent = 0

(* updateAMC() of a card found by amcEnumFirmwares(); the pldm object is   *)
(* the session's.  The update repeats what the session met before it: its  *)
(* commands fail on their own, so it starts from sessions without a fault. *)
StartUpdate ==
  /\ where = "dispatch" /\ faults = 0 /\ ~misread
  /\ \E c \in Cards : card' = c /\ instanceID' = ids[c]
  /\ mProgPercent' \in {0, 100}   \* 100 after an earlier update of the card
  /\ operation' = [op |-> "update"]
  /\ where' = "updating"
  /\ UNCHANGED <<pdr, fru, bytes, rx, fileRet, reading, worker, cmdNo, attempt, types,
                 destEid, exitCode, external, fileSize>>
  /\ UNCHANGED <<agent, comp, step, ret, fp, amc, result, threads, history>>

UpdateStep == where = "updating" /\ Next /\ UNCHANGED sessionVars
SessionStep == SessionNext /\ UNCHANGED vars
Ended == where = "ended" /\ UNCHANGED amcVars

AmcNext == SessionStep \/ StartUpdate \/ UpdateStep \/ Ended

AmcSpec == AmcInit /\ [][AmcNext]_amcVars

(* The threads are scheduled and a read of the session returns.  Nothing   *)
(* is assumed of an AMC that is being updated: the agent waits for its     *)
(* requests as long as it takes.                                           *)
AmcFairness ==
  /\ WF_amcVars(SessionStep \/ StartUpdate)
  /\ WF_amcVars(where = "updating" /\ FlashThreadEnds /\ UNCHANGED sessionVars)
  /\ WF_amcVars(where = "updating" /\ Monitor /\ UNCHANGED sessionVars)
  /\ WF_amcVars(where = "updating" /\ Caller /\ UNCHANGED sessionVars)

AmcFairSpec == AmcSpec /\ AmcFairness

-----------------------------------------------------------------------------
(* Correctness properties *)

(* The AMC is never told to activate firmware of which a component is      *)
(* missing, and what it applied is the package byte for byte.              *)
ActivatesThePackage == ActivatedWhole /\ ImageIntact

(* The command ends: the session's operation whatever fails, retries and   *)
(* refusals included, unless it read a response left over from an earlier  *)
(* request, whose bytes may ask for ever further parts; an update once the *)
(* flash is over, whatever the percentage shown at that moment.            *)
AmcCommandEnds ==
  /\ <>(where \in {"ended", "updating"} \/ misread)
  /\ UpdateReturns
=============================================================================
