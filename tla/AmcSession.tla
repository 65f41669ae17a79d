------------------------------ MODULE AmcSession ------------------------------
(***************************************************************************)
(* A process that talks to the add-in management controllers (AMCs) of the *)
(* cards over I2C (hal/amc): it initialises a session with every card      *)
(* (MCTP control commands, then PLDM discovery) and then runs one          *)
(* operation: "xpu-smi amc" resets GPUs, reads a sensor or a file          *)
(* (cmd_amc.cpp), the card information is read from the FRU table.         *)
(*                                                                         *)
(* A request and the read of its response is one step, except for the file *)
(* transfer, whose responses come in several packets.  The AMC is          *)
(* external: it may refuse a request, its response may come too late for   *)
(* the read and then be there at the next one, or be gone; packets may get *)
(* lost or be sent twice.  faults bounds how often one of these happens.   *)
(* Formats, checksums and conversions of sensor readings are left out.     *)
(***************************************************************************)
EXTENDS Integers, Sequences, FiniteSets

CONSTANTS
  NumCards,       \* cards that amcCardDiscovery() finds
  SupportedTypes, \* external: the PLDM types an AMC reports
  Repository,     \* external: its PDRs, [type, id, parts]
  SensorIds, FileIds,  \* what is asked for on the command line
  FileSizes,      \* external: possible sizes of the file
  FruParts,       \* external: number of parts of the FRU table
  ChunkSize,      \* sizeof(mDfReadResp.data)
  IdMax,          \* PLDM_INSTANCE_ID_MAX
  MaxNumRetries,  \* MAX_NUM_RETRIES
  RetryCount,     \* RETRY_COUNT
  MaxFaults       \* bound on faults

(* A full part of a file takes more than one packet, and the responses     *)
(* that SetEID may leave unread are fewer than the instance IDs.           *)
ASSUME AmcSessionAssumption ==
  /\ {NumCards, FruParts, MaxNumRetries, RetryCount} \subseteq Nat \ {0}
  /\ ChunkSize \in Nat \ {0, 1} /\ FileSizes \subseteq Nat
  /\ IdMax \in Nat /\ RetryCount < IdMax - 1 /\ MaxFaults \in Nat
  /\ SupportedTypes \in Seq(Nat)
  /\ Repository \in Seq([type : {"sensor", "file"}, id : Nat, parts : Nat \ {0}])
  /\ Repository # <<>>

Cards == 0..(NumCards - 1)

VARIABLES
  where,       \* where the main thread is
  operation,   \* the command line: [op, arg, item]
  card,        \* the card at work: initialised, or the one of the operation
  cmdNo, attempt,   \* position in initCommands, retries of SetEID
  ids,         \* instanceID of each card's pldm object
  types,       \* versionInfo of the card being initialised
  destEid,     \* mDestEid of each card
  pdr,         \* pfPdrReq, mCurrentPdr, mPdrs and the records left to read
  fru,         \* FRU table length, next handle
  bytes,       \* what was collected: file bytes or parts of the FRU table
  rx,          \* rxMultiPartData() of the present file transfer command
  fileRet,     \* ret of getFile()
  reading,     \* sensorInfo: the PDR used to convert, the sensor that was read
  worker,      \* the threads of gpuReset()
  exitCode,
  ctl,         \* external: state of each AMC
  outbox,      \* external: its packets that were not read yet
  fileSize,    \* external: size of the file asked for
  faults, misread  \* number of faults; history: a read met an older packet

client == <<operation, pdr, fru, bytes, rx, fileRet, reading, worker>>
external == <<ctl, outbox, ids, faults, misread>>
sessionVars == <<where, client, card, cmdNo, attempt, types, destEid, exitCode,
                 external, fileSize>>

NoHdr == [cmd |-> "none", id |-> 0, ok |-> FALSE, v |-> 0]
Single(hdr) == [som |-> TRUE, eom |-> TRUE, seq |-> 0, hdr |-> hdr, byte |-> 0]
NoRx == [cmd |-> "none", retry |-> 0, som |-> FALSE, seq |-> 0, hdr |-> NoHdr,
         bytes |-> <<>>]

SessionTypeOK ==
  /\ card \in Cards /\ attempt \in 0..(RetryCount - 1)
  /\ ids \in [Cards -> 1..IdMax]
  /\ destEid \in [Cards -> 0..RetryCount]
  /\ rx.retry \in 0..(MaxNumRetries - 1) /\ rx.seq \in 0..3
  /\ exitCode \in {"none", "success", "cancelled", "error"}
  /\ faults \in 0..MaxFaults /\ misread \in BOOLEAN

(* The EIDs may have been set before, and a process that was killed may    *)
(* have left a response of a card unread.                                  *)
SessionInit ==
  /\ where = "init" /\ operation = [op |-> "none"]
  /\ card = 0 /\ cmdNo = 1 /\ attempt = 0
  /\ ids = [c \in Cards |-> 1]
  /\ types = <<>> /\ destEid = [c \in Cards |-> 0]
  /\ pdr = [handle |-> 0, xfer |-> <<0, 0>>, next |-> FALSE, left |-> 0,
            cur |-> <<>>, recs |-> <<>>]
  /\ fru = [len |-> 0, handle |-> 0]
  /\ bytes = <<>> /\ rx = NoRx /\ fileRet = TRUE
  /\ reading = [pdr |-> 0, sensor |-> 0]
  /\ worker = [c \in Cards |-> "none"]
  /\ exitCode = "none"
  /\ \E eid \in {0, 1} :
       ctl = [c \in Cards |-> [eid |-> eid, open |-> FALSE, reset |-> FALSE]]
  /\ \E left \in SUBSET Cards :
       /\ Cardinality(left) <= 1
       /\ outbox = [c \in Cards |-> IF c \in left THEN <<Single([NoHdr EXCEPT !.ok = TRUE])>>
                                    ELSE <<>>]
  /\ fileSize = 0
  /\ faults = 0 /\ misread = FALSE

Exit(code) == where' = "ended" /\ exitCode' = code

-----------------------------------------------------------------------------
(* One request and the read of one response *)

(* MCTP control commands have instance IDs of their own, which nothing     *)
(* compares.                                                               *)
MctpCommands == {"GET_VERSION", "GET_ENDPOINT_ID", "GET_ENDPOINT_UUID",
                 "SET_ENDPOINT_ID", "GET_MESSAGE_TYPE"}

(* The instance ID of a PLDM request, wrapped before it is used and        *)
(* counted up after a success only.                                        *)
InstanceId(c) == IF ids[c] = IdMax THEN 1 ELSE ids[c]
NextId(c, cmd, ok) ==
  CASE cmd \in MctpCommands -> ids[c]
    [] cmd \notin MctpCommands -> InstanceId(c) + (IF ok THEN 1 ELSE 0)

(* External: what a request that the AMC accepts changes in it.            *)
Executed(cmd, v, a) ==
  CASE cmd = "SET_ENDPOINT_ID" -> [a EXCEPT !.eid = v]
    [] cmd = "SET_STATE_EFFECTER_STATES" -> [a EXCEPT !.reset = TRUE]
    [] OTHER -> a

(* What can happen to a request: the write fails, the read fails after the *)
(* AMC has acted, or a response is read, the oldest that is there.  An     *)
(* unread response is kept or dropped when the next request comes.         *)
Response(c, cmd, ok, v) ==
  Single([cmd |-> cmd, id |-> IF cmd \in MctpCommands THEN 0 ELSE InstanceId(c),
          ok |-> ok, v |-> v])

WriteFailure(c) ==
  [cost |-> 1, done |-> FALSE, box |-> outbox[c], got |-> NoHdr, stale |-> FALSE]
ReadFailure(old, response, cost) ==
  [cost |-> 1 + cost, done |-> response.hdr.ok, box |-> Append(old, response),
   got |-> NoHdr, stale |-> FALSE]
ReadOf(old, response, cost) ==
  [cost |-> cost, done |-> response.hdr.ok, box |-> Tail(Append(old, response)),
   got |-> Head(Append(old, response)).hdr, stale |-> old # <<>>]

Outcomes(c, cmd, can, v) ==
  LET Acts == [ok : IF can THEN BOOLEAN ELSE {FALSE}, old : {outbox[c], <<>>}]
      Cost(ok) == IF ok \/ ~can THEN 0 ELSE 1
  IN {WriteFailure(c)}
     \cup {ReadFailure(a.old, Response(c, cmd, a.ok, v), Cost(a.ok)) : a \in Acts}
     \cup {ReadOf(a.old, Response(c, cmd, a.ok, v), Cost(a.ok)) : a \in Acts}

(* The common part of mctp::command(), discoveryCmd(), pfMonCtrlCmd(),     *)
(* pldmFruCommand() and amcGpuReset(); ok is whether it succeeded.         *)
Command(c, cmd, v, o, ok) ==
  /\ faults + o.cost <= MaxFaults
  /\ faults' = faults + o.cost
  /\ outbox' = [outbox EXCEPT ![c] = o.box]
  /\ ctl' = [ctl EXCEPT ![c] = IF o.done THEN Executed(cmd, v, @) ELSE @]
  /\ ids' = [ids EXCEPT ![c] = NextId(c, cmd, ok)]
  /\ misread' = (misread \/ o.stale)

(* The field of a response; the bytes of another command's response are    *)
(* anything.                                                               *)
Fields(got, cmd, any) == IF got.cmd = cmd THEN {got.v} ELSE any

-----------------------------------------------------------------------------
(* amcInitialize(): every card in turn *)

(* The bus cannot be opened or another process has locked it.              *)
SessionOpenFails ==
  /\ where = "init" /\ cmdNo = 1
  /\ Exit("error")
  /\ UNCHANGED <<client, card, cmdNo, attempt, types, destEid, external, fileSize>>

(* mctp::initialize() and pldmDiscInitialize().                            *)
versionCommands(t) ==
  [i \in 1..Len(t) |-> "GETVERSION"]
  \o [i \in 1..Cardinality({n \in 1..Len(t) : t[n] # 7}) |-> "GETCOMMANDS"]
  \o <<"GETTID", "SETTID">>
initCommands(t) ==
  <<"GET_VERSION", "GET_ENDPOINT_ID", "GET_ENDPOINT_UUID", "SET_ENDPOINT_ID",
    "GET_MESSAGE_TYPE", "GETTYPES">> \o versionCommands(t)

NewEid == attempt + 1   \* MCTP_DEST_SET_EID + i

InitValue(cmd) ==
  CASE cmd = "GET_ENDPOINT_ID" -> ctl[card].eid
    [] cmd = "SET_ENDPOINT_ID" -> NewEid
    [] cmd = "GETTYPES" -> SupportedTypes
    [] OTHER -> 0

(* controlResponse(), discoveryResponse(): what a response sets.  Neither  *)
(* compares the response with the request.                                 *)
InitResponse(cmd, got) ==
  /\ \/ /\ cmd \in {"GET_ENDPOINT_ID", "SET_ENDPOINT_ID"}
        /\ \E e \in Fields(got, cmd, {0, 1}) :
             destEid' = [destEid EXCEPT ![card] =
                           IF e = 0 /\ cmd = "GET_ENDPOINT_ID" THEN @ ELSE e]
     \/ cmd \notin {"GET_ENDPOINT_ID", "SET_ENDPOINT_ID"} /\ UNCHANGED destEid
  /\ \/ cmd = "GETTYPES" /\ types' \in Fields(got, cmd, {<<>>, SupportedTypes})
     \/ cmd # "GETTYPES" /\ UNCHANGED types

(* SetEID is skipped when the card has an EID.                             *)
FollowingNo(eid) == IF cmdNo = 3 /\ eid # 0 THEN 5 ELSE cmdNo + 1

InitCommandOk(cmd, got) ==
  /\ InitResponse(cmd, got)
  /\ attempt' = 0
  /\ \/ /\ cmdNo < Len(initCommands(types'))
        /\ cmdNo' = FollowingNo(destEid'[card])
        /\ UNCHANGED <<where, card>>
     \/ /\ cmdNo = Len(initCommands(types'))
        /\ cmdNo' = 1
        /\ \/ card < NumCards - 1 /\ card' = card + 1 /\ UNCHANGED where
           \/ card = NumCards - 1 /\ where' = "dispatch" /\ UNCHANGED card
  /\ UNCHANGED exitCode

(* SetEID is tried RETRY_COUNT times, each time with another EID.          *)
InitCommandFailed(cmd) ==
  /\ \/ /\ cmd = "SET_ENDPOINT_ID" /\ attempt < RetryCount - 1
        /\ attempt' = attempt + 1
        /\ UNCHANGED <<where, exitCode>>
     \/ /\ cmd # "SET_ENDPOINT_ID" \/ attempt = RetryCount - 1
        /\ Exit("error")
        /\ UNCHANGED attempt
  /\ UNCHANGED <<card, cmdNo, types, destEid>>

InitCommand ==
  /\ where = "init"
  /\ LET cmd == initCommands(types)[cmdNo]
     IN \E o \in Outcomes(card, cmd, TRUE, InitValue(cmd)) :
          /\ Command(card, cmd, InitValue(cmd), o, o.got.ok)
          /\ \/ o.got.ok /\ InitCommandOk(cmd, o.got)
             \/ ~o.got.ok /\ InitCommandFailed(cmd)
  /\ UNCHANGED <<client, fileSize>>

-----------------------------------------------------------------------------
(* cmdAmc::run(): the operation.  --device is left out, an index, or the   *)
(* PCI address of a card; index and address NumCards are of no card.       *)

DeviceArgs == {<<"none", 0>>} \cup {"index", "bdf"} \X (0..NumCards)

(* getDeviceIndex(): -1 if there is no such card.                          *)
getDeviceIndex(arg) == IF arg[1] # "none" /\ arg[2] \in Cards THEN arg[2] ELSE -1

StartOperation(opn, c, next) ==
  /\ operation' = opn /\ card' = c /\ where' = next
  /\ UNCHANGED <<worker, exitCode>>

(* readSensor(), readFile(): the arguments, before anything is sent.       *)
Dispatch ==
  /\ where = "dispatch"
  /\ \/ \E op \in {"sensor", "file"}, arg \in DeviceArgs :
          LET c == getDeviceIndex(arg)
          IN IF c = -1
             THEN /\ operation' = [op |-> op, arg |-> arg, item |-> 0]
                  /\ Exit("error")
                  /\ UNCHANGED <<worker, card>>
                  /\ UNCHANGED fileSize
             ELSE \E i \in (IF op = "sensor" THEN SensorIds ELSE FileIds) :
                    /\ StartOperation([op |-> op, arg |-> arg, item |-> i], c,
                                      "repository")
                    /\ fileSize' \in (IF op = "file" THEN FileSizes ELSE {fileSize})
     \/ \E c \in Cards :
          /\ StartOperation([op |-> "card info", arg |-> <<"bdf", c>>, item |-> 0], c,
                            "fru metadata")
          /\ UNCHANGED fileSize
  /\ UNCHANGED <<pdr, fru, bytes, rx, fileRet, reading, cmdNo, attempt, types, destEid,
                 external>>

-----------------------------------------------------------------------------
(* gpuReset() *)

(* std::stoi() reads the number an argument begins with: of a PCI address  *)
(* that is the domain, 0.  Without --device it is -1.                      *)
DeviceNumber(arg) ==
  CASE arg[1] = "none" -> -1
    [] arg[1] = "index" -> arg[2]
    [] arg[1] = "bdf" -> 0

ResetTargets(arg) == IF DeviceNumber(arg) < 0 THEN Cards ELSE {DeviceNumber(arg)}

(* The user is asked, unless -y is given.  A thread per card.              *)
StartReset ==
  /\ where = "dispatch"
  /\ \E arg \in DeviceArgs :
       /\ operation' = [op |-> "reset", arg |-> arg, item |-> 0]
       /\ \/ Exit("cancelled") /\ UNCHANGED worker
          \/ DeviceNumber(arg) >= NumCards /\ Exit("error") /\ UNCHANGED worker
          \/ /\ DeviceNumber(arg) < NumCards
             /\ worker' = [c \in Cards |-> IF c \in ResetTargets(arg) THEN "running"
                                                                      ELSE "none"]
             /\ where' = "joining"
             /\ UNCHANGED exitCode
  /\ UNCHANGED <<pdr, fru, bytes, rx, fileRet, reading, card, cmdNo, attempt, types,
                 destEid, external, fileSize>>

(* Mutant: the response's instance ID is not compared.                     *)
ResetAcceptedMutant(c, got) == got.ok

(* amcGpuReset() of pldm: the response must have the request's instance ID. *)
ResetAccepted(c, got) == got.id = InstanceId(c) /\ got.ok

ResetWorker(c) ==
  /\ worker[c] = "running"
  /\ \E o \in Outcomes(c, "SET_STATE_EFFECTER_STATES", TRUE, 0) :
       LET ok == ResetAccepted(c, o.got)
       IN /\ Command(c, "SET_STATE_EFFECTER_STATES", 0, o, ok)
          /\ worker' = [worker EXCEPT ![c] = IF ok THEN "success" ELSE "failure"]
  /\ UNCHANGED <<operation, pdr, fru, bytes, rx, fileRet, reading, where, card, cmdNo,
                 attempt, types, destEid, exitCode, fileSize>>

JoinWorkers ==
  /\ where = "joining"
  /\ \A c \in Cards : worker[c] # "running"
  /\ Exit(IF \E c \in Cards : worker[c] = "failure" THEN "error" ELSE "success")
  /\ UNCHANGED <<client, card, cmdNo, attempt, types, destEid, external, fileSize>>

-----------------------------------------------------------------------------
(* Platform monitoring: the PDRs and a sensor *)

session == <<operation, fru, bytes, rx, fileRet, worker, card, cmdNo, attempt, types,
             destEid, fileSize>>

(* pfGetPdrRepositoryInfo(): an empty repository is an error.  The first   *)
(* record is asked for next.                                               *)
GetRepositoryInfo ==
  /\ where = "repository"
  /\ LET cmd == "GET_PDR_REPOSITORY_INFO"
     IN \E o \in Outcomes(card, cmd, TRUE, Len(Repository)),
           n \in 0..Len(Repository) :
          /\ o.got.ok => n \in Fields(o.got, cmd, 0..Len(Repository))
          /\ ~o.got.ok => n = 0
          /\ Command(card, cmd, 0, o, n > 0)
          /\ \/ n > 0 /\ pdr' = [pdr EXCEPT !.left = n] /\ where' = "pdr"
                /\ UNCHANGED exitCode
             \/ n = 0 /\ Exit("error") /\ UNCHANGED pdr
  /\ UNCHANGED <<session, reading>>

(* External: GetPDR names a record by its handle, 0 being the first one,   *)
(* or a further part of it.                                                *)
Asked == IF pdr.next THEN pdr.xfer
         ELSE <<IF pdr.handle = 0 THEN 1 ELSE pdr.handle, 1>>
PdrExists(a) == a[1] \in 1..Len(Repository) /\ a[2] \in 1..Repository[a[1]].parts
PdrValue(a) ==
  [nextRecord |-> IF a[1] < Len(Repository) THEN a[1] + 1 ELSE 0,
   nextXfer |-> <<a[1], a[2] + 1>>,
   last |-> PdrExists(a) => a[2] = Repository[a[1]].parts,
   part |-> a]
AnyPdr == [nextRecord : {0}, nextXfer : {<<0, 0>>}, last : BOOLEAN,
           part : {<<0, 0>>}]

(* Mutant: the part of a record just read is not forgotten at its end.     *)
PdrReceivedMutant(r) ==
  LET cur == Append(pdr.cur, r.part)
  IN [handle |-> r.nextRecord,
      xfer |-> IF r.last THEN <<0, 0>> ELSE r.nextXfer,
      next |-> ~r.last,
      left |-> IF r.last THEN pdr.left - 1 ELSE pdr.left,
      cur |-> cur,
      recs |-> IF r.last THEN Append(pdr.recs, cur) ELSE pdr.recs]

(* pfPdrRespPayload(), finishPdrRecord() and the request for the next part *)
(* or the next record.                                                     *)
PdrReceived(r) ==
  LET cur == Append(pdr.cur, r.part)
  IN [handle |-> r.nextRecord,
      xfer |-> IF r.last THEN <<0, 0>> ELSE r.nextXfer,
      next |-> ~r.last,
      left |-> IF r.last THEN pdr.left - 1 ELSE pdr.left,
      cur |-> IF r.last THEN <<>> ELSE cur,
      recs |-> IF r.last THEN Append(pdr.recs, cur) ELSE pdr.recs]

(* A record's type and ID are in its first part.                           *)
HasId(rec, id) == rec[1] = <<rec[1][1], 1>> /\ rec[1][1] > 0
                  /\ Repository[rec[1][1]].id = id

(* pfGetSensorValuesById() takes the first record with the ID, of any      *)
(* type, getFilePdrById() the first file descriptor with it.               *)
Matching(recs) ==
  {i \in 1..Len(recs) :
     /\ HasId(recs[i], operation.item)
     /\ operation.op = "file" => Repository[recs[i][1][1]].type = "file"}

(* The lookup, once the last record was read.                              *)
AfterPdrs(p) ==
  \/ p.left > 0 /\ UNCHANGED <<where, exitCode>>
  \/ p.left = 0 /\ Matching(p.recs) = {} /\ Exit("error")
  \/ /\ p.left = 0 /\ Matching(p.recs) # {}
     /\ where' = IF operation.op = "file" THEN "send" ELSE "sensor"
     /\ UNCHANGED exitCode

(* One round of pfMonCtrlCmd(PLDM_GET_PDR).                                *)
GetPdr ==
  /\ where = "pdr"
  /\ \E o \in Outcomes(card, "GET_PDR", PdrExists(Asked), PdrValue(Asked)) :
       /\ Command(card, "GET_PDR", 0, o, o.got.ok)
       /\ \/ /\ o.got.ok
             /\ \E r \in Fields(o.got, "GET_PDR", AnyPdr) :
                  /\ pdr' = PdrReceived(r)
                  /\ AfterPdrs(PdrReceived(r))
                  /\ \/ where' # "send" /\ UNCHANGED rx
                     \/ where' = "send" /\ rx' = [NoRx EXCEPT !.cmd = "DF_OPEN"]
          \/ ~o.got.ok /\ Exit("error") /\ UNCHANGED <<pdr, rx>>
  /\ UNCHANGED <<operation, fru, bytes, fileRet, reading, worker, card, cmdNo, attempt,
                 types, destEid, fileSize>>

(* Mutant: the last record that matches is used.                           *)
FirstMatchMutant(recs) == CHOOSE i \in Matching(recs) : \A j \in Matching(recs) : i >= j

(* The record that is used.                                                *)
FirstMatch(recs) == CHOOSE i \in Matching(recs) : \A j \in Matching(recs) : i <= j

(* pfGetSensorValue() and readSensor().                                    *)
GetSensorReading ==
  /\ where = "sensor"
  /\ LET first == FirstMatch(pdr.recs)
     IN \E o \in Outcomes(card, "GET_SENSOR_READING", TRUE, operation.item) :
          /\ Command(card, "GET_SENSOR_READING", 0, o, o.got.ok)
          /\ \/ /\ o.got.ok
                /\ \E s \in Fields(o.got, "GET_SENSOR_READING", {0}) :
                     reading' = [pdr |-> pdr.recs[first][1][1], sensor |-> s]
                /\ Exit("success")
             \/ ~o.got.ok /\ Exit("error") /\ UNCHANGED reading
  /\ UNCHANGED <<session, pdr>>

-----------------------------------------------------------------------------
(* pldmFruInitialize() *)

GetFruMetadata ==
  /\ where = "fru metadata"
  /\ LET cmd == "GET_FRU_RECORD_TABLE_METADATA"
     IN \E o \in Outcomes(card, cmd, TRUE, FruParts) :
          /\ Command(card, cmd, 0, o, o.got.ok)
          /\ \/ /\ o.got.ok
                /\ \E n \in Fields(o.got, cmd, 0..FruParts) :
                     fru' = [len |-> n, handle |-> 1]
                /\ where' = "fru table"
                /\ UNCHANGED exitCode
             \/ ~o.got.ok /\ Exit("error") /\ UNCHANGED fru
  /\ UNCHANGED <<operation, pdr, bytes, rx, fileRet, reading, worker, card, cmdNo,
                 attempt, types, destEid, fileSize>>

(* The size must be the one of the metadata; a malformed or empty table is *)
(* not looked into further.                                                *)
FruComplete(parts) == Len(parts) = fru.len

GetFruTable ==
  /\ where = "fru table"
  /\ LET cmd == "GET_FRU_RECORD_TABLE"
         value == [part |-> fru.handle, next |-> fru.handle + 1,
                   last |-> fru.handle = FruParts]
         any == [part : {0}, next : 0..FruParts, last : BOOLEAN]
     IN \E o \in Outcomes(card, cmd, fru.handle \in 1..FruParts, value) :
          /\ Command(card, cmd, 0, o, o.got.ok)
          /\ \/ /\ o.got.ok
                /\ \E r \in Fields(o.got, cmd, any) :
                     /\ bytes' = Append(bytes, r.part)
                     /\ fru' = [fru EXCEPT !.handle = r.next]
                     /\ \/ ~r.last /\ UNCHANGED <<where, exitCode>>
                        \/ r.last /\ FruComplete(bytes') /\ Exit("success")
                        \/ r.last /\ Exit("error")   \* length or parseFruTable()
             \/ ~o.got.ok /\ Exit("error") /\ UNCHANGED <<bytes, fru>>
  /\ UNCHANGED <<operation, pdr, rx, fileRet, reading, worker, card, cmdNo, attempt,
                 types, destEid, fileSize>>

-----------------------------------------------------------------------------
(* getFile(): DF_OPEN, MULTIPART_RECEIVE until the end, DF_CLOSE *)

transfer == <<operation, pdr, fru, reading, worker, card, cmdNo, attempt, types, destEid,
              fileSize>>

(* External: the part of the file the present request asks for; every part *)
(* but the last is as long as was asked for.                               *)
PartLength == IF fileSize - Len(bytes) < ChunkSize THEN fileSize - Len(bytes)
                                                    ELSE ChunkSize
PartLast == Len(bytes) + PartLength = fileSize

(* External: the packets of a response, a byte in each.                    *)
Packets(hdr) ==
  IF hdr.cmd # "MULTIPART_RECEIVE" \/ ~hdr.ok \/ hdr.v.len <= 1
  THEN <<[Single(hdr) EXCEPT !.byte = Len(bytes) + 1]>>
  ELSE [i \in 1..hdr.v.len |->
          [som |-> i = 1, eom |-> i = hdr.v.len, seq |-> (i - 1) % 4,
           hdr |-> IF i = 1 THEN hdr ELSE NoHdr, byte |-> Len(bytes) + i]]

(* External: descriptor v is the one the AMC gave out, or another one.     *)
FileExecuted(cmd, a) ==
  CASE cmd = "DF_OPEN" -> [a EXCEPT !.open = TRUE]
    [] cmd = "DF_CLOSE" -> [a EXCEPT !.open = FALSE]
    [] OTHER -> a

(* The result of a file transfer command: DF_CLOSE follows whatever        *)
(* MULTIPART_RECEIVE came to.                                              *)
FileCommandFailed(cmd) ==
  \/ cmd = "DF_OPEN" /\ Exit("error") /\ rx' = NoRx /\ UNCHANGED fileRet
  \/ /\ cmd = "MULTIPART_RECEIVE"
     /\ where' = "send" /\ rx' = [NoRx EXCEPT !.cmd = "DF_CLOSE"]
     /\ fileRet' = FALSE
     /\ UNCHANGED exitCode
  \/ cmd = "DF_CLOSE" /\ Exit("error") /\ rx' = NoRx /\ UNCHANGED fileRet

(* pldmFileTransferCmd(): the write.                                       *)
SendFileCommand ==
  /\ where = "send"
  /\ LET hdr(ok) == [cmd |-> rx.cmd, id |-> InstanceId(card), ok |-> ok,
                     v |-> [len |-> PartLength, last |-> PartLast]]
     IN \/ /\ faults < MaxFaults /\ faults' = faults + 1   \* the write fails
           /\ FileCommandFailed(rx.cmd)
           /\ UNCHANGED <<outbox, ctl>>
        \/ \E ok \in BOOLEAN, old \in {outbox[card], <<>>} :
             /\ ok \/ faults < MaxFaults
             /\ faults' = IF ok THEN faults ELSE faults + 1
             /\ outbox' = [outbox EXCEPT ![card] = old \o Packets(hdr(ok))]
             /\ ctl' = [ctl EXCEPT ![card] = IF ok THEN FileExecuted(rx.cmd, @) ELSE @]
             /\ where' = "read"
             /\ rx' = [NoRx EXCEPT !.cmd = rx.cmd]
             /\ UNCHANGED <<fileRet, exitCode>>
  /\ ids' = [ids EXCEPT ![card] = InstanceId(card)]
  /\ UNCHANGED <<transfer, bytes, misread>>

(* rxMultiPartData(): a read fails, MAX_NUM_RETRIES times at most for one  *)
(* packet.  The packet may be lost with it.                                *)
ReadPacketFails ==
  /\ where = "read"
  /\ \/ outbox[card] = <<>> /\ UNCHANGED <<faults, outbox>>
     \/ /\ outbox[card] # <<>> /\ faults < MaxFaults
        /\ faults' = faults + 1
        /\ \/ UNCHANGED outbox
           \/ outbox' = [outbox EXCEPT ![card] = Tail(@)]
  /\ \/ /\ rx.retry < MaxNumRetries - 1
        /\ rx' = [rx EXCEPT !.retry = @ + 1]
        /\ UNCHANGED <<where, fileRet, exitCode>>
     \/ rx.retry = MaxNumRetries - 1 /\ FileCommandFailed(rx.cmd)
  /\ UNCHANGED <<transfer, bytes, ids, ctl, misread>>

(* Command codes are compared, not PLDM types: those of DF_OPEN and SETTID *)
(* and of DF_CLOSE and GETTID are the same.                                *)
SameCode(a, b) == a = b \/ {a, b} \in {{"SETTID", "DF_OPEN"}, {"GETTID", "DF_CLOSE"}}

(* pldmFileTransferResp(), its payload and the handler of the command; an  *)
(* instance ID that differs is only logged.                                *)
ResponseOk(hdr, got) ==
  /\ SameCode(hdr.cmd, rx.cmd) /\ hdr.ok
  /\ rx.cmd = "MULTIPART_RECEIVE" => hdr.v.len <= Len(got)

(* Mutant: the next part is asked for from the beginning again.            *)
CollectedMutant(hdr, got) == SubSeq(got, 1, hdr.v.len)

Collected(hdr, got) == bytes \o SubSeq(got, 1, hdr.v.len)

(* pldmDfOpenCommand(), pldmMultipartReceiveCommand(), getFile(): what     *)
(* follows a success.                                                      *)
AfterResponse(hdr, got) ==
  \/ /\ rx.cmd = "DF_OPEN"
     /\ where' = "send" /\ rx' = [NoRx EXCEPT !.cmd = "MULTIPART_RECEIVE"]
     /\ bytes' = <<>>
     /\ UNCHANGED exitCode
  \/ /\ rx.cmd = "MULTIPART_RECEIVE"
     /\ bytes' = Collected(hdr, got)
     /\ where' = "send"
     /\ rx' = [NoRx EXCEPT !.cmd = IF hdr.v.last \/ hdr.v.len < ChunkSize
                                   THEN "DF_CLOSE" ELSE "MULTIPART_RECEIVE"]
     /\ UNCHANGED exitCode
  \/ /\ rx.cmd = "DF_CLOSE"
     /\ rx' = NoRx
     /\ \/ fileRet /\ where' = "save" /\ UNCHANGED exitCode
        \/ ~fileRet /\ Exit("error")
     /\ UNCHANGED bytes

(* The message is complete.                                                *)
Complete(hdr, got) ==
  \/ /\ ResponseOk(hdr, got)
     /\ AfterResponse(hdr, got)
     /\ ids' = [ids EXCEPT ![card] = @ + 1]
     /\ UNCHANGED fileRet
  \/ ~ResponseOk(hdr, got) /\ FileCommandFailed(rx.cmd) /\ UNCHANGED <<bytes, ids>>

(* Mutant: the packet sequence is not compared.                            *)
InSequenceMutant(p) == rx.som

(* A middle or last packet is taken only in sequence after a first one.    *)
InSequence(p) == rx.som /\ p.seq = rx.seq

(* rxMultiPartData(): a packet is read; the AMC may send it once more.     *)
ReadPacket ==
  /\ where = "read" /\ outbox[card] # <<>>
  /\ \/ outbox' = [outbox EXCEPT ![card] = Tail(@)] /\ UNCHANGED faults
     \/ faults < MaxFaults /\ faults' = faults + 1 /\ UNCHANGED outbox
  /\ LET p == Head(outbox[card])
         got == Append(rx.bytes, p.byte)
         hdr == IF p.som THEN p.hdr ELSE rx.hdr
     IN \/ /\ p.som /\ p.eom
           /\ Complete(p.hdr, <<p.byte>>)
        \/ /\ p.som /\ ~p.eom
           /\ rx' = [rx EXCEPT !.retry = 0, !.som = TRUE, !.seq = (p.seq + 1) % 4,
                               !.hdr = p.hdr, !.bytes = <<p.byte>>]
           /\ UNCHANGED <<where, bytes, ids, fileRet, exitCode>>
        \/ /\ ~p.som /\ InSequence(p) /\ ~p.eom
           /\ rx' = [rx EXCEPT !.retry = 0, !.seq = (@ + 1) % 4, !.bytes = got]
           /\ UNCHANGED <<where, bytes, ids, fileRet, exitCode>>
        \/ ~p.som /\ InSequence(p) /\ p.eom /\ Complete(rx.hdr, got)
        \/ ~p.som /\ ~InSequence(p) /\ FileCommandFailed(rx.cmd) /\ UNCHANGED <<bytes, ids>>
  /\ misread' = (misread \/ Head(outbox[card]).hdr.cmd \notin {rx.cmd, "none"})
  /\ UNCHANGED <<transfer, ctl>>

(* readFile(): an empty file is an error, as is one that cannot be written. *)
SaveFile ==
  /\ where = "save"
  /\ \/ bytes # <<>> /\ Exit("success")
     \/ Exit("error")
  /\ UNCHANGED <<client, card, cmdNo, attempt, types, destEid, external, fileSize>>

-----------------------------------------------------------------------------
SessionNext ==
  \/ SessionOpenFails \/ InitCommand \/ Dispatch
  \/ StartReset \/ (\E c \in Cards : ResetWorker(c)) \/ JoinWorkers
  \/ GetRepositoryInfo \/ GetPdr \/ GetSensorReading
  \/ GetFruMetadata \/ GetFruTable
  \/ SendFileCommand \/ ReadPacketFails \/ ReadPacket \/ SaveFile

-----------------------------------------------------------------------------
(* Correctness properties *)

(* "GPU reset successfully completed" (cmd_amc.cpp) says that every card   *)
(* that was selected has executed the reset, although its AMC may answer   *)
(* an earlier request first, and the threads' results are only counted.    *)
ResetIsReal ==
  operation.op = "reset" /\ exitCode = "success" =>
    \A c \in ResetTargets(operation.arg) : ctl[c].reset

(* "-d <deviceId> Specify the device ID or PCI BDF address" (amc.rst:39):  *)
(* no card is reset but the one that --device names.                       *)
ResetsNamedDevice ==
  \A c \in Cards : ctl[c].reset =>
    operation.arg[1] = "none" \/ operation.arg[2] = c

(* A file that was read successfully is the whole file, in order, and the  *)
(* AMC has it closed again, although packets get lost or are sent twice,   *)
(* parts are put together and older responses are read on the way; a       *)
(* failure leaves it open only if there was a fault or an older response.  *)
FileReadWhole ==
  operation.op = "file" /\ where = "ended" =>
    /\ exitCode = "success" =>
         bytes = [i \in 1..fileSize |-> i] /\ ~ctl[card].open
    /\ ctl[card].open => faults > 0 \/ misread

(* The records that describe a sensor.                                     *)
SensorPdrs(id) == {r \in 1..Len(Repository) :
                     Repository[r].type = "sensor" /\ Repository[r].id = id}

(* pfGetSensorValuesById() "searches for the sensor PDR with the specified *)
(* sensor ID" (pldm_platform.cpp:373), but does not look at the type: the  *)
(* exception is a record of another type with that ID that comes before    *)
(* the sensor's, which is taken instead.                                   *)
Misleading(r, id) ==
  Repository[r].id = id /\ \A s \in SensorPdrs(id) : r < s

(* What is reported for a sensor or a card was asked for: the reading is   *)
(* the sensor's and is converted with the sensor's own PDR (or with a      *)
(* misleading one), of whatever length the records before it are, and the  *)
(* FRU table is whole.  Excepted is a process that read a response left    *)
(* over from an earlier request: these commands do not compare the         *)
(* instance ID, although their comments say so (mctp_control_resp.cpp:77,  *)
(* pldm_discovery_resp.cpp:123, pldm_fru_resp.cpp:122).                    *)
AnswersWhatWasAsked ==
  exitCode = "success" /\ ~misread =>
    /\ operation.op = "sensor" =>
         /\ reading.sensor = operation.item
         /\ \/ reading.pdr \in SensorPdrs(operation.item)
            \/ Misleading(reading.pdr, operation.item)
         /\ pdr.recs = [r \in 1..Len(Repository) |->
                          [p \in 1..Repository[r].parts |-> <<r, p>>]]
    /\ operation.op = "card info" => bytes = [i \in 1..FruParts |-> i]
    /\ \A c \in Cards : destEid[c] = ctl[c].eid
=============================================================================
